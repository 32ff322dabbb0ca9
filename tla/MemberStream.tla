----------------------------- MODULE MemberStream -----------------------------
(***************************************************************************)
(* What TarReader promises its client, with no blocks, chunks, extensions  *)
(* or cancellation in sight: members in archive order, the payload of each *)
(* delivered exactly once, in order and as long as announced, unless the   *)
(* client gives it up, a member only after the payload before it is used   *)
(* up, and once the archive ended or failed nothing but the end.  The one  *)
(* exception is a payload the client still holds when a read of it fails:  *)
(* asked for more, it answers with an error, never with bytes.             *)
(***************************************************************************)
EXTENDS Integers, Sequences

VARIABLES
  ended,   \* the archive ended or an error was reported
  next,    \* the offset of the next payload byte of the current member
  left,    \* how many payload bytes of it are still to come
  held,    \* does the client still want them?
  out      \* what the last call returned

vars == <<ended, next, left, held, out>>

Init ==
  /\ ended = FALSE /\ next = 0 /\ left = 0 /\ held = FALSE
  /\ out = [type |-> "Pending"]

(* Any call but one that reads the payload gives up what is left of it.    *)
MayGiveUp == held' \in {held, FALSE}

(* A call begins, or has nothing to report yet.                            *)
Silent ==
  /\ ~ended
  /\ out' = [type |-> "Pending"]
  /\ MayGiveUp
  /\ UNCHANGED <<ended, next, left>>

Member ==
  /\ ~ended /\ left = 0 /\ ~held
  /\ out'.type = "Member"
  /\ out'.position >= next
  /\ next' > out'.position
  /\ left' = out'.size
  /\ held' = TRUE
  /\ UNCHANGED ended

Payload ==
  /\ ~ended /\ held
  /\ out'.type = "Bytes"
  /\ Len(out'.bytes) \in 1..left
  /\ out'.bytes = [i \in 1..Len(out'.bytes) |-> next + i - 1]
  /\ next' = next + Len(out'.bytes)
  /\ left' = left - Len(out'.bytes)
  /\ UNCHANGED <<ended, held>>

(* Payload the client has given up, and no other, is passed over.          *)
PassOver ==
  /\ ~ended
  /\ ~held'
  /\ next' + left' = next + left /\ next' >= next /\ left' >= 0
  /\ \/ out' = [type |-> "Pending"]
     \/ out' = [type |-> "Exhausted"] /\ left' = 0
  /\ UNCHANGED ended

PayloadExhausted ==
  /\ ~ended /\ held /\ left = 0
  /\ out' = [type |-> "Exhausted"]
  /\ MayGiveUp
  /\ UNCHANGED <<ended, next, left>>

EndOfArchive ==
  /\ left = 0 \/ ended
  /\ ended' = TRUE
  /\ held' = FALSE
  /\ out' = [type |-> "End"]
  /\ UNCHANGED <<next, left>>

(* An error is reported once.                                              *)
Fails ==
  /\ ~ended
  /\ ended' = TRUE
  /\ out'.type = "Error"
  /\ UNCHANGED <<next, left, held>>

(* But the payload whose read failed is asked for again.                   *)
PayloadLost ==
  /\ ended /\ held /\ left > 0
  /\ out' = [type |-> "Error", error |-> "NoPayload"]
  /\ MayGiveUp
  /\ UNCHANGED <<ended, next, left>>

Next ==
  \/ Silent \/ Member \/ Payload \/ PassOver \/ PayloadExhausted
  \/ EndOfArchive \/ Fails \/ PayloadLost

Spec == Init /\ [][Next]_vars
=============================================================================
