--------------------------- MODULE TarStreamClient ---------------------------
(***************************************************************************)
(* TarStream used through its public API by a client that drops futures as *)
(* it likes, and an observer that sees nothing but the frames the client   *)
(* gets.  The properties say that the parser's hidden state agrees with    *)
(* what a reader of the frames must conclude from them.                    *)
(***************************************************************************)
EXTENDS TarStream

VARIABLE
  seen    \* what the frames so far say: payload still owed, the extensions that
          \* wait for their member, the local records for it, the global payloads
          \* in order and their bytes

clientVars == <<streamVars, call, seen>>

ClientInit ==
  /\ StreamInit
  /\ seen = [owed |-> 0, waiting |-> {}, local |-> NoRecords, globals |-> <<>>,
             globalBytes |-> 0]

Completed(f) == CHOOSE r \in f.completed : TRUE

(* A global header speaks of every member to come and waits for none.      *)
Observe(f) ==
  seen' =
    CASE f.type \in {"Pax", "Gnu"} ->
           [seen EXCEPT !.owed = f.size, !.waiting = @ \cup ({f.kind} \ {"Global"})]
      [] f.type = "Header" ->
           [seen EXCEPT !.owed = f.size, !.waiting = {}, !.local = NoRecords]
      [] f.type = "Data" ->
           [seen EXCEPT
              !.owed = @ - Len(f.bytes),
              !.local = IF f.owner = "Local" /\ f.completed # {} THEN Completed(f) ELSE @,
              !.globals = IF f.owner = "Global" /\ f.completed # {}
                          THEN Append(@, Completed(f)) ELSE @,
              !.globalBytes = IF f.owner = "Global" THEN @ + Len(f.bytes) ELSE @]
      [] OTHER -> seen

ClientNext ==
  /\ \/ NextFrame
     \/ Poll
     \/ Cancel
  /\ Observe(frame')

ClientSpec == ClientInit /\ [][ClientNext]_clientVars

-----------------------------------------------------------------------------
(* The extensions a parser state holds for the next member.                *)
Waiting(s) ==
  IF s.phase = "ReadingPax" THEN {s.kind} \ {"Global"}
  ELSE IF s.phase = "AwaitingUstarHeader" THEN {"Local"}
  ELSE IF s.phase \in {"ReadingGnu", "AwaitingGnuMember"} THEN s.pending
  ELSE {}

(* A client that only sees the frames and the sizes they announce always   *)
(* agrees with the parser on how much payload is still to come, so no      *)
(* header is ever taken for payload or payload for a header, and on which  *)
(* extensions wait for their member; and when the archive ends, no payload *)
(* is owed and no extension of either family waits.                        *)
PayloadOwed ==
  /\ state # Failed => seen.owed = Remaining(state) /\ seen.waiting = Waiting(state)
  /\ state = Complete => seen.owed = 0 /\ seen.waiting = {}

(* Effective metadata computed from the frames alone: the last global      *)
(* record of a keyword wins, tombstones included.                          *)
LastGlobal(keyword) ==
  LET at == { i \in 1..Len(seen.globals) : seen.globals[i][keyword] # Absent }
  IN  IF at = {} THEN Absent
      ELSE seen.globals[CHOOSE i \in at : \A j \in at : j <= i][keyword]

(* The payload announced for a member is the size a reader of the frames   *)
(* computes: for a pax member the local record, else the last global one,  *)
(* else, and for a GNU member always, the header's own size, which the     *)
(* frame carries beside it.                                                *)
SizeFromFrames ==
  [][ frame'.type = "Header" /\ frame' # frame =>
        LET local  == seen.local["size"]
            record == IF local # Absent THEN local ELSE LastGlobal("size")
            size   == IF frame'.format = "Pax" /\ record # Absent
                      THEN record ELSE frame'.declared
        IN  size # Deleted /\ frame'.size = size
    ]_clientVars

(* The global payload bytes handed out, and those announced and still to   *)
(* come, are what the archive-wide budget was charged, and within it.      *)
GlobalBudget ==
  /\ seen.globalBytes <= MaxGlobalPaxExtensionsSize
  /\ state # Failed =>
       global_pax_extensions_size = seen.globalBytes
         + (IF state.phase = "ReadingPax" /\ state.kind = "Global" THEN state.remaining ELSE 0)

=============================================================================
