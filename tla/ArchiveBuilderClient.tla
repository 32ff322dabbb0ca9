------------------------- MODULE ArchiveBuilderClient -------------------------
(***************************************************************************)
(* ArchiveBuilder with the history its properties speak of: what the call  *)
(* was asked to add, and what the builder held when it began.              *)
(***************************************************************************)
EXTENDS ArchiveBuilder

VARIABLES
  asked,    \* the entries the last addition is about
  before    \* the output and the reservations when it began

builderClientVars == <<builderVars, asked, before>>

BuilderClientInit ==
  /\ BuilderInit
  /\ asked = <<>>
  /\ before = [sink |-> <<>>, entries |-> <<>>]

Begins == call = Idle /\ call' \notin {Idle, Gone}

Remembers(list) ==
  IF Begins THEN asked' = list /\ before' = [sink |-> sink, entries |-> entries]
            ELSE UNCHANGED <<asked, before>>

BuilderClientNext ==
  \/ \E entry \in Entries : Add(entry) /\ Remembers(<<entry>>)
  \/ \E tree \in Trees : AddDirectoryAll(tree) /\ Remembers(tree)
  \/ Finish /\ Remembers(<<>>)
  \/ /\ Proceed \/ CancelCall \/ CancelFinish \/ Producing
     /\ UNCHANGED <<asked, before>>

(* The executor polls a pending call again once what it waits for has      *)
(* answered, and runs the spawned task; neither the output nor the file    *)
(* system hangs.  Nobody need drop a future or call again.                 *)
BuilderClientSpec ==
  /\ BuilderClientInit
  /\ [][BuilderClientNext]_builderClientVars
  /\ WF_builderClientVars(Proceed /\ UNCHANGED <<asked, before>>)
  /\ WF_builderClientVars(Producing /\ UNCHANGED <<asked, before>>)

-----------------------------------------------------------------------------
Concat(lists) ==
  LET join[k \in 0..Len(lists)] == IF k = 0 THEN <<>> ELSE join[k - 1] \o lists[k]
  IN  join[Len(lists)]

IsWhole(member)   == member.done = member.due
Described(member) == [path |-> member.path, kind |-> member.kind]

AddsTree   == call.op = "add_directory_all"
Unprepared == IF AddsTree THEN call.batch ELSE <<>>
Prepared   == IF call.op \in {"add", "add_directory_all"} THEN call.prepared ELSE <<>>

(* What a member reserves, itself and the directories above it.            *)
Reserved(members) ==
  LET paths == { members[i].path : i \in 1..Len(members) }
      kind(path) == (CHOOSE i \in 1..Len(members) : members[i].path = path)
  IN  [ node \in UNION { NodesOf(path) : path \in paths } |->
          IF node \notin paths THEN "Implicit"
          ELSE IF members[kind(node)].kind = "Directory" THEN "Explicit" ELSE "NonDirectory" ]

(* While the builder takes calls, whatever failed or was dropped before,   *)
(* the output is a row of whole members with consecutive sequence numbers  *)
(* and the collision state is exactly what these members imply: no failed  *)
(* call reserved a name, no written member lacks its reservation.          *)
CleanOutput ==
  call.op = "idle" /\ ~poisoned =>
    /\ \A i \in 1..Len(sink) : IsWhole(sink[i]) /\ sink[i].sequence = i - 1
    /\ entries = Reserved(sink)
    /\ sequence = Len(sink)

(* An addition is all or nothing, as far as it tells.  With success, all   *)
(* that was asked for is in the output, whole, in order and nothing else;  *)
(* after an error that leaves the builder usable, the output and the       *)
(* reservations are those the call found.  (Any other poisons it.)         *)
CallsAreAllOrNothing ==
  [][ call.op \in {"add", "add_directory_all"} /\ call'.op = "idle" =>
        /\ out' = Ok =>
             /\ Len(sink') = Len(before.sink) + Len(asked)
             /\ SubSeq(sink', 1, Len(before.sink)) = before.sink
             /\ \A i \in 1..Len(asked) :
                  LET member == sink'[Len(before.sink) + i]
                  IN  IsWhole(member) /\ Described(member) = Described(asked[i])
        /\ ~poisoned' /\ out' # Ok => sink' = before.sink /\ entries' = before.entries
    ]_builderClientVars

(* A recursive addition runs in bounded memory whatever the size of the    *)
(* tree: it holds one batch, the channel another and the producer a third, *)
(* and a group buffers less than the target plus one small file.           *)
BoundedMemory ==
  AddsTree =>
    /\ Len(Prepared) + Len(Unprepared) + Len(Concat(channel)) + Len(producer.batch)
         <= (2 + DIRECTORY_TRAVERSAL_BUFFER_BATCHES) * DIRECTORY_TRAVERSAL_BATCH_ENTRIES
    /\ Buffered(Prepared, Len(Prepared))
         < SOURCE_FILE_PREPARATION_BATCH_BYTES + BUFFERED_SOURCE_FILE_BYTES

(* The builder is an ArchiveLog: half-written members, batches and dropped *)
(* futures never show in an archive that can still be finished.            *)
AbstractStatus ==
  IF marker = "complete" THEN "finished"
  ELSE IF call.op = "gone" \/ (call.op = "idle" /\ poisoned) THEN "broken"
  ELSE "active"

Log == INSTANCE ArchiveLog WITH
  log    <- IF call.op = "idle" /\ ~poisoned THEN sink ELSE before.sink,
  status <- AbstractStatus

ImplementsArchiveLog == Log!Spec

(* A pending call is answered: the builder never waits for a producer that *)
(* waits for the builder.                                                  *)
CallReturns == call.op \in {"add", "add_directory_all", "finish"} ~> call.op \in {"idle", "gone"}

=============================================================================
