------------------------------ MODULE Traversal ------------------------------
(***************************************************************************)
(* The producer of a recursive addition (builder/traversal.rs): a task     *)
(* that walks the source directory batch by batch on the blocking pool and *)
(* sends the batches through a channel of one batch; the builder receives  *)
(* them, and may stop receiving at any time.                               *)
(***************************************************************************)
EXTENDS Integers, Sequences

CONSTANTS
  DIRECTORY_TRAVERSAL_BATCH_ENTRIES,   \* entries of a batch (256 in the code)
  DIRECTORY_TRAVERSAL_BUFFER_BATCHES   \* batches the channel holds (1 in the code)

ASSUME TraversalAssumption ==
  /\ DIRECTORY_TRAVERSAL_BATCH_ENTRIES \in Nat \ {0}
  /\ DIRECTORY_TRAVERSAL_BUFFER_BATCHES \in Nat \ {0}

VARIABLES
  producer,   \* the spawned task: what it does, what it still has to walk
  channel,    \* the batches sent and not received
  receiving   \* does the TraversalStream still exist?

traversalVars == <<producer, channel, receiving>>

NoProducer == [status |-> "none", walk |-> <<>>, batch |-> <<>>, failed |-> FALSE]

TraversalInit ==
  /\ producer = NoProducer
  /\ channel = <<>>
  /\ receiving = FALSE

BatchLength ==
  LET rest == Len(producer.walk)
  IN  IF rest < DIRECTORY_TRAVERSAL_BATCH_ENTRIES THEN rest
      ELSE DIRECTORY_TRAVERSAL_BATCH_ENTRIES

(* stream_directory_entries, past the validation of the root's name.       *)
Spawn(tree) ==
  /\ producer' = [NoProducer EXCEPT !.status = "walking", !.walk = tree]
  /\ channel' = <<>>
  /\ receiving' = TRUE

(* TraversalProducer::next_batch                                           *)
NextBatch ==
  /\ producer.status = "walking"
  /\ producer' = IF producer.walk = <<>>
                 THEN [producer EXCEPT !.status = "stopped"]
                 ELSE [producer EXCEPT
                         !.status = "sending",
                         !.batch = SubSeq(producer.walk, 1, BatchLength),
                         !.walk = SubSeq(@, BatchLength + 1, Len(@))]
  /\ UNCHANGED <<channel, receiving>>

(* An entry of the batch cannot be walked or is not supported: the batch   *)
(* is dropped whole and the task ends with the error.                      *)
WalkFails ==
  /\ producer.status = "walking" /\ producer.walk # <<>>
  /\ producer' = [producer EXCEPT !.status = "stopped", !.walk = <<>>, !.failed = TRUE]
  /\ UNCHANGED <<channel, receiving>>

(* Fault: the channel is unbounded.                                        *)
SendsAnyway ==
  /\ producer.status = "sending" /\ receiving
  /\ channel' = Append(channel, producer.batch)
  /\ producer' = [producer EXCEPT !.status = "walking", !.batch = <<>>]
  /\ UNCHANGED receiving

Send ==
  /\ producer.status = "sending"
  /\ receiving /\ Len(channel) < DIRECTORY_TRAVERSAL_BUFFER_BATCHES
  /\ channel' = Append(channel, producer.batch)
  /\ producer' = [producer EXCEPT !.status = "walking", !.batch = <<>>]
  /\ UNCHANGED receiving

(* The receiver is gone: the task ends without an error.                   *)
SendFails ==
  /\ producer.status = "sending" /\ ~receiving
  /\ producer' = [producer EXCEPT !.status = "stopped", !.batch = <<>>]
  /\ UNCHANGED <<channel, receiving>>

Produce == NextBatch \/ WalkFails \/ Send \/ SendFails

(* The builder's side: recv, the end of the stream, and dropping it.       *)
Receive(batch) ==
  /\ channel # <<>> /\ batch = Head(channel)
  /\ channel' = Tail(channel)
  /\ UNCHANGED <<producer, receiving>>

Exhausts == channel = <<>> /\ producer.status = "stopped"

(* Fault: finish awaits the task before it drops the receiver.             *)
KeepReceiver == UNCHANGED <<producer, channel, receiving>>

DropReceiver ==
  /\ receiving' = FALSE
  /\ channel' = <<>>
  /\ UNCHANGED producer
=============================================================================
