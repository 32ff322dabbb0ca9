---------------------------- MODULE ArchiveBuilder ----------------------------
(***************************************************************************)
(* Archive construction: Builder and BuilderState of archive-trait         *)
(* (src/builder.rs) driving the hooks of TarEncoder (tar-codec,            *)
(* src/encode.rs), with the traversal of a recursive addition running      *)
(* beside it.  Every await may suspend the call, and the future may be     *)
(* dropped there; every write may fail after part of it went out.          *)
(*                                                                         *)
(* A member in the output is a record of what it is and how many of its    *)
(* bytes are written; its headers count as one block.                      *)
(***************************************************************************)
EXTENDS Traversal

CONSTANTS
  Names,                               \* the components of archive paths
  Entries,                             \* what add_file and add_directory are asked to add
  Trees,                               \* the source directories, in the order they are walked
  BLOCK_SIZE,
  BUFFERED_SOURCE_FILE_BYTES,          \* a larger source file is streamed
  SOURCE_FILE_PREPARATION_BATCH_BYTES, \* buffered bytes that end a group
  FILE_PAYLOAD_CHUNK_BYTES,
  MaxMembers                           \* bound: members in the output

EntryType ==
  [path : Seq(Names) \ {<<>>}, size : Nat, kind : {"Directory", "Regular", "SymbolicLink"}]

ASSUME BuilderAssumption ==
  /\ BLOCK_SIZE \in Nat \ {0} /\ FILE_PAYLOAD_CHUNK_BYTES \in Nat \ {0}
  /\ BUFFERED_SOURCE_FILE_BYTES \in Nat /\ SOURCE_FILE_PREPARATION_BATCH_BYTES \in Nat \ {0}
  /\ MaxMembers \in Nat
  /\ Entries \subseteq EntryType /\ Trees \subseteq Seq(EntryType)

VARIABLES
  sink,      \* the members written to the output, the last perhaps in part
  marker,    \* the end marker: "none", "partial" or "complete"
  sequence,  \* TarEncoder.sequence
  entries,   \* BuildEntries: what each archive path is reserved for
  poisoned,  \* BuilderState.poisoned
  call,      \* the future that exists, and where it is suspended
  out        \* what the last call returned

outputVars  == <<sink, marker, sequence>>
builderVars == <<outputVars, entries, poisoned, call, out, traversalVars>>

Idle == [op |-> "idle"]
Gone == [op |-> "gone"]     \* finish consumes the builder

Pending  == "Pending"
Ok       == "Ok"
NoFailure == [error |-> "None", poisons |-> FALSE]
Recoverable(e) == [error |-> e, poisons |-> FALSE]
Poisoning(e)   == [error |-> e, poisons |-> TRUE]

BuilderInit ==
  /\ TraversalInit
  /\ sink = <<>> /\ marker = "none" /\ sequence = 0
  /\ entries = <<>>
  /\ poisoned = FALSE
  /\ call = Idle
  /\ out = Pending

-----------------------------------------------------------------------------
(* BuildEntries: the tree of archive path components.                      *)

(* The nodes a walk along path passes.                                     *)
NodesOf(path) == { SubSeq(path, 1, k) : k \in 1..Len(path) }

(* Fault: a directory may be added any number of times.                    *)
DirectoriesMerge(reserved, entry) ==
  reserved # "NonDirectory" /\ entry.kind = "Directory"

(* An implied directory may be added explicitly, once.                     *)
Completes(reserved, entry) == reserved = "Implicit" /\ entry.kind = "Directory"

(* preflight_entry fails.                                                  *)
Collides(entry) ==
  \E node \in NodesOf(entry.path) \cap DOMAIN entries :
    IF node = entry.path THEN ~Completes(entries[node], entry)
                         ELSE entries[node] = "NonDirectory"

(* commit_entry                                                            *)
Committed(entry) ==
  [node \in DOMAIN entries \cup NodesOf(entry.path) |->
     IF node = entry.path
     THEN IF entry.kind = "Directory" THEN "Explicit" ELSE "NonDirectory"
     ELSE IF node \in DOMAIN entries THEN entries[node] ELSE "Implicit"]

-----------------------------------------------------------------------------
(* The hooks of TarEncoder, one write_all at a time.                       *)

Regular(entry)  == entry.kind = "Regular"
Payload(entry)  == IF Regular(entry) THEN entry.size ELSE 0

(* add_file is given a slice or a reader; a source file is read whole when *)
(* it is small.                                                            *)
Streamed(entry) ==
  Regular(entry) /\ IF call.op = "add" THEN call.reader
                    ELSE entry.size > BUFFERED_SOURCE_FILE_BYTES

Smaller(a, b) == IF a <= b THEN a ELSE b

(* payload_padding                                                         *)
Padded(n) == ((n + BLOCK_SIZE - 1) \div BLOCK_SIZE) * BLOCK_SIZE

Due(entry) == BLOCK_SIZE + Padded(Payload(entry))

Member(entry, n) ==
  [path |-> entry.path, kind |-> entry.kind, sequence |-> sequence,
   due |-> Due(entry), done |-> n]

(* How far the write after the first n bytes of the member goes: the       *)
(* headers, a chunk of the payload, the padding.                           *)
NextWrite(entry, n) ==
  LET payloadEnd == BLOCK_SIZE + Payload(entry)
  IN  IF n = 0 THEN BLOCK_SIZE
      ELSE IF n < payloadEnd
      THEN IF Streamed(entry) THEN Smaller(n + FILE_PAYLOAD_CHUNK_BYTES, payloadEnd) ELSE payloadEnd
      ELSE Due(entry)

Entry   == Head(call.prepared)
Written == call.written

WritesTo(n) ==
  sink' = IF Written = 0 THEN Append(sink, Member(Entry, n))
          ELSE [sink EXCEPT ![Len(sink)].done = n]

(* Nothing or a part of the write is in the output.                        *)
WritesInPart == UNCHANGED sink \/ (Written = 0 /\ WritesTo(0))

(* The hook fails: framing before any output, the payload source or the    *)
(* output after it may have begun.                                         *)
(* Fault: a failing payload source is taken for harmless.                  *)
SourceIsRecoverable(failure) ==
  \/ /\ Written = 0 /\ failure = Recoverable("Encoder")
     /\ UNCHANGED sink
  \/ /\ failure = Poisoning("Encoder")
     /\ WritesInPart
  \/ /\ Written \in BLOCK_SIZE..(BLOCK_SIZE + Payload(Entry) - 1)
     /\ Streamed(Entry) /\ failure = Recoverable("SourceRead")
     /\ UNCHANGED sink

HookFails(failure) ==
  \/ /\ Written = 0 /\ failure = Recoverable("Encoder")
     /\ UNCHANGED sink
  \/ /\ failure = Poisoning("Encoder")
     /\ WritesInPart
  \/ /\ Written \in BLOCK_SIZE..(BLOCK_SIZE + Payload(Entry) - 1)
     /\ Streamed(Entry) /\ failure = Poisoning("SourceRead")
     /\ UNCHANGED sink

-----------------------------------------------------------------------------
(* Calls.                                                                  *)

Returns(result) == call' = Idle /\ out' = result

Refuse(error) ==
  /\ Returns(error)
  /\ UNCHANGED <<outputVars, entries, poisoned, traversalVars>>

(* add_file and add_directory up to the first write.                       *)
Add(entry) ==
  /\ call = Idle /\ Len(sink) < MaxMembers
  /\ \/ poisoned /\ Refuse("Poisoned")
     \/ ~poisoned /\ Refuse("NameRejected")
     \/ ~poisoned /\ Collides(entry) /\ Refuse("PathCollision")
     \/ ~poisoned /\ ~Collides(entry) /\ Regular(entry) /\ Refuse("FilePayloadAlreadyRead")
     \/ /\ ~poisoned /\ ~Collides(entry)
        /\ poisoned' = TRUE
        /\ \E reader \in IF Regular(entry) THEN BOOLEAN ELSE {FALSE} :
             call' = [op |-> "add", step |-> "hook", prepared |-> <<entry>>, written |-> 0,
                      reader |-> reader]
        /\ out' = Pending
        /\ UNCHANGED <<outputVars, entries, traversalVars>>

(* add_directory_all up to the first batch.                                *)
AddDirectoryAll(tree) ==
  /\ call = Idle /\ Len(sink) + Len(tree) <= MaxMembers
  /\ \/ poisoned /\ Refuse("Poisoned")
     \/ ~poisoned /\ Refuse("Traversal")
     \/ /\ ~poisoned
        /\ poisoned' = TRUE
        /\ Spawn(tree)
        /\ call' = [op |-> "add_directory_all", step |-> "receive", batch |-> <<>>,
                    prepared |-> <<>>, written |-> 0, emitted |-> FALSE,
                    failure |-> NoFailure]
        /\ out' = Pending
        /\ UNCHANGED <<outputVars, entries>>

(* finish_into_inner up to the write of the end marker; the builder is     *)
(* consumed whatever happens.                                              *)
Finish ==
  /\ call = Idle
  /\ \/ /\ poisoned
        /\ call' = Gone /\ out' = "Poisoned"
     \/ /\ ~poisoned
        /\ call' = [op |-> "finish"] /\ out' = Pending
  /\ UNCHANGED <<outputVars, entries, poisoned, traversalVars>>

-----------------------------------------------------------------------------
(* Where a hook's result goes.                                             *)

(* Fault: a late error leaves the members written before it usable.        *)
HookOnly(emitted, failure) == failure.poisons

Breaks(emitted, failure) == emitted \/ failure.poisons

(* The loop of add_directory_all ends: drop the receiver, await the task.  *)
Winds(failure) ==
  /\ call' = [call EXCEPT !.step = "finish", !.failure = failure]
  /\ out' = Pending
  /\ DropReceiver
  /\ UNCHANGED <<entries, poisoned>>

HookFailed(failure) ==
  IF call.op = "add"
  THEN /\ Returns(failure.error)
       /\ poisoned' = failure.poisons
       /\ UNCHANGED <<entries, traversalVars>>
  ELSE Winds(failure)

(* What follows a prepared group.                                          *)
AfterGroup(rest) ==
  IF rest # <<>> THEN "hook"
  ELSE IF call.batch # <<>> THEN "prepare" ELSE "receive"

HookReturns ==
  /\ entries' = Committed(Entry)
  /\ IF call.op = "add"
     THEN Returns(Ok) /\ poisoned' = FALSE
     ELSE /\ call' = [call EXCEPT !.prepared = Tail(@), !.written = 0, !.emitted = TRUE,
                                  !.step = AfterGroup(Tail(call.prepared))]
          /\ out' = Pending
          /\ UNCHANGED poisoned
  /\ UNCHANGED traversalVars

HookGoesOn(n) ==
  /\ call' = [call EXCEPT !.written = n]
  /\ out' = Pending
  /\ UNCHANGED <<entries, poisoned, traversalVars>>

InHook == call.op \in {"add", "add_directory_all"} /\ call.step = "hook"

Writing == InHook /\ ~Collides(Entry)

(* One write of a hook; in a recursive addition the entry is preflighted   *)
(* just before its first write.                                            *)
Hook ==
  /\ InHook
  /\ \/ /\ Collides(Entry)
        /\ HookFailed(Recoverable("PathCollision"))
        /\ UNCHANGED outputVars
     \/ /\ Writing
        /\ \E failure \in {Recoverable("Encoder"), Poisoning("Encoder"),
                           Recoverable("SourceRead"), Poisoning("SourceRead")} :
             HookFails(failure) /\ HookFailed(failure)
        /\ UNCHANGED <<marker, sequence>>
     \/ /\ Writing
        /\ LET n == NextWrite(Entry, Written)
           IN  /\ WritesTo(n)
               /\ IF n = Due(Entry) THEN HookReturns ELSE HookGoesOn(n)
        /\ sequence' = IF Written = 0 THEN sequence + 1 ELSE sequence
        /\ UNCHANGED marker

(* write_directory_entries: receive a batch, or the end of the stream.     *)
ReceiveBatch ==
  /\ call.op = "add_directory_all" /\ call.step = "receive"
  /\ \/ \E batch \in {channel[i] : i \in 1..Len(channel)} :
          /\ Receive(batch)
          /\ call' = [call EXCEPT !.step = "prepare", !.batch = batch]
          /\ UNCHANGED <<entries, poisoned, out>>
     \/ /\ Exhausts
        /\ Winds(NoFailure)
  /\ UNCHANGED outputVars

(* Bytes of the first n entries of a batch that are read into the buffer.  *)
Buffered(batch, n) ==
  LET sum[k \in 0..n] ==
        IF k = 0 THEN 0
        ELSE sum[k - 1] + (IF Streamed(batch[k]) THEN 0 ELSE Payload(batch[k]))
  IN  sum[n]

EndsGroup(batch, n) ==
  \/ n = Len(batch)
  \/ Streamed(batch[n])
  \/ Regular(batch[n]) /\ Buffered(batch, n) >= SOURCE_FILE_PREPARATION_BATCH_BYTES

IsGroup(batch, n) ==
  EndsGroup(batch, n) /\ \A m \in 1..(n - 1) : ~EndsGroup(batch, m)

RemainingEntries(batch, n) == SubSeq(batch, n + 1, Len(batch))

(* prepare_directory_entries: files are opened and small ones read; a file *)
(* that has changed or cannot be opened ends the addition.                 *)
Prepare ==
  /\ call.op = "add_directory_all" /\ call.step = "prepare"
  /\ \E n \in 1..Len(call.batch) :
       /\ IsGroup(call.batch, n)
       /\ \/ /\ call' = [call EXCEPT !.step = "hook",
                                    !.prepared = SubSeq(call.batch, 1, n),
                                    !.batch = RemainingEntries(@, n)]
            /\ UNCHANGED <<entries, poisoned, out, traversalVars>>
         \/ /\ \E i \in 1..n : Regular(call.batch[i])
            /\ Winds(Recoverable("Filesystem"))
  /\ UNCHANGED outputVars

(* TraversalStream::finish has joined the task; the error of the loop      *)
(* comes before that of the task.                                          *)
JoinTraversal ==
  LET failure == IF call.failure = NoFailure /\ producer.failed
                 THEN Recoverable("Traversal") ELSE call.failure
  IN  /\ call.op = "add_directory_all" /\ call.step = "finish"
      /\ producer.status = "stopped"
      /\ poisoned' = (failure # NoFailure /\ Breaks(call.emitted, failure))
      /\ Returns(IF failure = NoFailure THEN Ok ELSE failure.error)
      /\ UNCHANGED <<outputVars, entries, traversalVars>>

(* The write of the end marker.                                            *)
FinishArchive ==
  /\ call.op = "finish"
  /\ \/ marker' = "complete" /\ out' = Ok
     \/ marker' \in {"none", "partial"} /\ out' = "Encoder"
  /\ call' = Gone
  /\ UNCHANGED <<sink, sequence, entries, poisoned, traversalVars>>

Proceed ==
  \/ Hook
  \/ ReceiveBatch
  \/ Prepare
  \/ JoinTraversal
  \/ FinishArchive

(* The future is dropped while it is suspended.  A write it was waiting    *)
(* for may be out in part; the task it spawned goes on by itself.          *)
CancelCall ==
  /\ call.op \in {"add", "add_directory_all"}
  /\ IF Writing THEN WritesInPart ELSE UNCHANGED sink
  /\ call' = Idle /\ out' = Pending
  /\ DropReceiver
  /\ UNCHANGED <<marker, sequence, entries, poisoned>>

CancelFinish ==
  /\ call.op = "finish"
  /\ marker' \in {"none", "partial"}
  /\ call' = Gone /\ out' = Pending
  /\ UNCHANGED <<sink, sequence, entries, poisoned, traversalVars>>

Producing == Produce /\ UNCHANGED <<outputVars, entries, poisoned, call, out>>

BuilderNext ==
  \/ \E entry \in Entries : Add(entry)
  \/ \E tree \in Trees : AddDirectoryAll(tree)
  \/ Finish
  \/ Proceed
  \/ CancelCall
  \/ CancelFinish
  \/ Producing
=============================================================================
