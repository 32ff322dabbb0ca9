------------------------------ MODULE SourceFiles ------------------------------
(***************************************************************************)
(* Where the bytes of archived files come from: Builder::add_file and      *)
(* add_directory_all of archive-trait (src/builder.rs) with one buffer     *)
(* between all of them.  Small source files are read ahead into the buffer *)
(* and written from ranges of it; a streamed file and a payload given to   *)
(* add_file borrow it for their chunks and give it back.  The hook is any  *)
(* backend's: it takes chunks until there are none, and may drop a call of *)
(* next_chunk and make it again.                                           *)
(***************************************************************************)
EXTENDS FilePayload, FiniteSets

CONSTANTS
  Size,        \* the length of each file
  Additions,   \* the files an add_directory_all finds
  BUFFERED_SOURCE_FILE_BYTES,
  SOURCE_FILE_PREPARATION_BATCH_BYTES,
  MaxCalls     \* bound: calls of the builder

ASSUME SourceAssumption ==
  /\ Size \in [Files -> Nat]
  /\ Additions \subseteq Seq(Files)
  /\ BUFFERED_SOURCE_FILE_BYTES \in Nat
  /\ SOURCE_FILE_PREPARATION_BATCH_BYTES \in Nat
  /\ MaxCalls \in Nat

VARIABLES
  source_buffer,   \* BuilderState.source_buffer, in DirectoryBuild while that has it
  call,            \* "idle", "add_file", "add_directory_all", or "stopped" for good
  held,            \* does the caller hold a payload?
  batch,           \* the files not prepared yet
  prepared,        \* those of the prepared group not written yet
  preparing,       \* is a group being prepared?
  hook,            \* is a hook running?
  calls,
  skipped,         \* history: the bytes taken before the hook started
  archived         \* history: the last member finished, and the bytes it got

callVars   == <<call, held, batch, prepared, preparing, hook, calls, skipped, archived>>
sourceVars == <<payloadVars, source_buffer, callVars>>

NoBuffer == <<>>   \* Vec::new

Small(f) == Size[f] <= BUFFERED_SOURCE_FILE_BYTES

NoPayload ==
  /\ file = CHOOSE f \in Files : TRUE
  /\ size = 0 /\ inner = "Buffered" /\ data = Consumed /\ length = 0 /\ position = 0
  /\ buffer = NoBuffer /\ remaining = 0 /\ filled = 0
  /\ started = FALSE /\ reading = FALSE /\ chunk = Pending /\ taken = 0

(* The payload is gone.                                                    *)
DropPayload == SlicePayload(CHOOSE f \in Files : TRUE, <<>>)

SourceInit ==
  /\ NoPayload
  /\ source_buffer = NoBuffer
  /\ call = "idle" /\ held = FALSE /\ batch = <<>> /\ prepared = <<>>
  /\ preparing = FALSE /\ hook = FALSE
  /\ calls = 0 /\ skipped = 0 /\ archived = <<>>

(* A source may shrink or grow after its length was asked.                 *)
Holds(f) == 0..(Size[f] + 1)

-----------------------------------------------------------------------------
(* The caller's payload and add_file.                                      *)

MakePayload(f) ==
  /\ call = "idle" /\ ~held /\ calls < MaxCalls
  /\ \/ SlicePayload(f, Bytes(f, 0, Size[f]))
     \/ \E n \in Holds(f) : ReaderPayload(f, Size[f], n, NoBuffer)
  /\ held' = TRUE
  /\ UNCHANGED <<source_buffer, call, batch, prepared, preparing, hook, calls, skipped, archived>>

CallerReads ==
  /\ call = "idle" /\ held
  /\ PayloadNext
  /\ UNCHANGED <<source_buffer, callVars>>

(* Fault: what was read of the payload is not asked.                       *)
AnyPayload == TRUE

Untouched == ~started

(* swap_buffer lends the builder's buffer to a reader.                     *)
AddFile ==
  /\ call = "idle" /\ held /\ ~reading
  /\ held' = FALSE /\ calls' = calls + 1
  /\ \/ /\ ~Untouched
        /\ DropPayload
        /\ UNCHANGED <<source_buffer, call, hook, skipped>>
     \/ /\ Untouched
        /\ call' = "add_file" /\ hook' = TRUE /\ skipped' = taken + Returned
        /\ IF inner = "Reader" THEN buffer' = source_buffer /\ source_buffer' = buffer
                               ELSE UNCHANGED <<buffer, source_buffer>>
        /\ UNCHANGED <<file, size, inner, data, length, position, remaining, filled,
                       started, reading, chunk, taken>>
  /\ UNCHANGED <<batch, prepared, preparing, archived>>

-----------------------------------------------------------------------------
(* add_directory_all: groups of files, small ones read ahead.              *)

AddDirectoryAll(files) ==
  /\ call = "idle" /\ ~held /\ calls < MaxCalls
  /\ call' = "add_directory_all" /\ batch' = files /\ calls' = calls + 1
  /\ UNCHANGED <<payloadVars, source_buffer, held, prepared, preparing, hook, skipped, archived>>

(* Fault: only the small files end a group.                                *)
StreamsGoOn(f, ahead) == Small(f) /\ ahead >= SOURCE_FILE_PREPARATION_BATCH_BYTES

(* batch_complete: a streamed file will borrow the buffer.                 *)
EndsGroup(f, ahead) == ~Small(f) \/ ahead >= SOURCE_FILE_PREPARATION_BATCH_BYTES

Ends(how) ==
  /\ call' = how /\ batch' = <<>> /\ prepared' = <<>> /\ preparing' = FALSE /\ hook' = FALSE
  /\ UNCHANGED <<held, calls, skipped, archived>>

(* prepare_directory_entries, file by file; a failure loses the buffer.    *)
StartGroup ==
  /\ call = "add_directory_all" /\ ~hook /\ ~preparing /\ prepared = <<>> /\ batch # <<>>
  /\ preparing' = TRUE
  /\ source_buffer' = NoBuffer
  /\ UNCHANGED <<payloadVars, call, held, batch, prepared, hook, calls, skipped, archived>>

Ahead(f) == source_buffer \o (IF Small(f) THEN Bytes(f, 0, Size[f]) ELSE <<>>)

PrepareFile ==
  /\ preparing
  /\ LET f == Head(batch) IN
       /\ source_buffer' = Ahead(f)
       /\ prepared' = Append(prepared, [file |-> f, from |-> Len(source_buffer), to |-> Len(Ahead(f))])
       /\ batch' = Tail(batch)
       /\ preparing' = (Len(batch) > 1 /\ ~EndsGroup(f, Len(Ahead(f))))
  /\ UNCHANGED <<payloadVars, call, held, hook, calls, skipped, archived>>

PrepareFails ==
  /\ preparing
  /\ source_buffer' = NoBuffer
  /\ \E how \in {"idle", "stopped"} : Ends(how)
  /\ UNCHANGED payloadVars

Entry == Head(prepared)

(* write_prepared_directory_entries up to the hook.                        *)
StartFile ==
  /\ call = "add_directory_all" /\ ~hook /\ ~preparing /\ prepared # <<>>
  /\ \/ /\ Small(Entry.file)
        /\ SlicePayload(Entry.file, SubSeq(source_buffer, Entry.from + 1, Entry.to))
        /\ UNCHANGED source_buffer
     \/ /\ ~Small(Entry.file)
        /\ \E n \in Holds(Entry.file) :
             ReaderPayload(Entry.file, Size[Entry.file], n, source_buffer)
        /\ source_buffer' = NoBuffer
  /\ hook' = TRUE /\ skipped' = 0
  /\ UNCHANGED <<call, held, batch, prepared, preparing, calls, archived>>

-----------------------------------------------------------------------------
(* The hook.                                                               *)

HookReads ==
  /\ hook /\ chunk.is # "None"
  /\ PayloadNext
  /\ UNCHANGED <<source_buffer, callVars>>

GivesBack ==
  /\ source_buffer' = IF inner = "Reader" THEN buffer ELSE source_buffer
  /\ DropPayload

HookReturns ==
  /\ hook /\ ~reading /\ chunk.is = "None"
  /\ GivesBack
  /\ archived' = <<file, taken - skipped>>
  /\ hook' = FALSE
  /\ IF call = "add_file" THEN call' = "idle" /\ UNCHANGED prepared
     ELSE /\ prepared' = Tail(prepared)
          /\ call' = IF Len(prepared) = 1 /\ batch = <<>> THEN "idle" ELSE call
  /\ UNCHANGED <<held, batch, preparing, calls, skipped>>

HookFails ==
  /\ hook /\ ~reading
  /\ GivesBack
  /\ \E how \in {"idle", "stopped"} : Ends(how)

DropCall ==
  /\ call \in {"add_file", "add_directory_all"}
  /\ DropPayload /\ source_buffer' = NoBuffer
  /\ Ends("stopped")

SourceNext ==
  \/ \E f \in Files : MakePayload(f)
  \/ CallerReads \/ AddFile
  \/ \E files \in Additions : AddDirectoryAll(files)
  \/ StartGroup \/ PrepareFile \/ PrepareFails \/ StartFile
  \/ HookReads \/ HookReturns \/ HookFails \/ DropCall

SourceSpec == SourceInit /\ [][SourceNext]_sourceVars

-----------------------------------------------------------------------------
(* A member whose hook returned has all the bytes declared in its header:  *)
(* a payload that was read from before it was added would come short.      *)
MembersAreWhole == archived # <<>> => archived[2] = Size[archived[1]]

(* The range of a small file still holds its bytes when its turn comes: no *)
(* streamed file has borrowed the buffer in between.                       *)
RangesStayFilled ==
  \A n \in 1..Len(prepared) :
    Small(prepared[n].file) =>
      /\ prepared[n].to <= Len(source_buffer)
      /\ SubSeq(source_buffer, prepared[n].from + 1, prepared[n].to)
           = Bytes(prepared[n].file, 0, Size[prepared[n].file])
=============================================================================
