# A verification development for tar-codec

TLA+ specifications of the crates `tar-framing`, `archive-trait` and
`tar-codec`: what they keep, what each step does, what must hold of it. TLC
checks the specifications on small instances; TLAPS proves theorems about the
core of them for every instance. Every definition is taken from the Rust source;
`PROJECT.json` maps each one to the lines it stands for, and lists the runs, the
theorems and the hazards they are aimed at.

Definitions preceded by a comment that begins "Fault:" are deliberate mistakes,
one for each property: a property is worth stating only if the code could break
it, and with the fault in the place of the definition it belongs to TLC finds
the property violated. They are no part of the specifications.

## 1. The system

| part | state it keeps | operations |
|---|---|---|
| physical parser, `tar-framing/src/stream.rs` | source position, partial block, parser state (8 phases), family, global pax records, global budget | `next_frame`, `read_member_block`, `read_member_chunk`, EOF, drop of each future |
| logical reader, `tar-framing/src/logical.rs` | payload still due, chunk in progress, extension being assembled, pending extensions, a second copy of the global records | `next_frame`, `next_block`, `next_chunk`, `skip`, drop of each |
| pax records, `tar-framing/src/pax.rs` | records in force, by keyword | parse, merge a global header, look up |
| header blocks and writer, `tar-framing/src/{header,write}.rs` | a buffer that is used for one member after the other | decode a header; frame a member |
| member decoder, `tar-codec/src/decode.rs` | policy, `fused` | `next_member`, payload reads |
| encoder, `tar-codec/src/encode.rs` | output, sequence number | the four hooks, each several `write_all` |
| builder, `archive-trait/src/builder.rs` | reserved paths, `poisoned`, a source buffer | `add_file`, `add_directory`, `add_directory_all`, `finish` |
| file payloads, same file | how much is read, delivered and still due of one file | `next_chunk`, drop of its future |
| traversal, `archive-trait/src/builder/traversal.rs` | a spawned task, a bounded channel | produce, receive, finish |
| extraction, `archive-trait/src/extract*` | path states, deferred links, one directory handle, a batch of small files, a cancellation flag | one per member kind, flush, finalize links, drop |
| component tree, paths, names | an arena with active-child counters; none; none | look up, set, clear; normalize; validate |
| `tarpit` | none | a command line around the above |

How they interact. The decoder calls the logical reader, the reader calls the
parser, the parser polls a source that answers with any number of bytes, with
`Pending`, with an error or with its end. A returned member borrows the reader,
so there is one call at a time, but every future may be dropped at any `Pending`
and another operation called instead; all progress therefore lives in the
structures and none in the futures. The builder calls the hooks of an encoder
and receives batches from a task it spawned; the task waits for the builder when
the channel is full, the builder waits for the task when it is empty, and at the
end for it to stop. Extraction pulls members from the decoder and changes the
destination through blocking calls; the writing of a batch is one blocking task
that outlives a dropped future.

What is hard about it, by behaviour: reads cut anywhere and resumed by a
different operation; a buffer that is lent to a streamed file while others' bytes
may lie in it; a length that counts its own digits; metadata that bears on members read much later, in two
copies; errors that must be final at three levels at once; members half written
when a call fails or is dropped; a producer and a consumer that can wait on each
other; small files written late and links written last, while everything else
takes effect at once; a destination that holds links already; a handle and a
table of path states that must stay true while members replace one another.
`PROJECT.json` lists these as hazards, at their lines.

What makes each part correct:

- parser: the frames alone tell a client everything the parser decides by
  (sizes, globals, end), no byte is lost, the first family stays, the budget
  holds for the whole archive, errors and the end are final;
- reader: each payload byte is delivered once, in order, whatever mixture of
  operations reads it and wherever they are dropped; extensions reach exactly
  the member they precede;
- decoder: a member carries what the archive last said of it; nothing the policy
  forbids bears on a delivered member; an error is the last thing before the end;
- builder: the output of a usable builder is a row of whole members, and the
  reserved names are those members' names; a recoverable error leaves no trace; no
  call waits for ever;
- payloads: a file member gets each byte of its file once, in order, and as many
  as its header declares, wherever the hook drops and repeats its reads;
- framing: what is written reads back as the same member, for a reader of pax and,
  as far as it fits, for one without;
- component tree: it is a function from paths to states, and the counts kept in it
  are those one would count;
- extraction: a successful extraction leaves the tree that sequential, unbatched
  extraction would; no operation follows a link; policy is obeyed by what is
  finally on the disk; a dropped extraction stops.

## 2. The modules

| module | models | lines of the source |
|---|---|---|
| `TarStream` | the physical parser | `stream.rs`: polling, the state machine, format, limits, budget, EOF |
| `TarStreamClient` | a client that sees frames only, and the properties | |
| `TarStreamProofs` | its inductive invariant and proofs about every archive | |
| `TarReader` | the logical reader over `TarStream`, with the block and chunk reads of the parser | `logical.rs`, `stream.rs` |
| `MemberStream` | **abstract**: members in order, each payload once, an error once, then only the end | the promise of `TarReader` |
| `TarReaderClient` | history, properties, the refinement of `MemberStream` | |
| `TarReaderInv`, `TarReaderProofs` | the inductive invariant; the proofs | |
| `PaxMetadata` | records: parse conditions, merge, precedence, charset | `pax.rs` |
| `MemberDecoder`, `MemberDecoderClient` | `TarArchive` and its policy; properties | `decode.rs`, parts of `logical.rs` |
| `MemberDecoderProofs` | its inductive invariant and proofs | |
| `PaxRecordLength`, `PaxRecordText` | records as text: the writer and the parse loop, over payloads damaged on the way | `write.rs` `append_pax_record`, `pax.rs` `PaxRecords::parse` |
| `HeaderBlock` | the fields of a header block, written and read | `header.rs`, `write.rs`, `stream.rs` decoding |
| `MemberFraming` | a member into a reused buffer: local header, records, header, padding | `write.rs`, `encode.rs` |
| `Traversal` | the producer task and its channel | `traversal.rs` |
| `ArchiveBuilder` | `Builder`, `BuilderState` and the hooks of `TarEncoder`, over `Traversal` | `builder.rs`, `encode.rs` |
| `ArchiveLog` | **abstract**: a log that grows by whole, extractable additions until finished or broken | the promise of `Builder` |
| `ArchiveBuilderClient` | history, properties, the refinement of `ArchiveLog` | |
| `ArchiveBuilderProofs` | proofs: clean output, whole additions, bounded memory, the refinement of `ArchiveLog` | |
| `FilePayload` | the payload of one file, chunk by chunk | `builder.rs` 128-305 |
| `SourceFiles` | the shared buffer: groups of files read ahead, streamed files, the caller's payloads | `builder.rs` `add_file`, `add_directory_all`, `prepare_*` |
| `PathStates` | **abstract**: states of paths, and handles that stand for a path for good | the promise of `ComponentTree` |
| `ComponentTree` | the arena of components with its counts; the refinement of `PathStates` | `component_tree.rs` |
| `BufferAndTreeProofs` | proofs about the shared buffer and about the tree, its refinement included | |
| `DestinationTree` | the destination as the code uses it: nodes, links, handles (external) | `cap_std::fs::Dir`, file system |
| `Extraction`, `ExtractionClient` | the member loop, batches, links, drops; properties | `extract.rs`, `extract/root.rs`, `root/buffered.rs` |
| `ExtractionProofs` | its inductive invariant and proofs | |
| `ExtractPath` | member paths and link targets: validation, normalization, lexical resolution | `extract/path.rs` |
| `LinkTargets` | an extraction's links with their targets as text: reservation, judgement, budget, creation | `extract.rs`, `extract/root.rs` |
| `LinkTargetsClient` | the operating system that follows the links, and the properties | |
| `TextProofs` | proofs about texts: records (lengths, slices, reading back) and link targets (where lookups lead, what judging costs) | |
| `SharedLemmas` | lemmas of several proofs: induction and recursion up to a bound; rows of operations | |
| `MC*` | instances for TLC | |

Composition: `TarReader` has `TarStream` as a part; `ArchiveBuilder` has `Traversal`;
`SourceFiles` has `FilePayload`; `MemberFraming` has `HeaderBlock` and
`PaxRecordLength`; `LinkTargets` has `ExtractPath`; `Extraction` has
`DestinationTree`. Where one component is large in two ways there are two
specifications of it: `ArchiveBuilder` has its calls and failures with files as
units, `SourceFiles` the bytes of the files; `Extraction` has batches, failures and a
destination with something in it and targets already resolved, `LinkTargets` the
text of the targets and their resolution over an empty destination where nothing
fails.

### How state and actions correspond to the code

*Framing.* Bytes are offsets: byte `i` of the source is the number `i`, so that
"the right bytes" is a statement about numbers, and headers and pax payloads are
chosen nondeterministically when their block is complete, which makes every
archive over the given typeflags, sizes and records an input. `state` is
`stream.rs` `State`, phase by phase; `block` is the partial block;
`member_chunk` is `MemberChunkState` with its buffer. A poll reads any number of
bytes the buffer has room for, then runs `process_block` to the end: one action,
because nothing is awaited within. A rejected header (checksum, numeric or string
field, unknown typeflag) is one outcome of reading it. `DropFuture` ends a
pending call and touches nothing else, as dropping the Rust future does; that
this is harmless is what the properties say.

*Decoder.* `headers` is the archive so far and the only history there is;
`pending_extensions` holds positions in it. `MemberDecoder` stands on the
reader's promise (headers arrive whole and in order, a dropped call loses
nothing), which is checked and proved below it; payload bytes do not occur.
A text is a model value, `"raw"` stands for one that is not UTF-8, `""` for a
deletion.

*Builder.* `sink` is the output: a member with how many of its bytes are there.
Each `write_all` is a step and may fail or be dropped with part of it written.
`poisoned` is set when a hook begins (`begin_write`) and cleared when it ends, so
that a dropped future leaves it set. The producer task has its own actions and
runs on when the call is dropped, until it finds the receiver gone.

*Payloads.* A byte of a file is its file and offset, so a byte of another file, a byte
twice and the zero a buffer is extended with all show. `NextChunk` is one poll up to
the first read, `ReadSome`, `ReadEnds` and `ReadFails` what the read answers (any
number of bytes that fit; a source may have become shorter or longer), and
`DropNextChunk` drops the future, after which the caller may call again: `remaining`
and `filled` live in the payload. In `SourceFiles` the preparation of a group goes file
by file (`StartGroup`, `PrepareFile`, `PrepareFails`); `EndsGroup` is the
`batch_complete` of the code. A streamed file takes the shared buffer and gives it
back (`swap_buffer`); so does a payload of the caller's, which may have been read
before it is added.

*Component tree.* A node is an index; each field of `ComponentNode` is a function of
it. `answer` is what the last call returned, and is the same variable in `PathStates`,
so the refinement says that no caller can tell the arena from a function of paths.

*Text.* A character of a record is a digit, one of the separators the grammar knows,
or any other; numbers are written digit by digit because their length is the point.
`parsing` steps are the iterations of the loop, with its cursor. A header is a record
of fields of ASCII codes, shorter than the real ones by `FIELD_LEN`; u64 is
`U64_MAX`. `MemberFraming` frames two members into one buffer, because what the first leaves
behind is the hazard.

*Link targets.* A string is the sequence of the pieces between its slashes, so empty
pieces, `.`, `..` and trailing slashes are all there. `Members` are read one by one,
`Judge` resolves each link over the entries of the archive with the work it costs, and
`Create` puts them on the disk. `Follow` in the client is another resolution
altogether: one `LookupStep` for each component, `..` from wherever a link has led.

*Extraction.* `todo` is what is left to do for the current member, one operation
for each change of the destination; the future may be dropped between any two,
and the blocking call in flight then still completes. `entries` is the component
tree of `ExtractedEntry`, as a function from paths. `buffered` and `task` are the
batch being filled and the one being written; the task goes file by file and
reads the cancellation flag before each. Every file-system call may fail. A node
of the destination remembers which member put it there, which is how the
properties tell old from new. `DestinationTree` resolves links the way a
capability-based `Dir` does: in every component but the last, never out of the
root.

## 3. What TLC checks

| run | distinct states | what it shows |
|---|---|---|
| `stream` | 142 000 | the parser on pax, GNU and mixed archives: sizes and end as the frames tell, its budget |
| `reader_payload` | 10 000 | payload reads of every kind, mixed and dropped; refinement of `MemberStream`; calls are answered |
| `reader_extensions` | 110 000 | pax and GNU extensions assembled across dropped calls reach their member; the inductive invariant |
| `decoder` | 57 000 | metadata, policy and charset over archives of four headers |
| `builder` | 15 000 | additions, failures, drops, traversal; refinement of `ArchiveLog`; calls are answered |
| `source_files` | 10 700 | small and streamed files through one buffer, reads dropped and repeated |
| `component_tree` | 19 600 | every order of calls on the arena; refinement of `PathStates` |
| `extract_files` | 388 000 | files, batches, directories, hard links; every failure and every drop; extraction ends |
| `extract_links` | 816 000 | deferred links under four policies, on a disk that keeps names apart and on one that folds two into one |
| `link_targets` | 920 000 | link targets as text, judged by the code and followed by the operating system |
| `pax_text` | 36 000 | records written, damaged and read back |
| `member_framing` | 780 | members framed into a reused buffer and read back |

### The properties

Each is stated in words above its definition. A property is checked in the runs
where it can fail in a way of its own; types are a part of `ReaderInv` and of the
proofs, and not a property besides. The ones to read first:

- `NoByteLost`, `PayloadAccounted` (`TarReaderClient`): what was read and not yet
  delivered is in the buffers, in order, and what is owed is what is left to read
  plus what is held. This is cancellation safety, said once for every operation.
- `ImplementsMemberStream`: no client can tell that there are blocks, chunks,
  drains or drops. A byte is passed over only once the client has given its payload up;
  an error is reported once, and afterwards only the end, except to a client that goes on
  reading the payload that was lost: it gets an error each time, never a byte.
- `SizeFromFrames`, `PayloadOwed`: a reader that does not share the parser's state
  finds the same member boundaries: the size is a record's or, where none sets it, the one
  the header declares, and an archive does not end while an extension of either family
  waits for its member. A disagreement here is how a header comes to be read as payload.
- `MetadataIsLastWord`, `PolicyIsExact` (`MemberDecoderClient`): told from the
  list of headers alone; the code works with merged copies, pending lists and
  checks at another time than use. The policy refuses what is forbidden and bears on a
  member, and nothing else.
- `CleanOutput`, `ImplementsArchiveLog` (`ArchiveBuilderClient`): whatever was
  dropped or failed before, a builder that accepts a call has an output one may
  still finish.
- `SuccessIsSequential` (`ExtractionClient`): at success every path holds what the
  last member at it says, and a path of no member what it held before. Batching,
  streaming and deferral are invisible.
- `ChunksFollowOn`, `RangesStayFilled` (`FilePayload`, `SourceFiles`): a chunk is what
  follows the chunks before it, though the buffer belonged to another file a moment ago.
- `ImplementsPathStates`: a handle means one path for good.
- `ReadsBack` (`MemberFraming`): writer and reader agree on every member, and a reader
  without pax finds the same blocks.
- `LinksStayInside`, `LinksLeadAsJudged` (`LinkTargetsClient`): the code judges links by
  names it normalized; the operating system follows the text, from `/` if that is where it
  begins. They meet at the same place, at every moment, and it is inside.
- `RefusalIsDeserved`: a link refused for its target would be a cycle, would dangle under a
  policy that wants targets, or asks for a directory where a file is, which
  `finalize_symlinks` refuses under any policy. Of ambient targets it says nothing, as the
  destination of this run is empty.
- `EarlierFilesCommitted` (`ExtractionClient`): a failing member costs no earlier file at
  another path, with one exception: a hard link with a payload truncates the file it links to
  before the payload is read (`root.rs` 484-492), so a source that fails then leaves that file
  empty or in part (`CutShort`). Hard links refused for any other reason are not exempt.
- `NeverFollowsLinks`: an operation changes the leaf it is about and nothing else.
- `LinksObeyPolicy`: judged on the final tree by following links on the disk, not
  by the resolution the code does on its table.

### Bounds, and why they are enough

- Blocks have two bytes, so a block can be cut in the middle, and sizes include
  zero, less than a block, exactly a partial last block, and several blocks;
  chunk targets are below a block and above one. Archives end after `MaxBytes`:
  nine to eleven blocks hold an extension with a payload of two blocks, its member
  with two, another global and the two zero blocks. The payload run uses plain
  members because extension headers do not occur while a payload is read.
- Four headers hold every order that matters to the decoder: global before global,
  global kept across a member, global and local before a member, two GNU headers
  and their member, and a header after a delivered member. The record lists have
  each keyword set, deleted, repeated, raw and with a charset before or after it.
- Sources of eight entries fill four batches of two, so that the producer waits on
  a channel of one while the builder prepares and writes.
- Two names and paths of two components give every relation between two members:
  same path, parent and child, siblings. A batch is full at two files or three
  units; files of one and two units are buffered, of three streamed. Three or four
  members are enough for: queue, replace, and something that needs the queued file;
  a directory, its content and its replacement; a link, what replaces it, and a
  member through it; chains and circles of two links.

- A file has zero bytes to two and a half chunks, a small one at most half a chunk, as
  in the source; trees put streamed files first, between and last, end a group by its
  size, and leave a group short. Two calls are enough for what one leaves to the next.
- Four nodes hold a chain of three components and two siblings, each with every state.
- Values are as long as it takes for a record to cross 10, 100 and 1000 on either side
  of the point where the second digit count differs from the first; damage in two
  places reaches the length and what it points to at once.
- Fields of two and three characters are filled, overfilled and split by paths of up to
  seven; sizes lie at both sides of the octal limit of the field, of a block and of the
  top of the type.
- Three links of sixteen kinds of target give chains, cycles, `..` behind a link, targets
  that end in a slash, and targets whose resolution meets the budget.

`MaxBytes`, `MaxHeaders`, `MaxMembers`, `MAX_MEMBERS`, `MAX_LINKS`, `MAX_LOOKUP_STEPS`, `MaxCalls`, `MaxNodes`,
`MaxRecords`, `MaxDamage`, `Damageable` and the sequence `Members` of `MemberFraming` bound what the code does not; all other constants are the code's, made small.

### Fairness, and why the code justifies it

- `CallReturns` (reader, its own calls and the `next_frame` of the parser): weak fairness of polling with an answer
  from the source, bytes or its end. A waker is registered by the source, so a
  pending future is polled again; a source that never answers is not the reader's
  fault. Nothing is assumed of errors, of the client's calls, or of drops.
- `CallReturns` (builder): weak fairness of the pending call and of the
  spawned task, each on its own: the executor runs both. They share no fairness, so
  a cycle in which each waits for the other would be found.
- `ExtractionEnds`: weak fairness of the future and of the blocking task. Dropping
  the future is never assumed.
- The decoder, payloads, framing and link resolution have no liveness property of their
  own: each of their steps is a finite computation between two awaits, and what they wait
  for is another part's.

Runs say `CHECK_DEADLOCK FALSE` where the system stops: an extraction ends, `finish`
consumes the builder. All other runs are checked for deadlock.

### Assumptions

- Nobody else changes the destination: `Archive::extract_in` demands it, and
  `SECURITY.md` excludes it. Links and files that were there before are in the model.
- `NeverFollowsLinks`, `EntriesMatchTree` and `EarlierFilesCommitted` are checked, and proved,
  where different names are different on the disk, and `SuccessIsSequential` and `LinksObeyPolicy` speak of archives whose
  names the disk keeps apart (`NamesStayApart`). Where names fold together
  `SECURITY.md` makes no promise; `LinkGivesWayToLater` is what the comments in
  `finalize_symlinks` promise for that case.
- Files to be archived do not change while they are (`SECURITY.md`). `SourceFiles` lets a
  streamed file turn out shorter or longer than it was, because the code handles it.
- Every extraction has a destination of its own; paths have no prefixes, as on Unix.

## 4. What TLAPS proves

Eight modules hold proofs, one of them (`SharedLemmas`) lemmas only. Each of the others states an inductive invariant in named parts (TLC checks
those that are not themselves checked properties while they are being found), proves
that the initial states have it and that every action keeps it, one lemma for each
action or kind of step, and draws the theorems from it by temporal reasoning.

| theorem | states | for every |
|---|---|---|
| `TarReaderProofs!ReaderInvariant` | `ReaderClientSpec => []ReaderInv` | archive, block size, limit, chunk target, drain size |
| `…!NoByteIsLost`, `…!PayloadIsAccounted` | `=> []NoByteLost`, `=> []PayloadAccounted` | the same |
| `…!GlobalStateIsOne`, `…!ChecksHold` | `=> []OneGlobalState`, `=> []ChecksNeverFail` | the same |
| `TarReaderProofs!ReaderImplementsMemberStream` | `=> ImplementsMemberStream` (a refinement) | the same |
| `TarStreamProofs!StreamInvariant` | `ClientSpec => []StreamInv` | archive, block size, limit, set of records |
| `…!PayloadIsOwed`, `…!BudgetIsKept` | `=> []PayloadOwed`, `=> []GlobalBudget` | the same |
| `…!SizesAreFromFrames` | `=> SizeFromFrames` (an action property) | the same |
| `ArchiveBuilderProofs!OutputStaysClean` | `BuilderClientSpec => []CleanOutput` | names, entries, trees, sizes, limits, order of calls |
| `…!AdditionsAreAllOrNothing` | `=> CallsAreAllOrNothing` (an action property) | the same |
| `…!AdditionsHoldLittle` | `=> []BoundedMemory` | the same |
| `…!BuilderImplementsLog` | `=> ImplementsArchiveLog` (a refinement) | the same |
| `BufferAndTreeProofs!ChunksAreTheFile` | `SourceSpec => []ChunksFollowOn` | files, sizes, trees, chunk length, limits, number of calls |
| `…!RangesAreKept`, `…!ArchivedFilesAreWhole` | `=> []RangesStayFilled`, `=> []MembersAreWhole` | the same |
| `TextProofs!RecordLengthsAreExact` | `TextSpec => []LengthsAreExact` | keyword, value and width of `usize` |
| `…!RecordSlicesStayInside` | `=> []SlicesStayInside` | payload, damage and width |
| `…!PayloadsReadBack` | `=> []ParsesExactlyRecords` | payload, damage, keywords, values, width |
| `TextProofs!LinksNeverLeadOut` | `Spec => []LinksStayInside` (of `LinkTargets`) | members, paths, targets, policies, limits, steps of a lookup |
| `…!JudgingIsBounded` | `=> []WorkIsBounded` | the same |
| `BufferAndTreeProofs!ChildrenAreCounted` | `TreeSpec => []CountsActiveChildren` | names, states, size of the arena, order of calls |
| `…!TreeImplementsPathStates` | `=> ImplementsPathStates` (a refinement) | the same |
| `ExtractionProofs!DroppedStaysQuiet` | `ClientSpec => []QuietAfterDrop` | disk, folding, members, policy, failures, order of completion |
| `…!ExtractionOverwritesNothing` | `=> NothingOverwritten` (an action property) | the same |
| `…!DescendsThroughNoLink` | until links are made, a step changes only the leaf of its path (an action property) | the same |
| `…!EntriesAreTrue` | `NamesApart`: `ClientSpec => []EntriesMatchTree` | the same, on a disk that keeps names apart |
| `…!NoStepFollowsLinks` | `NamesApart`: `ClientSpec => NeverFollowsLinks` (an action property) | the same, on a disk that keeps names apart |
| `…!EarlierFilesAreWhole` | `NamesApart`: `ClientSpec => []EarlierFilesCommitted` | the same, on a disk that keeps names apart |
| `MemberDecoderProofs!MembersCarryLastWord` | `DecoderSpec => []MetadataIsLastWord` | records, headers, number of members |
| `…!PolicyIsObeyed`, `…!RawNamesAreDeclared` | `=> []PolicyIsExact`, `=> []RawNamesNeedBinary` | the same, and every policy |

The assumptions are those of the modules' `ASSUME`s, which TLC evaluates on the
instances: block size and chunk length positive; sizes, limits and targets naturals;
the marks for an absent and a deleted record, and `None`, different from every value.
`PowersOfTen` (`PaxRecordLength`) says what a power of ten is, because the provers do not know
`^`; that powers grow and that a number of the type has one decimal length is proved.
`LengthAssumption` asks that `usize` has at most the 20 digits the code counts with, and
`TextAssumption` that a keyword is a UTF-8 string, as its type in the code is.

*Reader.* `NoByteLost` says nothing of the chunk in
progress beyond its bytes, and from a chunk of arbitrary length or one that
starts off the parser's position the next delivery would break it.
`ReaderInv` adds what ties these together: a chunk is a whole number of blocks
whose last one is not empty (`Spans`); one being read starts where the parser
stands, with the parser still waiting for its payload; one being delivered is
complete and cut at a block; the extension being assembled is of the kind the
parser reads, with the same number of bytes to go; a pending call excludes a
finished stream. The proof has lemmas on sequences of offsets and on multiples of the
block size, one for each way a step can leave the stream (quiet, failed, a released
member, a header of either family, pax and GNU data, zero blocks), and one for each
action.

*Reader as a stream of members.* The abstract stream has a next byte; the reader has a
position, a chunk and what is still due. `Place` adds to the invariant where that byte
is: at the position when no chunk is held, at the start of one being read, behind what
is delivered of one that is ready; and that padding lies only behind the last byte of a
member, so that position and next byte meet again wherever payload is left. Each step is
then one of `MemberStream`: what is handed over is a payload step, what is drained passes
over, which the abstract stream allows only when the client has given the payload up (`held`,
the reader's own note of a payload in hand), everything else is silent, a member, the end or a
failure; and after a failure nothing can be delivered, because the reader's state has no
payload left to read from. The checks the reader
makes on itself have no counterpart there and need none, as they never fail.

*Parser.* What the client concludes from frames (`seen`) and what the parser keeps are
related part by part: what is owed (`Owes`), the local extensions since the last member
(`LocalSeen`), what was charged to the budget (`Charged`), and for each keyword the last
global payload that set it (`GlobalsSeen`). The last is the crux: the parser merges
records as they come, the client keeps the list, and `InForce` says that the merged
record is the value of the last payload that mentions the keyword. A record assembled
from a payload is fixed only when its last block is complete, so the invariant also
relates the frame the payload came in to the parser's phase. `SizeFromFrames` is a
property of steps; it follows from the invariant before the step, and from the header frame,
which carries the declared size beside the effective one. `Waiting` gives the extensions a
phase of the parser holds for the next member; only the first of the two zero blocks could end
an archive with some left, and it is taken where there are none.

*Builder.* A usable builder's output is clean because of what holds while it is not
usable: a call that stands has set `poisoned`, and a hook has either written nothing of its
member, or stands behind a clean log with a part of it (`HookInv`, `StageInv`). When the
hook ends the member is whole and joins the log: it did not collide, so its path is
its own, and what `commit_entry` reserves is what the longer log implies
(`CommittedIsReserved`, `WholeMemberJoins`). An error clears `poisoned` only where
nothing of the member in hand is out.

That an addition is all or nothing compares the members of the log with the entries of the
call: what is out, what the call holds and what the producer has still to give are, in this
order, the entries of the tree, and of a call that failed or was dropped either nothing is in
the output or the builder stays poisoned. For the memory
bound, `MemoryInv` says that the addition takes a batch only when it holds nothing, so that what it
prepared and has not prepared yet is of one batch; and the bytes of a group are a running
sum (`Sums`) that was below the target before its last file, which is a small one. The refinement maps each call to what it adds to `ArchiveLog`; the log grows
in the step in which a member is whole, every other step is a stutter or a failure.

*Shared buffer.* `GroupInv` says why a range is safe: all files of a group but the last are
small, the last one is streamed only if the group is complete, and a streamed file holds
the buffer only when no range is left. `PayloadInv` relates, for a payload that is
being read, the bytes in its buffer, `filled`, `remaining` and what was
delivered, with or without a future in progress. The proof about ranges needs what
appending to a sequence leaves of its slices (`SliceOfLonger`, `SliceAdded`).

*Lengths.* The length of a record is estimated with the digits of what follows it and once
more with the digits of the estimate. `SecondCountIsFinal`: one digit more can carry the
estimate over at most one power of ten, and the second count has taken that into account.

*Reading back.* `ParsesExactlyRecords` finds the positions from which a payload is records with
a recursion of its own, which asks for the record to exist; the parser finds it from the
digits and the first `=`. `RecordIsAccepted` and `AcceptedIsRecord` say that these are the same record:
digits name one number and a number has one way to be written (`NumberOfDecimal`, up through the
powers of ten), and a keyword has no `=`. `Good` is the set the recursion describes, and
`ParseInv` says that the parser's position is in it exactly if the start is. `KeptInv` lays the
records written end to end over the payload and follows the parser through them; an append keeps
it because what is written behind a record does not change how that record reads.

*Links.* A target is accepted when it has no `..` behind a name and no more `..` than its link is
deep. `Inside` carries that through a lookup that starts at one link and goes on through others:
where it stands in a directory at depth d, the components still to go have at most d ascents
(`Fits`) and none behind a name; and no target is absolute (`Sound`). A name is gone down by one, `..` goes up by one of which there is
one less, and a link puts its own ascents in front of components that have none, because a name
was just taken. No induction on what a text is made of is needed: `Fits` says that there is a
falling count of the ascents, and `Ascents` gives one. For the budget, the resolution that judges a
link and the walk whose bytes the property counts go side by side (`Abreast`): what is charged
before an expansion covers the two copies of the path and the names looked up in it
(`WorkCovers`), and what was charged for one link is where the next begins.

*Component tree.* `ActiveChildren` of a node change by exactly the node whose state is set or
cleared, when it had none or will have none. For the refinement, a node is made after its
parent and has one edge from it, so that its path is determined by the nodes before it, no two
nodes have the same path, and walking the names of a path arrives at its node or nowhere. This
is an induction down the tree, by the number of the node.

*Extraction.* The invariant justifies what is left to do: each operation on a path is
preceded, in the state or in the operations that come before it, by what makes it safe. Its
parents are directories the extraction knows of; a link is made only to a file of the
archive; contents go to a file that was just created, or emptied and of the archive.
`NoLinks` says that until the symbolic links are made no path that has a state or waits in a
batch leads over a link; deferring the links is what makes it inductive. Files that wait for their
batch carry the justification with them. `LateInv` is for what happens after a drop: one call
in flight or one file of the task, never both. `DescendsThroughNoLink` leaves out the making of the
links themselves: where the disk folds two names into one, the place of a deferred link may lie
behind a link that was made before it, and TLC finds that if the exception is removed.

A second layer, `StateInv`, relates what the extraction believes of its paths to what the
disk holds; it needs `NamesApart`, that `Fold` is injective, since on another disk replacing
one path may remove the node of another that the table still lists. The belief is wrong for a
while in two ways, and the invariant says how far. A small file that was put off is in the table
and not on the disk, and it may even be queued over a directory in use, if it may replace
nothing; so `TreeInv` lets a parent be a directory on the disk over which only `Doomed` files
wait, whose batch must fail. And within a member the disk is ahead of the table: `OrderInv`
says that nothing is left to do after a file was put off, that every operation on the disk
finds nothing waiting (`WaitInv`), and that a link is reserved right after its place was
cleared, which is then still bare (`BareInv`). `HandleInv` is for the one directory handle kept:
the directory removed by a replacement is never the one it is for. All this holds until an
error or a `Return` (`Sound`); when the links come to be made, their parents are directories
(`LinkTree`), and remain so, because a link is made at a reserved place, which is not a parent
of anything. Hence no step at all follows a link. Hypotheses: `NamesApart`, which the
`extract_files` run meets, and that no name leads out of the root (`ExtractionAssumption`), as
`extract/path.rs` ensures.

A third layer, `FileInv`, is for the files themselves, and on it rests that a failing archive leaves
the files before the failure whole. The inode of a member's file is at that member's place only
(`InodeInv`, `ByInv`), hard links apart. A create and a truncate are followed at once by the
write of the contents, and what is cleared for a file by the creation of that file or by its place in
the batch (`FollowInv`), so that contents are whole unless they are being written now (`DoneInv`, whose `Excused` names the
exceptions: the file the batch is at, the one an operation just made, that of a member that
failed, and the one such a member had emptied as a hard link, `CutShort`). While nothing failed, the file of every member that no later one takes the path of has a
state (`KnownInv`), hence waits or is on the disk; it loses the state only to a `Replace`, which
is for the member's own path. A failure that is the archive's finds the extraction sound
(`FaultBegins`); from there on the row is a flush, its await and the return (`Closes`), and every
file waits or stands (`EndInv`) until nothing waits. If the batch fails the result is another error
(`ErrorInv`), for which nothing is claimed.

*Decoder.* The headers read are those of whole members, then the global ones of the next, then
its own: GNU long names, or one local pax header (`Unclaimed`). The archive decides from all
global headers so far, merged one after the other; the property looks for the last record of a
keyword in the archive as a whole. `ApplyGlobalGet` and `FlattenConcat` say that this is
the same: for every keyword, what merging a list of records leaves is the last word of the
list. What a member hears is that and its own header (`HeardAtEnd`). The policy is checked for
one kind of record after the other and yet names the first that fails, because records of two
families never meet in one archive.

*Recursive functions.* The library's induction theorems cannot be used, but what a recursive
*function* of the model computes can still be proved for every input: the numbers for which a
claim fails form a set, this set has a least element (`SharedLemmas!LeastNatural`, from the
well-foundedness of strict inclusion between finite sets), hence a set that holds 0 and
with each number the next holds all (`CountingUp`); and a recursion defines a function
(`RecursionExists`), which a proof must know before it may use its equation.

Left to TLC:

- all liveness: fairness and ENABLED are beyond the prover;
- of the extraction, what is on the disk after a success (`SuccessIsSequential`,
  `LinksObeyPolicy`): the one compares contents shared through hard links with a recursion over
  all members, the other walks that end within the bounds of the instance; and
  `EntriesMatchTree`, `NeverFollowsLinks` and `EarlierFilesCommitted` on a disk that folds
  names, where they need not hold: two names of which it makes one can lead a path of the
  archive to another's place;
- that links lead where they were judged to, and are refused for a reason (`LinksLeadAsJudged`,
  `RefusalIsDeserved`): they compare two walks through a graph whose lengths have different
  bounds, and hold of the bounds of the instance, not of all;
- that what is framed reads back (`ReadsBack`).

## 5. What is not modelled, and why

- Of header blocks: GNU base-256 numbers and the layout of GNU headers; owners, modes
  beyond the executable bit, device numbers. The parser model takes their acceptance or
  rejection as an input.
- Of pax values: times, and vendor names beyond one that stands for all. They are texts
  handed through.
- `name.rs`, the portability policy on names: it accepts or rejects a string, without
  any state. `ArchiveBuilder` and `Extraction` take names as valid or refused.
- Path prefixes and reserved names of Windows.
- Hooks of a backend other than `TarEncoder` that return before they have read their payload to
  its end: `Builder` does not check that, and the only backend reads on until there is no more.
- Character and block devices and FIFOs in the decoder: to it they are members
  without payload and link, as a directory is; extraction refuses them.
- The checks on the destination when extraction opens it (`root.rs` 285-329): a few
  calls of the file system before anything else happens.
- In `LinkTargets`: a destination with something in it, names that fold, and failures of the
  file system; `Extraction` has all three, with targets already resolved.
- Overflow of 64-bit positions, sizes and sequence numbers, except where a length or a
  padding is computed at the limit (`PaxRecordLength`, `MemberFraming`): every other
  computation is checked and an overflow is an error.
- `tarpit`, benches and tests; re-exports and plain types (`tar-framing/src/lib.rs`,
  `archive-trait/src/lib.rs`).

No disagreement between the code and its documentation was met so far.

## 6. Plan

Done, in this order: the parser; the reader and its promise; the proofs of the
reader; the builder with its traversal and its promise; extraction; the decoder; the
component tree and its promise; payloads and the shared buffer; the text of records and
headers; link targets; the proofs about the reader, the parser, the builder, the buffer, the
tree, the records, the extraction and the decoder; that reader, builder and tree implement
their promises.

To come, modelled and checked:

1. `MemberDecoder` over `TarReader`, so that the reader's promise is used and not
   assumed; decoder and extraction over one archive.
2. `ComponentTree` in place of the functions from paths in `ArchiveBuilder` and `Extraction`.
3. `name.rs`, as classes of names that a validator accepts, in additions and extractions.

To come, proved:

1. `SuccessIsSequential`, from `FileInv` and an account of whom a hard link's file belongs to;
2. `ReadsBack`, from the lengths of records and paddings.
