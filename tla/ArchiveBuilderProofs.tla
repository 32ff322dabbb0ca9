------------------------- MODULE ArchiveBuilderProofs -------------------------
(***************************************************************************)
(* A builder that takes calls has a clean output, for any entries, trees   *)
(* and sizes.  The inductive invariant says where a call may stand with    *)
(* how much written: a hook has written nothing of its member or stands    *)
(* behind a clean log with a part of it, and the reservations are those    *)
(* of the log in front of it.  What an addition has come to (AdditionInv)  *)
(* follows its entries through the producer, the channel and the call, so  *)
(* that what returns is all of it or nothing, and the builder implements   *)
(* ArchiveLog; MemoryInv says how much of it is held on the way.           *)
(***************************************************************************)
EXTENDS ArchiveBuilderClient, SequenceTheorems, SharedLemmas, TLAPS

MemberType ==
  [path : Seq(Names) \ {<<>>}, kind : {"Directory", "Regular", "SymbolicLink"},
   sequence : Nat, due : Int, done : Int]

(* A log of whole members, numbered, no two of them at one path and none   *)
(* beneath one that is no directory.                                       *)
Rows(s) ==
  /\ \A i \in 1..Len(s) : IsWhole(s[i]) /\ s[i].sequence = i - 1
  /\ \A i, j \in 1..Len(s) : s[i].path = s[j].path => i = j
  /\ \A i, j \in 1..Len(s) : s[i].path \in Log!Prefixes(s[j].path) => s[i].kind = "Directory"

CleanLog(s, reserved, next) ==
  s \in Seq(MemberType) /\ Rows(s) /\ reserved = Reserved(s) /\ next = Len(s)

Begun(entry, number, n) ==
  [path |-> entry.path, kind |-> entry.kind, sequence |-> number,
   due |-> Due(entry), done |-> n]

(* The member a hook is at stands in part behind a clean log.              *)
HalfWritten ==
  /\ Written > 0 /\ ~Collides(Entry)
  /\ \E s \in Seq(MemberType) :
       /\ CleanLog(s, entries, sequence - 1)
       /\ sink = Append(s, Begun(Entry, Len(s), Written))

CleanSink == CleanLog(sink, entries, sequence)

AddCalls ==
  [op : {"add"}, step : {"hook"}, prepared : Seq(EntryType), written : Int, reader : BOOLEAN]

Failures ==
  [error : {"None", "Encoder", "SourceRead", "PathCollision", "Filesystem", "Traversal"},
   poisons : BOOLEAN]

TreeCalls ==
  [op : {"add_directory_all"}, step : {"receive", "prepare", "hook", "finish"},
   batch : Seq(EntryType), prepared : Seq(EntryType), written : Int, emitted : BOOLEAN,
   failure : Failures]

CallType == call \in {Idle, Gone, [op |-> "finish"]} \cup AddCalls \cup TreeCalls

TraversalType ==
  /\ producer \in [status : {"none", "walking", "sending", "stopped"}, walk : Seq(EntryType),
                   batch : Seq(EntryType), failed : BOOLEAN]
  /\ channel \in Seq(Seq(EntryType))

HookInv ==
  InHook => /\ call.prepared # <<>>
            /\ HalfWritten \/ (Written = 0 /\ CleanSink)

StageInv ==
  /\ call = Idle /\ ~poisoned => CleanSink
  /\ call.op \in {"add", "add_directory_all"} => poisoned
  /\ call.op = "add_directory_all" =>
       /\ call.step \in {"receive", "prepare"} => CleanSink /\ Written = 0
       /\ call.step = "finish" => call.failure.poisons \/ CleanSink
  /\ poisoned \in BOOLEAN /\ sequence \in Int

BuilderInv == CallType /\ TraversalType /\ HookInv /\ StageInv

-----------------------------------------------------------------------------
(* Reservations.                                                           *)

LEMMA PathIsNode ==
  ASSUME NEW path \in Seq(Names) \ {<<>>}
  PROVE  path \in NodesOf(path)
<1>1. Len(path) \in 1..Len(path)
  <2>1. Len(path) \in Nat /\ Len(path) # 0
    BY EmptySeq
  <2>. QED  BY <2>1
<1>2. SubSeq(path, 1, Len(path)) = path
  OBVIOUS
<1>. QED  BY <1>1, <1>2 DEF NodesOf

LEMMA PrefixIsNode ==
  ASSUME NEW path \in Seq(Names), NEW node \in Log!Prefixes(path)
  PROVE  node \in NodesOf(path)
BY DEF NodesOf, Log!Prefixes

PathsOf(s) == { s[i].path : i \in 1..Len(s) }

LEMMA ReservedDomain ==
  ASSUME NEW s
  PROVE  DOMAIN Reserved(s) = UNION { NodesOf(path) : path \in PathsOf(s) }
BY DEF Reserved, PathsOf

(* Where no two members have one path, each one's path is reserved for it. *)
LEMMA ReservedAtMember ==
  ASSUME NEW s \in Seq(MemberType), Rows(s), NEW i \in 1..Len(s)
  PROVE  /\ s[i].path \in DOMAIN Reserved(s)
         /\ Reserved(s)[s[i].path] =
              (IF s[i].kind = "Directory" THEN "Explicit" ELSE "NonDirectory")
<1>1. s[i].path \in PathsOf(s) /\ s[i].path \in Seq(Names) \ {<<>>}
  <2>1. s[i] \in MemberType
    OBVIOUS
  <2>. QED  BY <2>1 DEF PathsOf, MemberType
<1>2. s[i].path \in DOMAIN Reserved(s)
  <2>. DEFINE q == s[i].path
  <2>1. q \in NodesOf(q) /\ q \in PathsOf(s)
    BY <1>1, PathIsNode
  <2>. HIDE DEF q
  <2>2. q \in UNION { NodesOf(path) : path \in PathsOf(s) }
    BY <2>1
  <2>3. q \in DOMAIN Reserved(s)
    BY <2>2, ReservedDomain
  <2>. QED  BY <2>3 DEF q
<1>3. (CHOOSE k \in 1..Len(s) : s[k].path = s[i].path) = i
  BY DEF Rows
<1>4. Reserved(s)[s[i].path] =
        (IF s[CHOOSE k \in 1..Len(s) : s[k].path = s[i].path].kind = "Directory"
         THEN "Explicit" ELSE "NonDirectory")
  BY <1>1, <1>2, ReservedDomain DEF Reserved, PathsOf
<1>. QED  BY <1>2, <1>3, <1>4

LEMMA ReservedAbove ==
  ASSUME NEW s, NEW node \in DOMAIN Reserved(s), node \notin PathsOf(s)
  PROVE  Reserved(s)[node] = "Implicit"
BY ReservedDomain DEF Reserved, PathsOf

(* A member that does not collide has a path of its own, and what          *)
(* commit_entry leaves is what the longer log implies.                     *)
LEMMA CommittedIsReserved ==
  ASSUME NEW s, NEW next, CleanLog(s, entries, next), NEW entry \in EntryType, ~Collides(entry),
         NEW m \in MemberType, m.path = entry.path, m.kind = entry.kind,
         IsWhole(m), m.sequence = Len(s)
  PROVE  CleanLog(Append(s, m), Committed(entry), next + 1)
<1>. DEFINE p == entry.path
            longer == Append(s, m)
<1>1. s \in Seq(MemberType) /\ Rows(s) /\ entries = Reserved(s) /\ next = Len(s) /\ Len(s) \in Nat
  BY DEF CleanLog
<1>2. p \in Seq(Names) \ {<<>>} /\ p \in NodesOf(p)
  BY PathIsNode DEF EntryType
<1>3. p \notin PathsOf(s)
  <2>. SUFFICES ASSUME NEW i \in 1..Len(s), s[i].path = p PROVE FALSE
    BY DEF PathsOf
  <2>1. p \in DOMAIN entries /\ entries[p] \in {"Explicit", "NonDirectory"}
    BY <1>1, ReservedAtMember
  <2>2. ~Completes(entries[p], entry)
    BY <2>1 DEF Completes
  <2>. QED  BY <1>2, <2>1, <2>2 DEF Collides
<1>4. /\ longer \in Seq(MemberType) /\ Len(longer) = Len(s) + 1
      /\ \A i \in 1..Len(s) : longer[i] = s[i]
      /\ longer[Len(s) + 1] = m
  BY <1>1
<1>. HIDE DEF longer
<1>5. Rows(longer)
  <2>1. \A i \in 1..Len(longer) : IsWhole(longer[i]) /\ longer[i].sequence = i - 1
    <3>. TAKE i \in 1..Len(longer)
    <3>1. CASE i \in 1..Len(s)
      BY <1>1, <1>4, <3>1 DEF Rows
    <3>2. CASE i = Len(s) + 1
      BY <1>1, <1>4, <3>2
    <3>. QED  BY <1>1, <1>4, <3>1, <3>2
  <2>2. \A i \in 1..Len(s) : s[i].path # m.path
    BY <1>3 DEF PathsOf
  <2>3. \A i, j \in 1..Len(longer) : longer[i].path = longer[j].path => i = j
    <3>. TAKE i, j \in 1..Len(longer)
    <3>1. CASE i \in 1..Len(s) /\ j \in 1..Len(s)
      BY <1>1, <1>4, <3>1 DEF Rows
    <3>2. CASE i \in 1..Len(s) /\ j = Len(s) + 1
      BY <1>4, <2>2, <3>2
    <3>3. CASE i = Len(s) + 1 /\ j \in 1..Len(s)
      BY <1>4, <2>2, <3>3
    <3>. QED  BY <1>1, <1>4, <3>1, <3>2, <3>3
  <2>4. \A i, j \in 1..Len(longer) :
          longer[i].path \in Log!Prefixes(longer[j].path) => longer[i].kind = "Directory"
    <3>. SUFFICES ASSUME NEW i \in 1..Len(longer), NEW j \in 1..Len(longer),
                         longer[i].path \in Log!Prefixes(longer[j].path)
                  PROVE  longer[i].kind = "Directory"
      OBVIOUS
    <3>1. CASE i \in 1..Len(s) /\ j \in 1..Len(s)
      BY <1>1, <1>4, <3>1 DEF Rows
    <3>2. CASE i \in 1..Len(s) /\ j = Len(s) + 1
      <4>1. longer[i] = s[i] /\ s[i].path \in Log!Prefixes(p)
        BY <1>4, <3>2
      <4>2. s[i].path \in NodesOf(p)
        BY <1>2, <4>1, PrefixIsNode
      <4>3. s[i].path # p
        BY <2>2, <3>2
      <4>4. s[i].path \in DOMAIN entries
            /\ entries[s[i].path] = IF s[i].kind = "Directory" THEN "Explicit" ELSE "NonDirectory"
        BY <1>1, <3>2, ReservedAtMember
      <4>5. entries[s[i].path] # "NonDirectory"
        BY <4>2, <4>3, <4>4 DEF Collides
      <4>. QED  BY <4>1, <4>4, <4>5
    <3>3. CASE i = Len(s) + 1 /\ j \in 1..Len(s)
      <4>1. longer[i] = m /\ p \in Log!Prefixes(s[j].path)
        BY <1>4, <3>3
      <4>2. s[j].path \in Seq(Names) \ {<<>>} /\ s[j].path \in PathsOf(s)
        <5>1. s[j] \in MemberType
          BY <1>1, <3>3
        <5>. QED  BY <3>3, <5>1 DEF MemberType, PathsOf
      <4>3. p \in NodesOf(s[j].path)
        BY <4>1, <4>2, PrefixIsNode
      <4>4. p \in DOMAIN entries
        BY <1>1, <4>2, <4>3, ReservedDomain
      <4>5. Completes(entries[p], entry)
        BY <1>2, <4>4 DEF Collides
      <4>. QED  BY <4>1, <4>5 DEF Completes
    <3>4. CASE i = Len(s) + 1 /\ j = Len(s) + 1
      <4>1. p \in Log!Prefixes(p)
        BY <1>4, <3>4
      <4>2. PICK k \in 1..(Len(p) - 1) : p = SubSeq(p, 1, k)
        BY <4>1 DEF Log!Prefixes
      <4>3. Len(SubSeq(p, 1, k)) = k /\ Len(p) \in Nat
        BY <1>2
      <4>. QED  BY <4>2, <4>3
    <3>. QED  BY <1>1, <1>4, <3>1, <3>2, <3>3, <3>4
  <2>. QED  BY <2>1, <2>3, <2>4 DEF Rows
<1>6. PathsOf(longer) = PathsOf(s) \cup {p}
  <2>1. 1..Len(longer) = 1..Len(s) \cup {Len(s) + 1}
    BY <1>1, <1>4
  <2>. QED  BY <1>4, <2>1 DEF PathsOf
<1>7. DOMAIN Reserved(longer) = DOMAIN entries \cup NodesOf(p)
  BY ZenonT(40), <1>1, <1>6, ReservedDomain
<1>8. ASSUME NEW node \in DOMAIN entries \cup NodesOf(p)
      PROVE  Committed(entry)[node] = Reserved(longer)[node]
  <2>1. CASE node = p
    <3>1. Committed(entry)[node] = IF entry.kind = "Directory" THEN "Explicit" ELSE "NonDirectory"
      BY <1>2, <2>1 DEF Committed
    <3>2. Len(longer) \in 1..Len(longer) /\ longer[Len(longer)] = m
      BY <1>1, <1>4
    <3>3. Reserved(longer)[m.path] = IF m.kind = "Directory" THEN "Explicit" ELSE "NonDirectory"
      BY <1>4, <1>5, <3>2, ReservedAtMember
    <3>. QED  BY <2>1, <3>1, <3>3
  <2>2. CASE node # p /\ node \in PathsOf(s)
    <3>1. PICK i \in 1..Len(s) : s[i].path = node
      BY <2>2 DEF PathsOf
    <3>2. node \in DOMAIN entries
          /\ entries[node] = IF s[i].kind = "Directory" THEN "Explicit" ELSE "NonDirectory"
      BY <1>1, <3>1, ReservedAtMember
    <3>3. i \in 1..Len(longer) /\ longer[i] = s[i]
      BY <1>1, <1>4
    <3>4. Reserved(longer)[node] = IF s[i].kind = "Directory" THEN "Explicit" ELSE "NonDirectory"
      BY <1>4, <1>5, <3>1, <3>3, ReservedAtMember
    <3>5. Committed(entry)[node] = entries[node]
      BY <2>2, <3>2 DEF Committed
    <3>. QED  BY <3>2, <3>4, <3>5
  <2>3. CASE node # p /\ node \notin PathsOf(s)
    <3>1. Reserved(longer)[node] = "Implicit"
      BY <1>6, <1>7, <2>3, ReservedAbove
    <3>2. node \in DOMAIN entries => entries[node] = "Implicit"
      BY <1>1, <2>3, ReservedAbove
    <3>. QED  BY <2>3, <3>1, <3>2 DEF Committed
  <2>. QED  BY <2>1, <2>2, <2>3
<1>9. Committed(entry) = Reserved(longer)
  <2>1. Committed(entry) = [node \in DOMAIN entries \cup NodesOf(p) |-> Committed(entry)[node]]
    BY DEF Committed
  <2>2. Reserved(longer) = [node \in DOMAIN entries \cup NodesOf(p) |-> Reserved(longer)[node]]
    BY <1>7 DEF Reserved
  <2>. QED  BY <1>8, <2>1, <2>2
<1>. QED  BY <1>1, <1>4, <1>5, <1>9 DEF CleanLog, longer

-----------------------------------------------------------------------------
(* Writes.                                                                 *)

LEMMA EntryTyped ==
  ASSUME BuilderInv, InHook
  PROVE  /\ Entry \in EntryType /\ Written \in Int
         /\ call \in AddCalls \cup TreeCalls
         /\ call.prepared \in Seq(EntryType) /\ call.prepared # <<>>
<1>1. call \in AddCalls \cup TreeCalls
  BY DEF BuilderInv, CallType, InHook, Idle, Gone
<1>2. call.prepared \in Seq(EntryType) /\ Written \in Int
  BY <1>1 DEF AddCalls, TreeCalls, Written
<1>3. call.prepared # <<>>
  BY DEF BuilderInv, HookInv
<1>. QED  BY <1>1, <1>2, <1>3 DEF Entry

LEMMA TreeCallsOnly ==
  ASSUME BuilderInv, call.op = "add_directory_all"
  PROVE  call \in TreeCalls
BY DEF BuilderInv, CallType, AddCalls, Idle, Gone

LEMMA DueIsNumber ==
  ASSUME NEW entry \in EntryType
  PROVE  Payload(entry) \in Nat /\ Due(entry) \in Int /\ BLOCK_SIZE \in Nat \ {0}
<1>1. Payload(entry) \in Nat /\ BLOCK_SIZE \in Nat \ {0}
  BY BuilderAssumption DEF Payload, EntryType
<1>2. \A a \in Nat : a \div BLOCK_SIZE \in Int
  BY <1>1
<1>3. Payload(entry) + BLOCK_SIZE - 1 \in Nat
  BY <1>1
<1>4. Padded(Payload(entry)) \in Int
  BY <1>1, <1>2, <1>3 DEF Padded
<1>. QED  BY <1>1, <1>4 DEF Due

LEMMA NextWriteGoesOn ==
  ASSUME NEW entry \in EntryType, NEW n \in Int, n >= 0
  PROVE  NextWrite(entry, n) \in Int /\ (NextWrite(entry, n) > 0 \/ NextWrite(entry, n) = Due(entry))
<1>1. Payload(entry) \in Nat /\ Due(entry) \in Int /\ BLOCK_SIZE \in Nat \ {0}
  BY DueIsNumber
<1>2. FILE_PAYLOAD_CHUNK_BYTES \in Nat \ {0}
  BY BuilderAssumption
<1>. QED  BY <1>1, <1>2 DEF NextWrite, Smaller

(* Whatever a hook writes is the front of its member, behind a clean log.  *)
LEMMA WritesBehindLog ==
  ASSUME BuilderInv, Writing, NEW n \in Int, WritesTo(n),
         sequence' = IF Written = 0 THEN sequence + 1 ELSE sequence
  PROVE  \E s \in Seq(MemberType) :
           /\ CleanLog(s, entries, sequence' - 1)
           /\ sink' = Append(s, Begun(Entry, Len(s), n))
           /\ Len(sink) = Len(s) + (IF Written > 0 THEN 1 ELSE 0)
           /\ \A i \in 1..Len(s) : s[i] = sink[i]
<1>1. InHook /\ (HalfWritten \/ (Written = 0 /\ CleanSink))
  BY DEF Writing, BuilderInv, HookInv
<1>2. Written \in Int
  BY <1>1, EntryTyped
<1>3. CASE Written = 0 /\ CleanSink
  <2>1. sink \in Seq(MemberType) /\ sequence = Len(sink) /\ Len(sink) \in Nat
    BY <1>3 DEF CleanSink, CleanLog
  <2>2. sink' = Append(sink, Begun(Entry, Len(sink), n))
    BY <1>3, <2>1 DEF WritesTo, Member, Begun
  <2>3. sequence' - 1 = sequence
    BY <1>3, <2>1
  <2>4. Len(sink) = Len(sink) + (IF Written > 0 THEN 1 ELSE 0)
    BY <1>3, <2>1
  <2>. QED  BY <1>3, <2>1, <2>2, <2>3, <2>4 DEF CleanSink
<1>4. CASE HalfWritten
  <2>1. Written > 0
    BY <1>4 DEF HalfWritten
  <2>2. PICK s \in Seq(MemberType) :
          /\ CleanLog(s, entries, sequence - 1)
          /\ sink = Append(s, Begun(Entry, Len(s), Written))
    BY <1>4 DEF HalfWritten
  <2>. DEFINE old == Begun(Entry, Len(s), Written)
              new == Begun(Entry, Len(s), n)
  <2>3. [old EXCEPT !.done = n] = new
    BY DEF Begun
  <2>4. sink' = [sink EXCEPT ![Len(sink)].done = n]
    BY <1>2, <2>1 DEF WritesTo
  <2>5. sink' = Append(s, new)
    <3>. HIDE DEF old, new
    <3>1. Len(s) \in Nat /\ s \in Seq(MemberType \cup {old, new})
      <4>1. MemberType \subseteq MemberType \cup {old, new}
        OBVIOUS
      <4>. QED  BY <4>1
    <3>2. /\ Append(s, old) \in Seq(MemberType \cup {old, new})
          /\ Len(Append(s, old)) = Len(s) + 1
          /\ Append(s, old)[Len(s) + 1] = old
          /\ \A i \in 1..Len(s) : Append(s, old)[i] = s[i]
      BY <3>1
    <3>3. /\ Append(s, new) \in Seq(MemberType \cup {old, new})
          /\ Len(Append(s, new)) = Len(s) + 1
          /\ Append(s, new)[Len(s) + 1] = new
          /\ \A i \in 1..Len(s) : Append(s, new)[i] = s[i]
      BY <3>1
    <3>4. sink = Append(s, old)
      BY <2>2 DEF old
    <3>5. sink' = [i \in 1..Len(sink) |-> IF i = Len(sink) THEN new ELSE sink[i]]
      <4>1. sink[Len(sink)] = old /\ DOMAIN sink = 1..Len(sink)
        BY <3>1, <3>2, <3>4
      <4>. QED  BY <2>3, <2>4, <3>2, <3>4, <4>1
    <3>6. sink' \in Seq(MemberType \cup {old, new}) /\ Len(sink') = Len(s) + 1
      BY <3>1, <3>2, <3>4, <3>5
    <3>7. \A i \in 1..Len(sink') : sink'[i] = Append(s, new)[i]
      BY <3>1, <3>2, <3>3, <3>4, <3>5, <3>6
    <3>. QED  BY <3>3, <3>6, <3>7, SeqEqual
  <2>6. sequence' = sequence
    BY <1>2, <2>1
  <2>7. Len(sink) = Len(s) + 1 /\ \A i \in 1..Len(s) : s[i] = sink[i]
    <3>. HIDE DEF old
    <3>. QED  BY <2>2 DEF old
  <2>. QED  BY <2>1, <2>2, <2>5, <2>6, <2>7
<1>. QED  BY <1>1, <1>3, <1>4

(* With its last write, the member joins the log.                          *)
LEMMA WholeMemberJoins ==
  ASSUME BuilderInv, Writing, WritesTo(Due(Entry)),
         sequence' = IF Written = 0 THEN sequence + 1 ELSE sequence,
         entries' = Committed(Entry)
  PROVE  CleanSink'
<1>1. InHook /\ ~Collides(Entry)
  BY DEF Writing
<1>2. Entry \in EntryType /\ Due(Entry) \in Int
  BY <1>1, EntryTyped, DueIsNumber
<1>3. PICK s \in Seq(MemberType) :
        /\ CleanLog(s, entries, sequence' - 1)
        /\ sink' = Append(s, Begun(Entry, Len(s), Due(Entry)))
  BY <1>2, WritesBehindLog
<1>. DEFINE m == Begun(Entry, Len(s), Due(Entry))
<1>4. m.path = Entry.path /\ m.kind = Entry.kind /\ IsWhole(m) /\ m.sequence = Len(s)
  BY DEF Begun, IsWhole
<1>5. m \in MemberType
  BY <1>2 DEF Begun, MemberType, EntryType
<1>6. sequence' - 1 = Len(s) /\ Len(s) \in Nat
  BY <1>3 DEF CleanLog
<1>. HIDE DEF m
<1>7. CleanLog(Append(s, m), Committed(Entry), (sequence' - 1) + 1)
  BY <1>1, <1>2, <1>3, <1>4, <1>5, CommittedIsReserved
<1>8. (sequence' - 1) + 1 = sequence'
  <2>1. sequence \in Int
    BY DEF BuilderInv, StageInv
  <2>. QED  BY <2>1
<1>. QED  BY <1>3, <1>7, <1>8 DEF CleanSink, m

-----------------------------------------------------------------------------
(* Steps.                                                                  *)

(* A call begins and ends with the builder as it was.                      *)
LEMMA UntouchedKeeps ==
  ASSUME BuilderInv, UNCHANGED <<outputVars, entries, poisoned, traversalVars>>,
         call' = call \/ call' = Gone \/ (call' = Idle /\ call = Idle)
                      \/ call' = [op |-> "finish"]
  PROVE  BuilderInv'
<1>1. CallType' /\ TraversalType'
  BY DEF BuilderInv, CallType, TraversalType, traversalVars
<1>2. CASE call' = call
  BY <1>1, <1>2 DEF BuilderInv, HookInv, StageInv, HalfWritten, CleanSink, InHook, Written, Entry,
                    Collides, outputVars
<1>3. CASE call' # call
  <2>1. ~InHook' /\ (call'.op \in {"idle", "gone", "finish"})
    BY <1>3 DEF InHook, Gone, Idle
  <2>2. call' # Idle \/ call = Idle
    BY <1>3 DEF Idle, Gone
  <2>3. HookInv'
    BY <2>1 DEF HookInv
  <2>4. StageInv'
    BY <2>1, <2>2 DEF BuilderInv, StageInv, CleanSink, outputVars
  <2>. QED  BY <1>1, <2>3, <2>4 DEF BuilderInv
<1>. QED  BY <1>2, <1>3

LEMMA IdleBuilder ==
  ASSUME BuilderInv, call = Idle, ~poisoned
  PROVE  CleanSink
BY DEF BuilderInv, StageInv

LEMMA AddKeeps ==
  ASSUME BuilderInv, NEW entry \in Entries, Add(entry)
  PROVE  BuilderInv'
<1>1. call = Idle
  BY DEF Add
<1>2. CASE \E error \in {"Poisoned", "NameRejected", "PathCollision", "FilePayloadAlreadyRead"} :
             Refuse(error)
  BY <1>1, <1>2, UntouchedKeeps DEF Refuse, Returns
<1>3. CASE /\ ~poisoned /\ ~Collides(entry)
           /\ poisoned' = TRUE
           /\ \E reader \in IF Regular(entry) THEN BOOLEAN ELSE {FALSE} :
                call' = [op |-> "add", step |-> "hook", prepared |-> <<entry>>, written |-> 0,
                         reader |-> reader]
           /\ out' = Pending
           /\ UNCHANGED <<outputVars, entries, traversalVars>>
  <2>1. CleanSink'
    BY <1>1, <1>3, IdleBuilder DEF CleanSink, outputVars
  <2>2. <<entry>> \in Seq(EntryType) /\ <<entry>> # <<>>
    BY BuilderAssumption
  <2>3. PICK reader \in BOOLEAN :
          call' = [op |-> "add", step |-> "hook", prepared |-> <<entry>>, written |-> 0,
                   reader |-> reader]
    BY <1>3
  <2>4. CallType' /\ call'.op = "add" /\ call'.written = 0 /\ call'.prepared # <<>>
    BY <2>2, <2>3 DEF CallType, AddCalls
  <2>5. TraversalType'
    BY <1>3 DEF BuilderInv, TraversalType, traversalVars
  <2>6. HookInv'
    BY <2>1, <2>4 DEF HookInv, Written
  <2>7. StageInv'
    BY <1>3, <2>4 DEF BuilderInv, StageInv, outputVars, Idle
  <2>. QED  BY <2>4, <2>5, <2>6, <2>7 DEF BuilderInv
<1>. QED  BY <1>2, <1>3 DEF Add

LEMMA AddDirectoryAllKeeps ==
  ASSUME BuilderInv, NEW tree \in Trees, AddDirectoryAll(tree)
  PROVE  BuilderInv'
<1>1. call = Idle
  BY DEF AddDirectoryAll
<1>2. CASE \E error \in {"Poisoned", "Traversal"} : Refuse(error)
  BY <1>1, <1>2, UntouchedKeeps DEF Refuse, Returns
<1>3. CASE /\ ~poisoned
           /\ poisoned' = TRUE
           /\ Spawn(tree)
           /\ call' = [op |-> "add_directory_all", step |-> "receive", batch |-> <<>>,
                       prepared |-> <<>>, written |-> 0, emitted |-> FALSE,
                       failure |-> NoFailure]
           /\ out' = Pending
           /\ UNCHANGED <<outputVars, entries>>
  <2>1. CleanSink'
    BY <1>1, <1>3, IdleBuilder DEF CleanSink, outputVars
  <2>2. call' \in TreeCalls /\ call'.op = "add_directory_all" /\ call'.step = "receive"
        /\ call'.written = 0
    <3>1. <<>> \in Seq(EntryType)
      OBVIOUS
    <3>2. NoFailure \in Failures
      BY DEF NoFailure, Failures
    <3>. QED  BY <1>3, <3>1, <3>2 DEF TreeCalls
  <2>3. TraversalType'
    <3>1. producer' = [status |-> "walking", walk |-> tree, batch |-> <<>>, failed |-> FALSE]
          /\ channel' = <<>>
      BY <1>3 DEF Spawn, NoProducer
    <3>2. tree \in Seq(EntryType) /\ <<>> \in Seq(EntryType) /\ <<>> \in Seq(Seq(EntryType))
      BY BuilderAssumption
    <3>. QED  BY <3>1, <3>2 DEF TraversalType
  <2>4. HookInv'
    BY <2>2 DEF HookInv, InHook
  <2>5. StageInv'
    BY <1>3, <2>1, <2>2 DEF BuilderInv, StageInv, outputVars, Idle, Written
  <2>. QED  BY <2>2, <2>3, <2>4, <2>5 DEF BuilderInv, CallType
<1>. QED  BY <1>2, <1>3 DEF AddDirectoryAll

LEMMA FinishKeeps ==
  ASSUME BuilderInv, Finish \/ FinishArchive \/ CancelFinish
  PROVE  BuilderInv'
<1>1. /\ UNCHANGED <<sink, sequence, entries, poisoned, traversalVars>>
      /\ call' = Gone \/ call' = [op |-> "finish"]
  BY DEF Finish, FinishArchive, CancelFinish, outputVars
<1>2. CallType' /\ TraversalType'
  BY <1>1 DEF BuilderInv, CallType, TraversalType, traversalVars
<1>3. ~InHook' /\ (call'.op \in {"gone", "finish"}) /\ call' # Idle
  BY <1>1 DEF InHook, Gone, Idle
<1>4. HookInv'
  BY <1>3 DEF HookInv
<1>5. StageInv'
  BY <1>1, <1>3 DEF BuilderInv, StageInv
<1>. QED  BY <1>2, <1>4, <1>5 DEF BuilderInv

(* The loop of a recursive addition ends.                                  *)
LEMMA WindsKeeps ==
  ASSUME BuilderInv, call \in TreeCalls, NEW failure \in Failures,
         Winds(failure), sequence' \in Int,
         failure.poisons \/ CleanSink'
  PROVE  BuilderInv'
<1>1. call' = [call EXCEPT !.step = "finish", !.failure = failure]
      /\ UNCHANGED <<producer, entries, poisoned>> /\ channel' = <<>>
  BY DEF Winds, DropReceiver
<1>2. call' \in TreeCalls /\ call'.op = "add_directory_all" /\ call'.step = "finish"
      /\ call'.failure = failure
  BY <1>1 DEF TreeCalls
<1>3. TraversalType'
  BY <1>1 DEF BuilderInv, TraversalType
<1>4. HookInv'
  BY <1>2 DEF HookInv, InHook
<1>5. poisoned' /\ poisoned' \in BOOLEAN
  BY <1>1 DEF BuilderInv, StageInv, TreeCalls
<1>6. StageInv'
  BY <1>2, <1>5 DEF StageInv
<1>. QED  BY <1>2, <1>3, <1>4, <1>6 DEF BuilderInv, CallType

(* What a failed hook leaves: nothing of its member, or a poisoned builder. *)
LEMMA HookFailedKeeps ==
  ASSUME BuilderInv, InHook, NEW failure \in Failures,
         HookFailed(failure), sequence' = sequence, failure.poisons \/ CleanSink'
  PROVE  BuilderInv'
<1>1. call \in AddCalls \cup TreeCalls
  BY EntryTyped
<1>2. CASE call.op = "add"
  <2>1. call' = Idle /\ poisoned' = failure.poisons /\ UNCHANGED traversalVars
    BY <1>2 DEF HookFailed, Returns
  <2>2. CallType' /\ HookInv' /\ TraversalType'
    BY <2>1 DEF BuilderInv, CallType, HookInv, InHook, TraversalType, traversalVars, Idle
  <2>3. failure.poisons \in BOOLEAN /\ sequence' \in Int
    BY DEF BuilderInv, StageInv, Failures
  <2>4. StageInv'
    BY <2>1, <2>3 DEF StageInv, Idle
  <2>. QED  BY <2>2, <2>4 DEF BuilderInv
<1>3. CASE call.op # "add"
  <2>1. call \in TreeCalls
    BY <1>1, <1>3 DEF AddCalls
  <2>2. sequence' \in Int
    BY DEF BuilderInv, StageInv
  <2>. QED  BY <1>3, <2>1, <2>2, WindsKeeps DEF HookFailed
<1>. QED  BY <1>2, <1>3

LEMMA HookGoesOnKeeps ==
  ASSUME BuilderInv, Writing, NEW n \in Int, n > 0, WritesTo(n), HookGoesOn(n),
         sequence' = IF Written = 0 THEN sequence + 1 ELSE sequence
  PROVE  BuilderInv'
<1>1. InHook /\ ~Collides(Entry) /\ sequence' \in Int
  BY DEF Writing, BuilderInv, StageInv
<1>2. call \in AddCalls \cup TreeCalls /\ call.prepared # <<>>
  BY <1>1, EntryTyped
<1>3. call' = [call EXCEPT !.written = n] /\ UNCHANGED <<entries, poisoned, traversalVars>>
  BY DEF HookGoesOn
<1>4. /\ call' \in AddCalls \cup TreeCalls
      /\ call'.op = call.op /\ call'.step = call.step /\ call'.prepared = call.prepared
      /\ call'.written = n
  BY <1>2, <1>3 DEF AddCalls, TreeCalls
<1>5. Entry' = Entry /\ Written' = n /\ Collides(Entry)' = Collides(Entry)
  BY <1>3, <1>4 DEF Entry, Written, Collides
<1>6. HalfWritten'
  <2>1. PICK s \in Seq(MemberType) :
          /\ CleanLog(s, entries, sequence' - 1)
          /\ sink' = Append(s, Begun(Entry, Len(s), n))
    BY WritesBehindLog
  <2>. QED  BY <1>1, <1>3, <1>5, <2>1 DEF HalfWritten
<1>7. HookInv'
  BY <1>2, <1>4, <1>6 DEF HookInv
<1>8. call.step = "hook" /\ call.op \in {"add", "add_directory_all"}
  BY <1>1 DEF InHook
<1>9. StageInv'
  BY <1>1, <1>3, <1>4, <1>8 DEF BuilderInv, StageInv, Idle
<1>10. CallType' /\ TraversalType'
  BY <1>3, <1>4 DEF BuilderInv, CallType, TraversalType, traversalVars
<1>. QED  BY <1>7, <1>9, <1>10 DEF BuilderInv

LEMMA HookReturnsKeeps ==
  ASSUME BuilderInv, InHook, HookReturns, CleanSink'
  PROVE  BuilderInv'
<1>1. call \in AddCalls \cup TreeCalls /\ call.prepared \in Seq(EntryType) /\ call.prepared # <<>>
  BY EntryTyped
<1>2. sequence' \in Int /\ UNCHANGED traversalVars
  BY DEF CleanSink, CleanLog, HookReturns
<1>3. TraversalType'
  BY <1>2 DEF BuilderInv, TraversalType, traversalVars
<1>4. CASE call.op = "add"
  <2>1. call' = Idle /\ poisoned' = FALSE
    BY <1>4 DEF HookReturns, Returns
  <2>2. CallType' /\ HookInv'
    BY <2>1 DEF CallType, HookInv, InHook, Idle
  <2>3. StageInv'
    BY <1>2, <2>1 DEF StageInv, Idle
  <2>. QED  BY <1>3, <2>2, <2>3 DEF BuilderInv
<1>5. CASE call.op # "add"
  <2>1. call \in TreeCalls /\ call.op = "add_directory_all"
    BY <1>1, <1>5 DEF AddCalls, TreeCalls
  <2>. DEFINE rest == Tail(call.prepared)
  <2>2. rest \in Seq(EntryType)
    BY <1>1
  <2>3. AfterGroup(rest) \in {"hook", "prepare", "receive"} /\ (AfterGroup(rest) = "hook" => rest # <<>>)
    BY DEF AfterGroup
  <2>4. call' = [call EXCEPT !.prepared = rest, !.written = 0, !.emitted = TRUE,
                             !.step = AfterGroup(rest)] /\ UNCHANGED poisoned
    BY <1>1, <1>5 DEF HookReturns
  <2>. HIDE DEF rest
  <2>5. /\ call' \in TreeCalls /\ call'.op = "add_directory_all" /\ call'.written = 0
        /\ call'.step = AfterGroup(rest) /\ call'.prepared = rest
    <3>. DEFINE step == AfterGroup(rest)
    <3>1. step \in {"receive", "prepare", "hook", "finish"}
      BY <2>3
    <3>. HIDE DEF step
    <3>2. call' = [call EXCEPT !.prepared = rest, !.written = 0, !.emitted = TRUE, !.step = step]
      BY <2>4 DEF step
    <3>3. call' = [op |-> "add_directory_all", step |-> step, batch |-> call.batch,
                   prepared |-> rest, written |-> 0, emitted |-> TRUE, failure |-> call.failure]
      BY <2>1, <3>2 DEF TreeCalls
    <3>4. call.batch \in Seq(EntryType) /\ call.failure \in Failures
      BY <2>1 DEF TreeCalls
    <3>5. call' \in TreeCalls
      BY <2>2, <3>1, <3>3, <3>4 DEF TreeCalls
    <3>. QED  BY <3>3, <3>5 DEF step
  <2>6. HookInv'
    BY <2>3, <2>5 DEF HookInv, InHook, Written
  <2>7. StageInv'
    BY <1>2, <2>1, <2>3, <2>4, <2>5 DEF BuilderInv, StageInv, Written, Idle
  <2>. QED  BY <1>3, <2>5, <2>6, <2>7 DEF BuilderInv, CallType
<1>. QED  BY <1>4, <1>5

LEMMA HookKeeps ==
  ASSUME BuilderInv, Hook
  PROVE  BuilderInv'
<1>1. InHook /\ (HalfWritten \/ (Written = 0 /\ CleanSink)) /\ sequence \in Int
  BY DEF Hook, BuilderInv, HookInv, StageInv
<1>2. Entry \in EntryType /\ Written \in Int
  BY <1>1, EntryTyped
<1>3. CASE /\ Collides(Entry)
           /\ HookFailed(Recoverable("PathCollision"))
           /\ UNCHANGED outputVars
  <2>1. CleanSink /\ UNCHANGED entries
    BY <1>1, <1>3 DEF HalfWritten, HookFailed, Winds
  <2>2. CleanSink'
    BY <1>3, <2>1 DEF CleanSink, outputVars
  <2>3. Recoverable("PathCollision") \in Failures
    BY DEF Recoverable, Failures
  <2>. QED  BY <1>1, <1>3, <2>2, <2>3, HookFailedKeeps DEF outputVars
<1>4. ASSUME Writing,
             NEW failure \in {Recoverable("Encoder"), Poisoning("Encoder"),
                              Recoverable("SourceRead"), Poisoning("SourceRead")},
             HookFails(failure), HookFailed(failure), UNCHANGED <<marker, sequence>>
      PROVE  BuilderInv'
  <2>1. failure \in Failures
    <3>1. \A error \in {"Encoder", "SourceRead"} :
            Recoverable(error) \in Failures /\ Poisoning(error) \in Failures
      BY DEF Recoverable, Poisoning, Failures
    <3>. QED  BY <3>1
  <2>2. failure.poisons \/ (Written = 0 /\ UNCHANGED sink)
    BY <1>4 DEF HookFails, Recoverable, Poisoning
  <2>3. Written = 0 => CleanSink
    BY <1>1 DEF HalfWritten
  <2>4. UNCHANGED entries
    BY <1>4 DEF HookFailed, Winds
  <2>5. failure.poisons \/ CleanSink'
    BY <1>4, <2>2, <2>3, <2>4 DEF CleanSink
  <2>. QED  BY <1>1, <1>4, <2>1, <2>5, HookFailedKeeps
<1>5. ASSUME Writing, WritesTo(NextWrite(Entry, Written)),
             IF NextWrite(Entry, Written) = Due(Entry) THEN HookReturns
             ELSE HookGoesOn(NextWrite(Entry, Written)),
             sequence' = IF Written = 0 THEN sequence + 1 ELSE sequence
      PROVE  BuilderInv'
  <2>1. Written >= 0
    BY <1>1, <1>2 DEF HalfWritten
  <2>2. /\ NextWrite(Entry, Written) \in Int
        /\ NextWrite(Entry, Written) > 0 \/ NextWrite(Entry, Written) = Due(Entry)
    BY <1>2, <2>1, NextWriteGoesOn
  <2>3. CASE NextWrite(Entry, Written) = Due(Entry)
    <3>1. HookReturns /\ WritesTo(Due(Entry)) /\ entries' = Committed(Entry)
      BY <1>5, <2>3 DEF HookReturns
    <3>. QED  BY <1>1, <1>5, <3>1, WholeMemberJoins, HookReturnsKeeps
  <2>4. CASE NextWrite(Entry, Written) # Due(Entry)
    BY <1>5, <2>2, <2>4, HookGoesOnKeeps
  <2>. QED  BY <2>3, <2>4
<1>. QED  BY <1>3, <1>4, <1>5 DEF Hook

LEMMA ReceiveBatchKeeps ==
  ASSUME BuilderInv, ReceiveBatch
  PROVE  BuilderInv'
<1>1. call \in TreeCalls /\ call.op = "add_directory_all" /\ call.step = "receive"
      /\ UNCHANGED outputVars
  <2>1. call.op = "add_directory_all" /\ call.step = "receive" /\ UNCHANGED outputVars
    BY DEF ReceiveBatch
  <2>2. call \in TreeCalls
    BY <2>1, TreeCallsOnly
  <2>. QED  BY <2>1, <2>2
<1>2. CleanSink /\ Written = 0 /\ poisoned /\ sequence \in Int /\ poisoned \in BOOLEAN
  BY <1>1 DEF BuilderInv, StageInv
<1>3. CASE \E batch \in {channel[i] : i \in 1..Len(channel)} :
             /\ Receive(batch)
             /\ call' = [call EXCEPT !.step = "prepare", !.batch = batch]
             /\ UNCHANGED <<entries, poisoned, out>>
  <2>1. PICK batch \in {channel[i] : i \in 1..Len(channel)} :
             /\ Receive(batch)
             /\ call' = [call EXCEPT !.step = "prepare", !.batch = batch]
             /\ UNCHANGED <<entries, poisoned, out>>
    BY <1>3
  <2>2. channel \in Seq(Seq(EntryType))
    BY DEF BuilderInv, TraversalType
  <2>3. batch \in Seq(EntryType)
    BY <2>2
  <2>4. TraversalType'
    <3>1. channel # <<>> /\ channel' = Tail(channel) /\ UNCHANGED producer
      BY <2>1 DEF Receive
    <3>. QED  BY <2>2, <3>1 DEF BuilderInv, TraversalType
  <2>5. /\ call' \in TreeCalls /\ call'.op = "add_directory_all" /\ call'.step = "prepare"
        /\ call'.written = call.written
    BY <1>1, <2>1, <2>3 DEF TreeCalls
  <2>6. CleanSink'
    BY <1>1, <1>2, <2>1 DEF CleanSink, outputVars
  <2>7. HookInv'
    BY <2>5 DEF HookInv, InHook
  <2>8. StageInv'
    BY <1>1, <1>2, <2>1, <2>5, <2>6 DEF StageInv, outputVars, Written, Idle
  <2>. QED  BY <2>4, <2>5, <2>7, <2>8 DEF BuilderInv, CallType
<1>4. CASE Winds(NoFailure)
  <2>1. CleanSink' /\ sequence' \in Int
    BY <1>1, <1>2, <1>4 DEF CleanSink, outputVars, Winds
  <2>2. NoFailure \in Failures
    BY DEF NoFailure, Failures
  <2>. QED  BY <1>1, <1>4, <2>1, <2>2, WindsKeeps
<1>. QED  BY <1>3, <1>4 DEF ReceiveBatch

LEMMA PrepareKeeps ==
  ASSUME BuilderInv, Prepare
  PROVE  BuilderInv'
<1>1. call.op = "add_directory_all" /\ call.step = "prepare" /\ UNCHANGED outputVars
  BY DEF Prepare
<1>2. call \in TreeCalls
  BY <1>1, TreeCallsOnly
<1>3. CleanSink /\ Written = 0 /\ poisoned /\ sequence \in Int /\ poisoned \in BOOLEAN
  BY <1>1 DEF BuilderInv, StageInv
<1>4. CASE \E n \in 1..Len(call.batch) :
             /\ call' = [call EXCEPT !.step = "hook",
                                     !.prepared = SubSeq(call.batch, 1, n),
                                     !.batch = RemainingEntries(@, n)]
             /\ UNCHANGED <<entries, poisoned, out, traversalVars>>
  <2>1. PICK n \in 1..Len(call.batch) :
             /\ call' = [call EXCEPT !.step = "hook",
                                     !.prepared = SubSeq(call.batch, 1, n),
                                     !.batch = RemainingEntries(@, n)]
             /\ UNCHANGED <<entries, poisoned, out, traversalVars>>
    BY <1>4
  <2>. DEFINE group == SubSeq(call.batch, 1, n)
              others == RemainingEntries(call.batch, n)
  <2>2. call.batch \in Seq(EntryType) /\ Len(call.batch) \in Nat
    BY <1>2 DEF TreeCalls
  <2>3. group \in Seq(EntryType) /\ Len(group) = n /\ group # <<>>
    <3>1. group \in Seq(EntryType) /\ Len(group) = n /\ n > 0
      BY <2>2
    <3>. QED  BY <3>1, EmptySeq
  <2>4. others \in Seq(EntryType)
    BY <2>2 DEF RemainingEntries
  <2>5. call' = [call EXCEPT !.step = "hook", !.prepared = group, !.batch = others]
    BY <1>2, <2>1 DEF TreeCalls
  <2>. HIDE DEF group, others
  <2>6. /\ call' \in TreeCalls /\ call'.op = "add_directory_all" /\ call'.step = "hook"
        /\ call'.written = call.written /\ call'.prepared = group
    BY <1>2, <2>3, <2>4, <2>5 DEF TreeCalls
  <2>7. CleanSink'
    BY <1>1, <1>3, <2>1 DEF CleanSink, outputVars
  <2>8. HookInv'
    BY <1>3, <2>3, <2>6, <2>7 DEF HookInv, Written
  <2>9. StageInv'
    BY <1>1, <1>3, <2>1, <2>6 DEF StageInv, outputVars, Idle
  <2>10. TraversalType'
    BY <2>1 DEF BuilderInv, TraversalType, traversalVars
  <2>. QED  BY <2>6, <2>8, <2>9, <2>10 DEF BuilderInv, CallType
<1>5. CASE Winds(Recoverable("Filesystem"))
  <2>1. CleanSink' /\ sequence' \in Int
    BY <1>1, <1>3, <1>5 DEF CleanSink, outputVars, Winds
  <2>2. Recoverable("Filesystem") \in Failures
    BY DEF Recoverable, Failures
  <2>. QED  BY <1>2, <1>5, <2>1, <2>2, WindsKeeps
<1>. QED  BY <1>4, <1>5 DEF Prepare

(* A builder is usable again only when nothing of the addition went out.   *)
LEMMA JoinTraversalKeeps ==
  ASSUME BuilderInv, JoinTraversal
  PROVE  BuilderInv'
<1>. DEFINE failure == IF call.failure = NoFailure /\ producer.failed
                       THEN Recoverable("Traversal") ELSE call.failure
<1>1. /\ call.op = "add_directory_all" /\ call.step = "finish"
      /\ poisoned' = (failure # NoFailure /\ Breaks(call.emitted, failure))
      /\ call' = Idle /\ UNCHANGED <<outputVars, entries, traversalVars>>
  BY DEF JoinTraversal, Returns
<1>2. call.failure.poisons \/ CleanSink
  BY <1>1 DEF BuilderInv, StageInv
<1>3. call.failure.poisons => poisoned'
  <2>1. call.failure.poisons => call.failure # NoFailure
    BY DEF NoFailure
  <2>2. call.failure.poisons => failure = call.failure
    BY <2>1
  <2>. QED  BY <1>1, <2>1, <2>2 DEF Breaks
<1>4. CleanSink => CleanSink'
  BY <1>1 DEF CleanSink, outputVars
<1>5. poisoned' \in BOOLEAN
  BY <1>1
<1>6. CallType' /\ HookInv' /\ TraversalType'
  BY <1>1 DEF BuilderInv, CallType, HookInv, InHook, TraversalType, traversalVars, Idle
<1>7. StageInv'
  BY <1>1, <1>2, <1>3, <1>4, <1>5 DEF BuilderInv, StageInv, outputVars, Idle
<1>. QED  BY <1>6, <1>7 DEF BuilderInv

LEMMA CancelCallKeeps ==
  ASSUME BuilderInv, CancelCall
  PROVE  BuilderInv'
<1>1. /\ call.op \in {"add", "add_directory_all"} /\ call' = Idle
      /\ channel' = <<>> /\ UNCHANGED <<producer, sequence, entries, poisoned>>
  BY DEF CancelCall, DropReceiver
<1>2. poisoned' /\ poisoned' \in BOOLEAN /\ sequence' \in Int
  BY <1>1 DEF BuilderInv, StageInv
<1>3. CallType' /\ HookInv' /\ TraversalType'
  BY <1>1 DEF BuilderInv, CallType, HookInv, InHook, TraversalType, Idle
<1>4. StageInv'
  BY <1>1, <1>2 DEF StageInv, Idle
<1>. QED  BY <1>3, <1>4 DEF BuilderInv

(* The task beside the call changes nothing but the channel.               *)
LEMMA ProducingKeeps ==
  ASSUME BuilderInv, Producing
  PROVE  BuilderInv'
<1>1. UNCHANGED <<outputVars, entries, poisoned, call>> /\ Produce
  BY DEF Producing
<1>2. CallType' /\ HookInv' /\ StageInv'
  BY <1>1 DEF BuilderInv, CallType, HookInv, StageInv, HalfWritten, CleanSink, InHook, Written,
              Entry, Collides, outputVars
<1>3. /\ producer.walk \in Seq(EntryType) /\ producer.batch \in Seq(EntryType)
      /\ channel \in Seq(Seq(EntryType)) /\ <<>> \in Seq(EntryType)
      /\ producer \in [status : {"none", "walking", "sending", "stopped"}, walk : Seq(EntryType),
                       batch : Seq(EntryType), failed : BOOLEAN]
  BY DEF BuilderInv, TraversalType
<1>4. CASE NextBatch
  <2>. DEFINE first == SubSeq(producer.walk, 1, BatchLength)
              rest == SubSeq(producer.walk, BatchLength + 1, Len(producer.walk))
  <2>1. BatchLength \in Nat /\ BatchLength <= Len(producer.walk) /\ Len(producer.walk) \in Nat
    BY <1>3, TraversalAssumption DEF BatchLength
  <2>2. first \in Seq(EntryType) /\ rest \in Seq(EntryType)
    BY <1>3, <2>1
  <2>3. \/ producer' = [producer EXCEPT !.status = "stopped"]
        \/ producer' = [producer EXCEPT !.status = "sending", !.batch = first, !.walk = rest]
    BY <1>3, <1>4 DEF NextBatch
  <2>. HIDE DEF first, rest
  <2>. QED  BY <1>2, <1>3, <1>4, <2>2, <2>3 DEF NextBatch, BuilderInv, TraversalType
<1>5. CASE WalkFails
  BY <1>2, <1>3, <1>5 DEF WalkFails, BuilderInv, TraversalType
<1>6. CASE Send
  <2>1. producer' = [producer EXCEPT !.status = "walking", !.batch = <<>>]
        /\ channel' = Append(channel, producer.batch)
    BY <1>6 DEF Send
  <2>2. channel' \in Seq(Seq(EntryType))
    BY <1>3, <2>1
  <2>3. TraversalType'
    BY <1>3, <2>1, <2>2 DEF TraversalType
  <2>. QED  BY <1>2, <2>3 DEF BuilderInv
<1>7. CASE SendFails
  <2>1. producer' = [producer EXCEPT !.status = "stopped", !.batch = <<>>] /\ channel' = channel
    BY <1>7 DEF SendFails
  <2>2. TraversalType'
    BY <1>3, <2>1 DEF TraversalType
  <2>. QED  BY <1>2, <2>2 DEF BuilderInv
<1>. QED  BY <1>1, <1>4, <1>5, <1>6, <1>7 DEF Produce

LEMMA BuilderInitInv == BuilderClientInit => BuilderInv
<1>. SUFFICES ASSUME BuilderClientInit PROVE BuilderInv
  OBVIOUS
<1>1. /\ sink = <<>> /\ sequence = 0 /\ entries = <<>> /\ poisoned = FALSE /\ call = Idle
      /\ producer = NoProducer /\ channel = <<>>
  BY DEF BuilderClientInit, BuilderInit, TraversalInit
<1>2. TraversalType
  <2>1. <<>> \in Seq(EntryType) /\ <<>> \in Seq(Seq(EntryType))
    OBVIOUS
  <2>. QED  BY <1>1, <2>1 DEF TraversalType, NoProducer
<1>3. entries = Reserved(sink)
  <2>1. DOMAIN Reserved(sink) = {}
    <3>1. PathsOf(sink) = {}
      BY <1>1 DEF PathsOf
    <3>. QED  BY <3>1, ReservedDomain
  <2>2. Reserved(sink) = [node \in {} |-> Reserved(sink)[node]]
    BY <2>1 DEF Reserved
  <2>3. entries = [node \in {} |-> Reserved(sink)[node]]
    BY <1>1
  <2>. QED  BY <2>2, <2>3
<1>4. CleanSink
  BY <1>1, <1>3 DEF CleanSink, CleanLog, Rows
<1>5. HookInv /\ CallType
  BY <1>1 DEF HookInv, InHook, CallType, Idle
<1>6. StageInv
  <2>1. call.op = "idle" /\ sequence \in Int
    BY <1>1 DEF Idle
  <2>2. poisoned \in BOOLEAN
    BY <1>1, Zenon
  <2>. QED  BY <1>4, <2>1, <2>2 DEF StageInv
<1>. QED  BY <1>2, <1>5, <1>6 DEF BuilderInv

LEMMA BuilderNextInv == BuilderInv /\ [BuilderClientNext]_builderClientVars => BuilderInv'
<1>. SUFFICES ASSUME BuilderInv, [BuilderClientNext]_builderClientVars PROVE BuilderInv'
  OBVIOUS
<1>1. CASE UNCHANGED builderClientVars
  BY <1>1, UntouchedKeeps DEF builderClientVars, builderVars
<1>2. CASE \E entry \in Entries : Add(entry)
  BY <1>2, AddKeeps
<1>3. CASE \E tree \in Trees : AddDirectoryAll(tree)
  BY <1>3, AddDirectoryAllKeeps
<1>4. CASE Finish \/ CancelFinish
  BY <1>4, FinishKeeps
<1>5. CASE Proceed
  BY <1>5, HookKeeps, ReceiveBatchKeeps, PrepareKeeps, JoinTraversalKeeps, FinishKeeps DEF Proceed
<1>6. CASE CancelCall \/ Producing
  BY <1>6, CancelCallKeeps, ProducingKeeps
<1>. QED  BY <1>1, <1>2, <1>3, <1>4, <1>5, <1>6 DEF BuilderClientNext

(* However calls fail, are refused or dropped, a builder that is not       *)
(* poisoned has whole, numbered members in its output, and has reserved    *)
(* what they imply and nothing else.                                       *)
THEOREM OutputStaysClean == BuilderClientSpec => []CleanOutput
<1>1. BuilderInv => CleanOutput
  <2>. SUFFICES ASSUME BuilderInv, call.op = "idle", ~poisoned PROVE CleanOutput
    BY DEF CleanOutput
  <2>1. call = Idle
    BY DEF BuilderInv, CallType, Gone, AddCalls, TreeCalls
  <2>2. CleanSink
    BY <2>1, IdleBuilder
  <2>. QED  BY <2>2 DEF CleanSink, CleanLog, Rows, CleanOutput
<1>. QED  BY BuilderInitInv, BuilderNextInv, <1>1, PTL DEF BuilderClientSpec
-----------------------------------------------------------------------------
(* What an addition has come to.  Besides the state of the builder it      *)
(* speaks of what the call was asked to add and what it found.             *)

(* s is what was asked for after the first n entries.                      *)
Stretch(s, n) ==
  /\ n + Len(s) <= Len(asked)
  /\ \A i \in 1..Len(s) : s[i] = asked[n + i]

(* Members of this call that are in the output, whole.                     *)
Done == Len(sink) - Len(before.sink) - (IF Written > 0 THEN 1 ELSE 0)

Extended(s) ==
  /\ Len(before.sink) <= Len(s)
  /\ \A i \in 1..Len(before.sink) : s[i] = before.sink[i]

(* The output is what the call found, and then the first of what it was    *)
(* asked for.                                                              *)
InOrder ==
  /\ Extended(sink)
  /\ Done \in 0..Len(asked)
  /\ \A i \in 1..Done : Described(sink[Len(before.sink) + i]) = Described(asked[i])

(* What is not written yet is in the hands of the call, in the channel or  *)
(* with the producer, in order; where the walk failed, its end is lost.    *)
Queued(n, m) ==
  \E cut \in [0..Len(channel) -> 0..Len(asked)] :
    /\ cut[0] = n /\ cut[Len(channel)] = m
    /\ \A i \in 1..Len(channel) :
         Stretch(channel[i], cut[i - 1]) /\ cut[i] = cut[i - 1] + Len(channel[i])

Walked(m) ==
  /\ Stretch(producer.batch, m)
  /\ ~producer.failed => /\ Stretch(producer.walk, m + Len(producer.batch))
                         /\ m + Len(producer.batch) + Len(producer.walk) = Len(asked)

Pipeline ==
  /\ Stretch(call.prepared, Done)
  /\ Stretch(call.batch, Done + Len(call.prepared))
  /\ \E m \in 0..Len(asked) :
       Queued(Done + Len(call.prepared) + Len(call.batch), m) /\ Walked(m)
  /\ receiving
  /\ producer.status \in {"walking", "stopped"} => producer.batch = <<>>
  /\ producer.status = "stopped" => producer.walk = <<>>
  /\ producer.failed => producer.status = "stopped"
  /\ call.step = "receive" => call.prepared = <<>> /\ call.batch = <<>>
  /\ call.step = "prepare" => call.prepared = <<>>

Base ==
  /\ before.sink \in Seq(MemberType) /\ Rows(before.sink)
  /\ before.entries = Reserved(before.sink)
  /\ asked \in Seq(EntryType)

AdditionInv ==
  /\ call.op \in {"add", "add_directory_all"} => Base
  /\ call.op = "add" => InOrder /\ Done = 0 /\ Len(asked) = 1 /\ Stretch(call.prepared, 0)
                        /\ Len(call.prepared) = 1
  /\ call.op = "add_directory_all" /\ call.step # "finish" =>
       InOrder /\ call.emitted = (Done > 0) /\ Pipeline
  /\ call.op = "add_directory_all" /\ call.step = "finish" /\ ~call.failure.poisons =>
       /\ InOrder /\ call.emitted = (Done > 0) /\ Written = 0
       /\ call.failure = NoFailure => /\ producer.status = "stopped"
                                      /\ ~producer.failed => Done = Len(asked)
  /\ marker = "complete" => call = Gone

LEMMA StretchTail ==
  ASSUME NEW s \in Seq(EntryType), s # <<>>, NEW n \in Nat, Stretch(s, n), asked \in Seq(EntryType)
  PROVE  /\ Stretch(Tail(s), n + 1) /\ Len(Tail(s)) = Len(s) - 1
         /\ Head(s) = asked[n + 1] /\ n + 1 <= Len(asked)
<1>1. Len(s) \in Nat /\ Len(s) # 0 /\ Len(asked) \in Nat /\ Head(s) = s[1]
  BY EmptySeq
<1>2. Len(Tail(s)) = Len(s) - 1 /\ \A i \in 1..Len(Tail(s)) : Tail(s)[i] = s[i + 1]
  BY <1>1
<1>3. ASSUME NEW i \in 1..Len(Tail(s)) PROVE Tail(s)[i] = asked[n + 1 + i]
  <2>1. i + 1 \in 1..Len(s) /\ n + (i + 1) = n + 1 + i
    BY <1>1, <1>2
  <2>. QED  BY <1>2, <2>1 DEF Stretch
<1>4. s[1] = asked[n + 1]
  BY <1>1 DEF Stretch
<1>. QED  BY <1>1, <1>2, <1>3, <1>4 DEF Stretch

LEMMA StretchParts ==
  ASSUME NEW s \in Seq(EntryType), NEW n \in Nat, Stretch(s, n), NEW k \in 0..Len(s),
         asked \in Seq(EntryType)
  PROVE  /\ Stretch(SubSeq(s, 1, k), n) /\ Len(SubSeq(s, 1, k)) = k
         /\ Stretch(SubSeq(s, k + 1, Len(s)), n + k)
         /\ Len(SubSeq(s, k + 1, Len(s))) = Len(s) - k
<1>1. Len(s) \in Nat /\ Len(asked) \in Nat /\ k \in Nat /\ k <= Len(s)
  OBVIOUS
<1>. DEFINE a == SubSeq(s, 1, k)
            b == SubSeq(s, k + 1, Len(s))
<1>2. Len(a) = k /\ \A i \in 1..k : a[i] = s[i]
  BY <1>1
<1>3. Len(b) = Len(s) - k /\ \A i \in 1..(Len(s) - k) : b[i] = s[k + i]
  BY <1>1
<1>. HIDE DEF a, b
<1>4. Stretch(a, n)
  <2>1. n + k <= Len(asked)
    BY <1>1 DEF Stretch
  <2>2. \A i \in 1..k : i \in 1..Len(s)
    BY <1>1
  <2>3. \A i \in 1..k : a[i] = asked[n + i]
    BY <1>2, <2>2 DEF Stretch
  <2>. QED  BY <1>2, <2>1, <2>3 DEF Stretch
<1>5. ASSUME NEW i \in 1..Len(b) PROVE b[i] = asked[n + k + i]
  <2>1. k + i \in 1..Len(s) /\ n + (k + i) = n + k + i
    BY <1>1, <1>3
  <2>. QED  BY <1>3, <2>1 DEF Stretch
<1>6. Stretch(b, n + k)
  BY <1>1, <1>3, <1>5 DEF Stretch
<1>. QED  BY <1>2, <1>3, <1>4, <1>6 DEF a, b

(* A call begins: the output is what it is to extend, by the whole of what *)
(* it is asked for.                                                        *)
LEMMA BeginsInOrder ==
  ASSUME CleanSink, UNCHANGED <<sink, entries>>, call'.written = 0,
         NEW list \in Seq(EntryType), asked' = list,
         before' = [sink |-> sink, entries |-> entries]
  PROVE  InOrder' /\ Done' = 0 /\ Base'
<1>1. sink \in Seq(MemberType) /\ Rows(sink) /\ entries = Reserved(sink) /\ Len(sink) \in Nat
  BY DEF CleanSink, CleanLog
<1>2. Base'
  BY <1>1 DEF Base
<1>3. Done' = 0
  BY <1>1 DEF Done, Written
<1>4. Extended(sink)'
  BY <1>1 DEF Extended
<1>5. Len(list) \in Nat /\ 0 \in 0..Len(list)
  OBVIOUS
<1>. QED  BY <1>2, <1>3, <1>4, <1>5 DEF InOrder

LEMMA NoAdditionInv ==
  ASSUME AdditionInv, call' = Idle \/ call' = Gone \/ call'.op = "finish",
         marker' = "complete" => call' = Gone
  PROVE  AdditionInv'
<1>1. call'.op \notin {"add", "add_directory_all"}
  BY DEF Idle, Gone
<1>. QED  BY <1>1 DEF AdditionInv

LEMMA AddBeginsAddition ==
  ASSUME BuilderInv, AdditionInv, NEW entry \in Entries, Add(entry), Remembers(<<entry>>)
  PROVE  AdditionInv'
<1>1. call = Idle /\ UNCHANGED outputVars /\ marker # "complete"
  BY DEF Add, AdditionInv, Idle, Gone, Refuse
<1>2. CASE \E error \in {"Poisoned", "NameRejected", "PathCollision", "FilePayloadAlreadyRead"} :
             Refuse(error)
  <2>1. call' = Idle /\ marker' # "complete"
    BY <1>1, <1>2 DEF Refuse, Returns, outputVars
  <2>. QED  BY <2>1, NoAdditionInv
<1>3. CASE /\ ~poisoned /\ ~Collides(entry)
           /\ poisoned' = TRUE
           /\ \E reader \in IF Regular(entry) THEN BOOLEAN ELSE {FALSE} :
                call' = [op |-> "add", step |-> "hook", prepared |-> <<entry>>, written |-> 0,
                         reader |-> reader]
           /\ out' = Pending
           /\ UNCHANGED <<outputVars, entries, traversalVars>>
  <2>1. PICK reader \in BOOLEAN :
          call' = [op |-> "add", step |-> "hook", prepared |-> <<entry>>, written |-> 0,
                   reader |-> reader]
    BY <1>3
  <2>2. call'.op = "add" /\ call'.prepared = <<entry>> /\ call'.written = 0
    BY <2>1
  <2>3. asked' = <<entry>> /\ before' = [sink |-> sink, entries |-> entries]
    <3>1. Begins
      BY <1>1, <2>2 DEF Begins, Idle, Gone
    <3>. QED  BY <3>1 DEF Remembers
  <2>4. <<entry>> \in Seq(EntryType) /\ Len(<<entry>>) = 1
    BY BuilderAssumption
  <2>5. CleanSink
    BY <1>1, <1>3, IdleBuilder
  <2>6. InOrder' /\ Done' = 0 /\ Base'
    BY <1>3, <2>2, <2>3, <2>4, <2>5, BeginsInOrder DEF outputVars
  <2>7. Stretch(call.prepared, 0)' /\ Len(asked') = 1 /\ Len(call'.prepared) = 1
    BY <2>2, <2>3, <2>4 DEF Stretch
  <2>8. marker' # "complete"
    BY <1>1 DEF outputVars
  <2>. QED  BY <2>2, <2>6, <2>7, <2>8 DEF AdditionInv
<1>. QED  BY <1>2, <1>3 DEF Add

LEMMA AddDirectoryAllBeginsAddition ==
  ASSUME BuilderInv, AdditionInv, NEW tree \in Trees, AddDirectoryAll(tree), Remembers(tree)
  PROVE  AdditionInv'
<1>1. call = Idle /\ UNCHANGED outputVars /\ marker # "complete"
  BY DEF AddDirectoryAll, AdditionInv, Idle, Gone, Refuse
<1>2. CASE \E error \in {"Poisoned", "Traversal"} : Refuse(error)
  <2>1. call' = Idle /\ marker' # "complete"
    BY <1>1, <1>2 DEF Refuse, Returns, outputVars
  <2>. QED  BY <2>1, NoAdditionInv
<1>3. CASE /\ ~poisoned
           /\ poisoned' = TRUE
           /\ Spawn(tree)
           /\ call' = [op |-> "add_directory_all", step |-> "receive", batch |-> <<>>,
                       prepared |-> <<>>, written |-> 0, emitted |-> FALSE,
                       failure |-> NoFailure]
           /\ out' = Pending
           /\ UNCHANGED <<outputVars, entries>>
  <2>1. /\ call'.op = "add_directory_all" /\ call'.step = "receive" /\ call'.prepared = <<>>
        /\ call'.batch = <<>> /\ call'.written = 0 /\ call'.emitted = FALSE
    BY <1>3, Zenon
  <2>2. /\ producer' = [status |-> "walking", walk |-> tree, batch |-> <<>>, failed |-> FALSE]
        /\ channel' = <<>> /\ receiving' = TRUE
    BY <1>3 DEF Spawn, NoProducer
  <2>3. asked' = tree /\ before' = [sink |-> sink, entries |-> entries]
    <3>1. Begins
      BY <1>1, <2>1 DEF Begins, Idle, Gone
    <3>. QED  BY <3>1 DEF Remembers
  <2>4. tree \in Seq(EntryType) /\ Len(tree) \in Nat /\ Len(<<>>) = 0
    BY BuilderAssumption
  <2>5. CleanSink
    BY <1>1, <1>3, IdleBuilder
  <2>6. InOrder' /\ Done' = 0 /\ Base'
    BY <1>3, <2>1, <2>3, <2>4, <2>5, BeginsInOrder DEF outputVars
  <2>7. Pipeline'
    <3>1. Stretch(call.prepared, Done)' /\ Stretch(call.batch, Done + Len(call.prepared))'
      BY <2>1, <2>3, <2>4, <2>6 DEF Stretch
    <3>2. Queued(0, 0)'
      <4>. DEFINE cut == [i \in 0..0 |-> 0]
      <4>1. cut \in [0..Len(channel') -> 0..Len(asked')] /\ cut[0] = 0 /\ cut[Len(channel')] = 0
            /\ 1..Len(channel') = {}
        BY <2>2, <2>3, <2>4
      <4>. QED  BY <4>1 DEF Queued
    <3>3. Walked(0)'
      BY <2>2, <2>3, <2>4 DEF Walked, Stretch
    <3>4. (Done + Len(call.prepared) + Len(call.batch))' = 0
      BY <2>1, <2>4, <2>6
    <3>5. (\E m \in 0..Len(asked) :
             Queued(Done + Len(call.prepared) + Len(call.batch), m) /\ Walked(m))'
      <4>1. 0 \in 0..Len(asked')
        BY <2>3, <2>4
      <4>. QED  BY <3>2, <3>3, <3>4, <4>1
    <3>6. /\ receiving'
          /\ producer'.status \in {"walking", "stopped"} => producer'.batch = <<>>
          /\ producer'.status = "stopped" => producer'.walk = <<>>
          /\ producer'.failed => producer'.status = "stopped"
      <4>1. receiving' /\ producer'.failed = FALSE
        BY <2>2, Zenon
      <4>. QED  BY <2>2, <4>1
    <3>. QED  BY <2>1, <3>1, <3>5, <3>6 DEF Pipeline
  <2>8. marker' # "complete"
    BY <1>1 DEF outputVars
  <2>9. call'.emitted = (Done' > 0)
    <3>1. (Done' > 0) = FALSE
      BY <2>6
    <3>. QED  BY <2>1, <3>1, Zenon
  <2>. QED  BY <2>1, <2>6, <2>7, <2>8, <2>9 DEF AdditionInv
<1>. QED  BY <1>2, <1>3 DEF AddDirectoryAll

LEMMA OrderKept ==
  ASSUME InOrder, UNCHANGED <<sink, asked, before>>, call'.written = call.written
  PROVE  InOrder' /\ Done' = Done
<1>1. Done' = Done
  BY DEF Done, Written
<1>. QED  BY <1>1 DEF InOrder, Extended

LEMMA PipelineKept ==
  ASSUME Pipeline, UNCHANGED <<traversalVars, asked, before>>, Done' = Done,
         call'.step = call.step, call'.prepared = call.prepared, call'.batch = call.batch
  PROVE  Pipeline'
<1>1. UNCHANGED <<producer, channel, receiving>>
  BY DEF traversalVars
<1>2. ASSUME NEW m \in 0..Len(asked),
             Queued(Done + Len(call.prepared) + Len(call.batch), m), Walked(m)
      PROVE  (\E k \in 0..Len(asked) :
                Queued(Done + Len(call.prepared) + Len(call.batch), k) /\ Walked(k))'
  <2>1. Queued(Done + Len(call.prepared) + Len(call.batch), m)' /\ Walked(m)'
    BY <1>1, <1>2 DEF Queued, Walked, Stretch
  <2>. QED  BY <2>1
<1>. QED  BY <1>1, <1>2 DEF Pipeline, Stretch

(* The loop of a recursive addition ends, poisoned or between two members. *)
LEMMA WindsAddition ==
  ASSUME AdditionInv, call \in TreeCalls, call.step # "finish", NEW failure \in Failures,
         Winds(failure), UNCHANGED <<asked, before, marker>>,
         failure.poisons \/ (UNCHANGED sink /\ Written = 0),
         failure = NoFailure => /\ producer.status = "stopped"
                                /\ ~producer.failed => Done = Len(asked)
  PROVE  AdditionInv'
<1>1. call' = [call EXCEPT !.step = "finish", !.failure = failure] /\ UNCHANGED producer
  BY DEF Winds, DropReceiver
<1>2. /\ call'.op = "add_directory_all" /\ call'.step = "finish" /\ call'.failure = failure
      /\ call'.written = call.written /\ call'.emitted = call.emitted
  BY <1>1 DEF TreeCalls
<1>3. Base /\ InOrder /\ call.emitted = (Done > 0) /\ marker # "complete"
  BY DEF AdditionInv, TreeCalls, Gone
<1>4. Base'
  BY <1>3 DEF Base
<1>5. CASE failure.poisons
  BY <1>2, <1>3, <1>4, <1>5 DEF AdditionInv
<1>6. CASE UNCHANGED sink /\ Written = 0
  <2>1. InOrder' /\ Done' = Done
    BY <1>2, <1>3, <1>6, OrderKept
  <2>2. Written' = 0
    BY <1>2, <1>6 DEF Written
  <2>3. call'.emitted = (Done' > 0)
    BY <1>2, <1>3, <2>1
  <2>4. failure = NoFailure => /\ producer'.status = "stopped"
                               /\ ~producer'.failed => Done' = Len(asked')
    BY <1>1, <2>1
  <2>. HIDE DEF NoFailure
  <2>. QED  BY <1>2, <1>3, <1>4, <2>1, <2>2, <2>3, <2>4 DEF AdditionInv
<1>. QED  BY <1>5, <1>6

(* A write leaves what the output held, and begins or lengthens the member *)
(* behind it.                                                              *)
LEMMA WritesInOrder ==
  ASSUME BuilderInv, InOrder, Base, Writing, NEW n \in Int, WritesTo(n),
         sequence' = IF Written = 0 THEN sequence + 1 ELSE sequence, UNCHANGED <<asked, before>>
  PROVE  /\ Len(sink') = Len(before.sink) + Done + 1
         /\ Extended(sink')
         /\ \A i \in 1..Done : Described(sink'[Len(before.sink) + i]) = Described(asked[i])
         /\ Described(sink'[Len(before.sink) + Done + 1]) = Described(Entry)
<1>1. PICK s \in Seq(MemberType) :
        /\ sink' = Append(s, Begun(Entry, Len(s), n))
        /\ Len(sink) = Len(s) + (IF Written > 0 THEN 1 ELSE 0)
        /\ \A i \in 1..Len(s) : s[i] = sink[i]
  BY WritesBehindLog
<1>. DEFINE new == Begun(Entry, Len(s), n)
<1>2. Len(s) \in Nat /\ Len(before.sink) \in Nat /\ Done \in Nat
  BY DEF Base, InOrder
<1>3. Len(s) = Len(before.sink) + Done
  BY <1>1, <1>2 DEF Done
<1>4. Described(new) = Described(Entry)
  BY DEF Begun, Described
<1>. HIDE DEF new
<1>5. Len(sink') = Len(s) + 1 /\ sink'[Len(s) + 1] = new /\ \A i \in 1..Len(s) : sink'[i] = s[i]
  BY <1>1 DEF new
<1>6. \A i \in 1..Len(s) : sink'[i] = sink[i]
  BY <1>1, <1>5
<1>7. Extended(sink')
  <2>1. Len(before.sink) <= Len(sink') /\ \A i \in 1..Len(before.sink) : i \in 1..Len(s)
    BY <1>2, <1>3, <1>5
  <2>. QED  BY <1>6, <2>1 DEF InOrder, Extended
<1>8. ASSUME NEW i \in 1..Done
      PROVE  Described(sink'[Len(before.sink) + i]) = Described(asked[i])
  <2>1. Len(before.sink) + i \in 1..Len(s)
    BY <1>2, <1>3
  <2>. QED  BY <1>6, <2>1 DEF InOrder
<1>9. Len(before.sink) + Done + 1 = Len(s) + 1
  BY <1>3
<1>. QED  BY <1>2, <1>3, <1>4, <1>5, <1>7, <1>8, <1>9

LEMMA HookGoesOnInOrder ==
  ASSUME BuilderInv, AdditionInv, Writing, NEW n \in Int, n > 0, WritesTo(n), HookGoesOn(n),
         sequence' = IF Written = 0 THEN sequence + 1 ELSE sequence,
         UNCHANGED <<asked, before, marker>>
  PROVE  AdditionInv'
<1>1. InHook /\ call \in AddCalls \cup TreeCalls
  BY EntryTyped DEF Writing
<1>2. call' = [call EXCEPT !.written = n] /\ UNCHANGED traversalVars
  BY DEF HookGoesOn
<1>3. /\ call'.op = call.op /\ call'.step = call.step /\ call'.prepared = call.prepared
      /\ call'.written = n /\ call.step = "hook" /\ call.op \in {"add", "add_directory_all"}
  BY <1>1, <1>2 DEF AddCalls, TreeCalls, InHook
<1>4. Base /\ InOrder /\ marker # "complete"
  BY <1>3 DEF AdditionInv, Gone
<1>5. Done \in Nat /\ Len(before.sink) \in Nat
  BY <1>4 DEF InOrder, Base
<1>6. /\ Len(sink') = Len(before.sink) + Done + 1
      /\ Extended(sink')
      /\ \A i \in 1..Done : Described(sink'[Len(before.sink) + i]) = Described(asked[i])
  BY <1>4, WritesInOrder
<1>7. Done' = Done
  BY <1>3, <1>5, <1>6 DEF Done, Written
<1>8. InOrder'
  BY <1>4, <1>6, <1>7 DEF InOrder, Extended
<1>9. Base'
  BY <1>4 DEF Base
<1>10. CASE call.op = "add"
  <2>1. Done' = 0 /\ Len(asked') = 1 /\ Stretch(call.prepared, 0)' /\ Len(call'.prepared) = 1
    BY <1>3, <1>7, <1>10 DEF AdditionInv, Stretch
  <2>. QED  BY <1>3, <1>4, <1>8, <1>9, <1>10, <2>1 DEF AdditionInv
<1>11. CASE call.op = "add_directory_all"
  <2>1. call'.batch = call.batch /\ call'.emitted = call.emitted
    BY <1>1, <1>2, <1>11 DEF AddCalls, TreeCalls
  <2>2. Pipeline /\ call.emitted = (Done > 0)
    BY <1>3, <1>11 DEF AdditionInv
  <2>3. Pipeline'
    BY <1>2, <1>3, <1>7, <2>1, <2>2, PipelineKept
  <2>4. call'.emitted = (Done' > 0)
    BY <1>7, <2>1, <2>2
  <2>. QED  BY <1>3, <1>4, <1>8, <1>9, <1>11, <2>3, <2>4 DEF AdditionInv
<1>. QED  BY <1>3, <1>10, <1>11

(* The next of what was asked for is in the output.                        *)
LEMMA HookReturnsInOrder ==
  ASSUME BuilderInv, AdditionInv, Writing, WritesTo(Due(Entry)), HookReturns,
         sequence' = IF Written = 0 THEN sequence + 1 ELSE sequence,
         UNCHANGED <<asked, before, marker>>
  PROVE  AdditionInv'
<1>1. InHook /\ call \in AddCalls \cup TreeCalls /\ Entry \in EntryType
      /\ call.prepared \in Seq(EntryType) /\ call.prepared # <<>>
  BY EntryTyped DEF Writing
<1>2. call.step = "hook" /\ call.op \in {"add", "add_directory_all"}
  BY <1>1 DEF InHook
<1>3. Base /\ InOrder /\ marker # "complete"
  BY <1>2 DEF AdditionInv, Gone
<1>4. CASE call.op = "add"
  <2>1. call' = Idle
    BY <1>4 DEF HookReturns, Returns
  <2>. QED  BY <1>3, <2>1, NoAdditionInv
<1>5. CASE call.op = "add_directory_all"
  <2>. DEFINE rest == Tail(call.prepared)
  <2>1. call \in TreeCalls
    BY <1>1, <1>5 DEF AddCalls
  <2>2. call' = [call EXCEPT !.prepared = rest, !.written = 0, !.emitted = TRUE,
                             !.step = AfterGroup(rest)] /\ UNCHANGED traversalVars
    BY <1>5 DEF HookReturns
  <2>3. Due(Entry) \in Int
    BY <1>1, DueIsNumber
  <2>4. Done \in Nat /\ Len(before.sink) \in Nat /\ Done <= Len(asked) /\ Len(asked) \in Nat
        /\ asked \in Seq(EntryType)
    BY <1>3 DEF InOrder, Base
  <2>5. /\ Len(sink') = Len(before.sink) + Done + 1
        /\ Extended(sink')
        /\ \A i \in 1..Done : Described(sink'[Len(before.sink) + i]) = Described(asked[i])
        /\ Described(sink'[Len(before.sink) + Done + 1]) = Described(Entry)
    BY <1>3, <2>3, WritesInOrder
  <2>6. Pipeline
    BY <1>2, <1>5 DEF AdditionInv
  <2>7. /\ Stretch(rest, Done + 1) /\ Len(rest) = Len(call.prepared) - 1
        /\ Entry = asked[Done + 1] /\ Done + 1 <= Len(asked)
    BY <1>1, <2>4, <2>6, StretchTail DEF Pipeline, Entry
  <2>8. AfterGroup(rest) \in {"hook", "prepare", "receive"}
        /\ (AfterGroup(rest) # "hook" => rest = <<>>)
        /\ (AfterGroup(rest) = "receive" => call.batch = <<>>)
    BY DEF AfterGroup
  <2>. HIDE DEF rest
  <2>9. /\ call'.op = "add_directory_all" /\ call'.step = AfterGroup(rest) /\ call'.prepared = rest
        /\ call'.batch = call.batch /\ call'.written = 0 /\ call'.emitted = TRUE
    <3>. DEFINE step == AfterGroup(rest)
    <3>. HIDE DEF step
    <3>1. call' = [call EXCEPT !.prepared = rest, !.written = 0, !.emitted = TRUE, !.step = step]
      BY <2>2 DEF step
    <3>2. call' = [op |-> "add_directory_all", step |-> step, batch |-> call.batch,
                   prepared |-> rest, written |-> 0, emitted |-> TRUE, failure |-> call.failure]
      BY <2>1, <3>1 DEF TreeCalls
    <3>3. call'.emitted = TRUE
      BY <3>2, Zenon
    <3>. QED  BY <3>2, <3>3 DEF step
  <2>10. Done' = Done + 1
    BY <2>4, <2>5, <2>9 DEF Done, Written
  <2>11. InOrder'
    <3>1. Done + 1 \in 0..Len(asked)
      BY <2>4, <2>7
    <3>2. \A i \in 1..(Done + 1) :
            Described(sink'[Len(before.sink) + i]) = Described(asked[i])
      <4>. TAKE i \in 1..(Done + 1)
      <4>1. CASE i \in 1..Done
        BY <2>5, <4>1
      <4>2. CASE i = Done + 1
        <5>1. \A a, b \in Nat : a + (b + 1) = a + b + 1
          OBVIOUS
        <5>2. Len(before.sink) + (Done + 1) = Len(before.sink) + Done + 1
          BY <2>4, <5>1, Zenon
        <5>. QED  BY <2>5, <2>7, <4>2, <5>2
      <4>. QED  BY <2>4, <4>1, <4>2
    <3>3. Extended(sink)'
      BY <2>5 DEF Extended
    <3>. QED  BY <2>10, <3>1, <3>2, <3>3 DEF InOrder
  <2>12. Pipeline'
    <3>. DEFINE at == Done + Len(call.prepared) + Len(call.batch)
    <3>1. call.prepared \in Seq(EntryType) /\ call.batch \in Seq(EntryType)
          /\ Len(call.prepared) \in Nat /\ Len(call.batch) \in Nat
      BY <1>1, <2>1 DEF TreeCalls
    <3>2. Done' + Len(rest) = Done + Len(call.prepared)
      <4>1. \A a, b \in Nat : (a + 1) + (b - 1) = a + b
        OBVIOUS
      <4>2. (Done + 1) + (Len(call.prepared) - 1) = Done + Len(call.prepared)
        BY <2>4, <3>1, <4>1, Zenon
      <4>. QED  BY <2>7, <2>10, <4>2, Zenon
    <3>3. Stretch(call.prepared, Done)' /\ Stretch(call.batch, Done + Len(call.prepared))'
      <4>1. Stretch(call.prepared, Done)'
        BY <2>7, <2>9, <2>10 DEF Stretch
      <4>2. Stretch(call.batch, Done + Len(call.prepared))
        BY <2>6 DEF Pipeline
      <4>3. (Done + Len(call.prepared))' = Done + Len(call.prepared)
        BY <2>9, <3>2
      <4>4. Stretch(call.batch, Done + Len(call.prepared))'
        BY <2>9, <4>2, <4>3 DEF Stretch
      <4>. QED  BY <4>1, <4>4
    <3>4. PICK m \in 0..Len(asked) : Queued(at, m) /\ Walked(m)
      BY <2>6 DEF Pipeline
    <3>5. Queued(at, m)' /\ Walked(m)' /\ at' = at
      <4>1. at' = at
        BY <2>9, <3>2
      <4>. HIDE DEF at
      <4>. QED  BY <2>2, <3>4, <4>1 DEF Queued, Walked, Stretch, traversalVars
    <3>. QED  BY <2>2, <2>6, <2>8, <2>9, <3>3, <3>5 DEF Pipeline, traversalVars
  <2>13. Base' /\ marker' # "complete"
    BY <1>3 DEF Base
  <2>14. call'.emitted = (Done' > 0) /\ call'.step # "finish"
    <3>1. (Done' > 0) = TRUE
      BY <2>4, <2>10
    <3>2. call'.step # "finish"
      BY <2>8, <2>9
    <3>. QED  BY <2>9, <3>1, <3>2, Zenon
  <2>. QED  BY <2>9, <2>11, <2>12, <2>13, <2>14 DEF AdditionInv
<1>. QED  BY <1>2, <1>4, <1>5

LEMMA HookInOrder ==
  ASSUME BuilderInv, AdditionInv, Hook, UNCHANGED <<asked, before>>
  PROVE  AdditionInv'
<1>1. InHook /\ call \in AddCalls \cup TreeCalls /\ (HalfWritten \/ Written = 0)
  BY EntryTyped DEF Hook, BuilderInv, HookInv
<1>2. call.step = "hook" /\ call.op \in {"add", "add_directory_all"} /\ marker # "complete"
  BY <1>1 DEF InHook, AdditionInv, Gone
<1>3. ASSUME UNCHANGED marker, NEW failure \in Failures, failure # NoFailure, HookFailed(failure),
             failure.poisons \/ (UNCHANGED sink /\ Written = 0)
      PROVE  AdditionInv'
  <2>1. CASE call.op = "add"
    <3>1. call' = Idle
      BY <1>3, <2>1 DEF HookFailed, Returns
    <3>. QED  BY <1>2, <1>3, <3>1, NoAdditionInv
  <2>2. CASE call.op = "add_directory_all"
    <3>1. Winds(failure) /\ call \in TreeCalls
      BY <1>1, <1>3, <2>2 DEF HookFailed, AddCalls
    <3>. QED  BY <1>2, <1>3, <3>1, WindsAddition
  <2>. QED  BY <1>2, <2>1, <2>2
<1>4. CASE /\ Collides(Entry)
           /\ HookFailed(Recoverable("PathCollision"))
           /\ UNCHANGED outputVars
  <2>1. Written = 0 /\ UNCHANGED <<sink, marker>>
    BY <1>1, <1>4 DEF HalfWritten, outputVars
  <2>2. Recoverable("PathCollision") \in Failures /\ Recoverable("PathCollision") # NoFailure
    BY DEF Recoverable, Failures, NoFailure
  <2>. QED  BY <1>3, <1>4, <2>1, <2>2
<1>5. ASSUME Writing,
             NEW failure \in {Recoverable("Encoder"), Poisoning("Encoder"),
                              Recoverable("SourceRead"), Poisoning("SourceRead")},
             HookFails(failure), HookFailed(failure), UNCHANGED <<marker, sequence>>
      PROVE  AdditionInv'
  <2>1. failure \in Failures /\ failure # NoFailure
    <3>1. \A error \in {"Encoder", "SourceRead"} :
            /\ Recoverable(error) \in Failures /\ Poisoning(error) \in Failures
            /\ Recoverable(error) # NoFailure /\ Poisoning(error) # NoFailure
      BY DEF Recoverable, Poisoning, Failures, NoFailure
    <3>. QED  BY <3>1
  <2>2. failure.poisons \/ (Written = 0 /\ UNCHANGED sink)
    BY <1>5 DEF HookFails, Recoverable, Poisoning
  <2>. QED  BY <1>3, <1>5, <2>1, <2>2
<1>6. ASSUME Writing, WritesTo(NextWrite(Entry, Written)),
             IF NextWrite(Entry, Written) = Due(Entry) THEN HookReturns
             ELSE HookGoesOn(NextWrite(Entry, Written)),
             sequence' = IF Written = 0 THEN sequence + 1 ELSE sequence, UNCHANGED marker
      PROVE  AdditionInv'
  <2>1. Entry \in EntryType /\ Written \in Int /\ Written >= 0
    BY <1>1, EntryTyped DEF HalfWritten
  <2>2. /\ NextWrite(Entry, Written) \in Int
        /\ NextWrite(Entry, Written) > 0 \/ NextWrite(Entry, Written) = Due(Entry)
    BY <2>1, NextWriteGoesOn
  <2>3. CASE NextWrite(Entry, Written) = Due(Entry)
    <3>1. HookReturns /\ WritesTo(Due(Entry))
      BY <1>6, <2>3
    <3>. QED  BY <1>6, <3>1, HookReturnsInOrder
  <2>4. CASE NextWrite(Entry, Written) # Due(Entry)
    BY <1>6, <2>2, <2>4, HookGoesOnInOrder
  <2>. QED  BY <2>3, <2>4
<1>. QED  BY <1>4, <1>5, <1>6 DEF Hook

(* The batch received is the next stretch.                                 *)
LEMMA QueueHead ==
  ASSUME NEW n \in 0..Len(asked), NEW m \in 0..Len(asked), Queued(n, m), asked \in Seq(EntryType),
         channel \in Seq(Seq(EntryType)), channel # <<>>, channel' = Tail(channel),
         UNCHANGED asked
  PROVE  /\ Stretch(Head(channel), n)
         /\ \E at \in 0..Len(asked) : at = n + Len(Head(channel)) /\ Queued(at, m)'
<1>1. PICK cut \in [0..Len(channel) -> 0..Len(asked)] :
        /\ cut[0] = n /\ cut[Len(channel)] = m
        /\ \A i \in 1..Len(channel) :
             Stretch(channel[i], cut[i - 1]) /\ cut[i] = cut[i - 1] + Len(channel[i])
  BY DEF Queued
<1>2. Len(channel) \in Nat /\ Len(channel) # 0 /\ Head(channel) = channel[1] /\ Len(asked) \in Nat
  BY EmptySeq
<1>3. 1 \in 1..Len(channel) /\ 1 \in 0..Len(channel) /\ 1 - 1 = 0
  BY <1>2
<1>4. Stretch(channel[1], n) /\ cut[1] = n + Len(channel[1]) /\ cut[1] \in 0..Len(asked)
  BY <1>1, <1>3
<1>. DEFINE rest == Tail(channel)
            later == [i \in 0..Len(rest) |-> cut[i + 1]]
<1>5. Len(rest) = Len(channel) - 1 /\ \A i \in 1..Len(rest) : rest[i] = channel[i + 1]
  BY <1>2
<1>6. later \in [0..Len(rest) -> 0..Len(asked)]
  <2>1. \A i \in 0..Len(rest) : i + 1 \in 0..Len(channel)
    BY <1>2, <1>5
  <2>. QED  BY <1>1, <2>1
<1>7. later[0] = cut[1] /\ later[Len(rest)] = m
  <2>1. 0 \in 0..Len(rest) /\ Len(rest) \in 0..Len(rest) /\ Len(rest) + 1 = Len(channel) /\ 0 + 1 = 1
    BY <1>2, <1>5
  <2>. QED  BY <1>1, <2>1
<1>8. ASSUME NEW i \in 1..Len(rest)
      PROVE  Stretch(rest[i], later[i - 1]) /\ later[i] = later[i - 1] + Len(rest[i])
  <2>1. i + 1 \in 1..Len(channel) /\ i \in 0..Len(rest) /\ i - 1 \in 0..Len(rest)
        /\ (i + 1) - 1 = i /\ (i - 1) + 1 = i
    BY <1>2, <1>5
  <2>2. Stretch(channel[i + 1], cut[i]) /\ cut[i + 1] = cut[i] + Len(channel[i + 1])
    BY <1>1, <2>1
  <2>3. later[i] = cut[i + 1] /\ later[i - 1] = cut[i]
    BY <2>1
  <2>. QED  BY <1>5, <2>2, <2>3
<1>9. PICK f \in [0..Len(rest) -> 0..Len(asked)] :
        /\ f[0] = cut[1] /\ f[Len(rest)] = m
        /\ \A i \in 1..Len(rest) :
             Stretch(rest[i], f[i - 1]) /\ f[i] = f[i - 1] + Len(rest[i])
  <2>. HIDE DEF later, rest
  <2>. QED  BY <1>6, <1>7, <1>8
<1>. HIDE DEF later
<1>10. PICK at : at = cut[1]
  OBVIOUS
<1>11. Queued(at, m)'
  <2>1. channel' = rest /\ asked' = asked
    OBVIOUS
  <2>2. \A i \in 1..Len(channel') : /\ f[i - 1] + Len(channel'[i]) <= Len(asked')
                                    /\ \A j \in 1..Len(channel'[i]) :
                                         channel'[i][j] = asked'[f[i - 1] + j]
    BY SMTT(30), <1>9, <2>1 DEF Stretch
  <2>3. f \in [0..Len(channel') -> 0..Len(asked')] /\ f[0] = at /\ f[Len(channel')] = m
        /\ \A i \in 1..Len(channel') : f[i] = f[i - 1] + Len(channel'[i])
    BY <1>9, <1>10, <2>1
  <2>. QED  BY <2>2, <2>3 DEF Queued, Stretch
<1>. QED  BY <1>2, <1>4, <1>10, <1>11

LEMMA ReceiveBatchInOrder ==
  ASSUME BuilderInv, AdditionInv, ReceiveBatch, UNCHANGED <<asked, before>>
  PROVE  AdditionInv'
<1>1. call \in TreeCalls /\ call.op = "add_directory_all" /\ call.step = "receive"
      /\ UNCHANGED outputVars
  <2>1. call.op = "add_directory_all" /\ call.step = "receive" /\ UNCHANGED outputVars
    BY DEF ReceiveBatch
  <2>2. call \in TreeCalls
    BY <2>1, TreeCallsOnly
  <2>. QED  BY <2>1, <2>2
<1>2. InOrder /\ Base /\ Pipeline /\ call.emitted = (Done > 0) /\ marker # "complete"
  BY <1>1 DEF AdditionInv, Gone
<1>3. call.prepared = <<>> /\ call.batch = <<>> /\ Written = 0 /\ Done \in 0..Len(asked)
      /\ Len(asked) \in Nat /\ Len(<<>>) = 0 /\ asked \in Seq(EntryType)
  BY <1>1, <1>2 DEF Pipeline, BuilderInv, StageInv, InOrder, Base
<1>4. Done + Len(call.prepared) + Len(call.batch) = Done /\ Done + Len(call.prepared) = Done
  BY <1>3
<1>5. PICK m \in 0..Len(asked) : Queued(Done, m) /\ Walked(m)
  BY <1>2, <1>4 DEF Pipeline
<1>6. CASE \E batch \in {channel[i] : i \in 1..Len(channel)} :
             /\ Receive(batch)
             /\ call' = [call EXCEPT !.step = "prepare", !.batch = batch]
             /\ UNCHANGED <<entries, poisoned, out>>
  <2>1. /\ channel # <<>> /\ channel' = Tail(channel) /\ UNCHANGED <<producer, receiving>>
        /\ call' = [call EXCEPT !.step = "prepare", !.batch = Head(channel)]
    BY <1>6 DEF Receive
  <2>2. channel \in Seq(Seq(EntryType))
    BY DEF BuilderInv, TraversalType
  <2>3. Stretch(Head(channel), Done)
        /\ \E at \in 0..Len(asked) : at = Done + Len(Head(channel)) /\ Queued(at, m)'
    <3>. DEFINE n == Done
    <3>1. n \in 0..Len(asked) /\ Queued(n, m)
      BY <1>3, <1>5
    <3>. HIDE DEF n
    <3>2. /\ Stretch(Head(channel), n)
          /\ \E at \in 0..Len(asked) : at = n + Len(Head(channel)) /\ Queued(at, m)'
      BY <1>3, <2>1, <2>2, <3>1, QueueHead
    <3>. QED  BY <3>2 DEF n
  <2>4. /\ call'.op = "add_directory_all" /\ call'.step = "prepare" /\ call'.written = call.written
        /\ call'.batch = Head(channel) /\ call'.prepared = <<>> /\ call'.emitted = call.emitted
    BY <1>1, <1>3, <2>1 DEF TreeCalls
  <2>5. InOrder' /\ Done' = Done
    BY <1>1, <1>2, <2>4, OrderKept DEF outputVars
  <2>6. (Done + Len(call.prepared))' = Done
    BY <1>3, <2>4, <2>5
  <2>7. (Done + Len(call.prepared) + Len(call.batch))' = Done + Len(Head(channel))
    BY <2>4, <2>6
  <2>8. Stretch(call.prepared, Done)'
    BY <1>3, <2>4, <2>5 DEF Stretch
  <2>9. Stretch(call.batch, Done + Len(call.prepared))'
    BY <2>3, <2>4, <2>6 DEF Stretch
  <2>10. Walked(m)'
    BY <1>5, <2>1 DEF Walked, Stretch
  <2>11. Pipeline'
    <3>1. (\E k \in 0..Len(asked) :
             Queued(Done + Len(call.prepared) + Len(call.batch), k) /\ Walked(k))'
      <4>1. PICK at \in 0..Len(asked) : at = Done + Len(Head(channel)) /\ Queued(at, m)'
        BY <2>3
      <4>2. (Done + Len(call.prepared) + Len(call.batch))' = at
        BY <2>7, <4>1
      <4>3. Queued(Done + Len(call.prepared) + Len(call.batch), m)'
        BY <4>1, <4>2 DEF Queued, Stretch
      <4>. QED  BY <2>10, <4>3
    <3>. QED  BY <1>2, <2>1, <2>4, <2>8, <2>9, <3>1 DEF Pipeline
  <2>12. Base' /\ marker' # "complete" /\ call'.emitted = (Done' > 0)
    BY <1>1, <1>2, <2>4, <2>5 DEF Base, outputVars
  <2>. QED  BY <2>4, <2>5, <2>11, <2>12 DEF AdditionInv
<1>7. CASE Exhausts /\ Winds(NoFailure)
  <2>1. channel = <<>> /\ producer.status = "stopped"
    BY <1>7 DEF Exhausts
  <2>2. Done = m
    BY <1>5, <2>1 DEF Queued
  <2>3. producer.walk = <<>> /\ producer.batch = <<>>
    BY <1>2, <2>1 DEF Pipeline
  <2>4. ~producer.failed => Done = Len(asked)
    BY <1>3, <1>5, <2>2, <2>3 DEF Walked
  <2>5. NoFailure \in Failures /\ UNCHANGED <<sink, marker>>
    BY <1>1 DEF NoFailure, Failures, outputVars
  <2>. QED  BY <1>1, <1>3, <1>7, <2>1, <2>4, <2>5, WindsAddition
<1>. QED  BY <1>6, <1>7 DEF ReceiveBatch

LEMMA PrepareInOrder ==
  ASSUME BuilderInv, AdditionInv, Prepare, UNCHANGED <<asked, before>>
  PROVE  AdditionInv'
<1>1. call.op = "add_directory_all" /\ call.step = "prepare" /\ UNCHANGED outputVars
  BY DEF Prepare
<1>2. call \in TreeCalls
  BY <1>1, TreeCallsOnly
<1>3. InOrder /\ Base /\ Pipeline /\ call.emitted = (Done > 0) /\ marker # "complete"
  BY <1>1 DEF AdditionInv, Gone
<1>4. call.prepared = <<>> /\ Written = 0 /\ Done \in Nat /\ Len(<<>>) = 0
      /\ asked \in Seq(EntryType) /\ Len(asked) \in Nat
      /\ call.batch \in Seq(EntryType) /\ Len(call.batch) \in Nat
  BY <1>1, <1>2, <1>3 DEF Pipeline, BuilderInv, StageInv, InOrder, Base, TreeCalls
<1>5. CASE \E n \in 1..Len(call.batch) :
             /\ call' = [call EXCEPT !.step = "hook",
                                     !.prepared = SubSeq(call.batch, 1, n),
                                     !.batch = RemainingEntries(@, n)]
             /\ UNCHANGED <<entries, poisoned, out, traversalVars>>
  <2>1. PICK n \in 1..Len(call.batch) :
             /\ call' = [call EXCEPT !.step = "hook",
                                     !.prepared = SubSeq(call.batch, 1, n),
                                     !.batch = RemainingEntries(@, n)]
             /\ UNCHANGED <<entries, poisoned, out, traversalVars>>
    BY <1>5
  <2>. DEFINE group == SubSeq(call.batch, 1, n)
              others == RemainingEntries(call.batch, n)
  <2>2. Stretch(call.batch, Done)
    <3>1. Done + Len(call.prepared) = Done
      BY <1>4
    <3>. QED  BY <1>3, <3>1 DEF Pipeline
  <2>3. /\ Stretch(group, Done) /\ Len(group) = n
        /\ Stretch(others, Done + n) /\ Len(others) = Len(call.batch) - n
    <3>1. n \in 0..Len(call.batch)
      BY <1>4
    <3>. QED  BY <1>4, <2>2, <3>1, StretchParts DEF RemainingEntries
  <2>4. call' = [call EXCEPT !.step = "hook", !.prepared = group, !.batch = others]
    BY <1>2, <2>1 DEF TreeCalls
  <2>. HIDE DEF group, others
  <2>5. /\ call'.op = "add_directory_all" /\ call'.step = "hook" /\ call'.written = call.written
        /\ call'.prepared = group /\ call'.batch = others /\ call'.emitted = call.emitted
    BY <1>2, <2>4 DEF TreeCalls
  <2>6. InOrder' /\ Done' = Done
    BY <1>1, <1>3, <2>5, OrderKept DEF outputVars
  <2>7. (Done + Len(call.prepared))' = Done + n
    BY <2>3, <2>5, <2>6
  <2>8. (Done + Len(call.prepared) + Len(call.batch))'
          = Done + Len(call.prepared) + Len(call.batch)
    <3>1. \A a, b, c \in Nat : a + b + (c - b) = a + 0 + c
      OBVIOUS
    <3>2. Done + n + (Len(call.batch) - n) = Done + 0 + Len(call.batch)
      <4>1. n \in Nat
        BY <1>4
      <4>. QED  BY <1>4, <3>1, <4>1, Zenon
    <3>. QED  BY <1>4, <2>3, <2>5, <2>7, <3>2, Zenon
  <2>9. Stretch(call.prepared, Done)'
    BY <2>3, <2>5, <2>6 DEF Stretch
  <2>10. Stretch(call.batch, Done + Len(call.prepared))'
    BY <2>3, <2>5, <2>7 DEF Stretch
  <2>11. Pipeline'
    <3>1. PICK m \in 0..Len(asked) :
             Queued(Done + Len(call.prepared) + Len(call.batch), m) /\ Walked(m)
      BY <1>3 DEF Pipeline
    <3>2. Queued(Done + Len(call.prepared) + Len(call.batch), m)' /\ Walked(m)'
      BY <2>1, <2>8, <3>1 DEF Queued, Walked, Stretch, traversalVars
    <3>. QED  BY <1>3, <2>1, <2>5, <2>9, <2>10, <3>2 DEF Pipeline, traversalVars
  <2>12. Base' /\ marker' # "complete" /\ call'.emitted = (Done' > 0)
    BY <1>1, <1>3, <2>5, <2>6 DEF Base, outputVars
  <2>. QED  BY <2>5, <2>6, <2>11, <2>12 DEF AdditionInv
<1>6. CASE Winds(Recoverable("Filesystem"))
  <2>1. Recoverable("Filesystem") \in Failures /\ Recoverable("Filesystem") # NoFailure
    BY DEF Recoverable, Failures, NoFailure
  <2>2. UNCHANGED <<sink, marker>>
    BY <1>1 DEF outputVars
  <2>. QED  BY <1>1, <1>2, <1>4, <1>6, <2>1, <2>2, WindsAddition
<1>. QED  BY <1>5, <1>6 DEF Prepare

(* The batch sent is the next stretch of the walk.                         *)
LEMMA QueueTail ==
  ASSUME NEW n \in 0..Len(asked), NEW m \in 0..Len(asked), Queued(n, m), asked \in Seq(EntryType),
         channel \in Seq(Seq(EntryType)), NEW batch \in Seq(EntryType), Stretch(batch, m),
         channel' = Append(channel, batch), UNCHANGED asked
  PROVE  \E at \in 0..Len(asked) : at = m + Len(batch) /\ Queued(n, at)'
<1>1. PICK cut \in [0..Len(channel) -> 0..Len(asked)] :
        /\ cut[0] = n /\ cut[Len(channel)] = m
        /\ \A i \in 1..Len(channel) :
             Stretch(channel[i], cut[i - 1]) /\ cut[i] = cut[i - 1] + Len(channel[i])
  BY DEF Queued
<1>2. Len(channel) \in Nat /\ Len(asked) \in Nat /\ Len(batch) \in Nat
  OBVIOUS
<1>3. PICK at \in 0..Len(asked) : at = m + Len(batch)
  <2>1. m + Len(batch) \in 0..Len(asked)
    BY <1>2 DEF Stretch
  <2>. QED  BY <2>1
<1>. DEFINE longer == Append(channel, batch)
<1>4. Len(longer) = Len(channel) + 1 /\ longer[Len(channel) + 1] = batch
      /\ \A i \in 1..Len(channel) : longer[i] = channel[i]
  BY <1>2
<1>. HIDE DEF longer
<1>5. PICK f : f = [i \in 0..Len(longer) |-> IF i = Len(longer) THEN at ELSE cut[i]]
  OBVIOUS
<1>6. f \in [0..Len(longer) -> 0..Len(asked)] /\ f[0] = n /\ f[Len(longer)] = at
  <2>1. \A i \in 0..Len(longer) : i # Len(longer) => i \in 0..Len(channel)
    BY <1>2, <1>4
  <2>2. 0 \in 0..Len(longer) /\ 0 # Len(longer) /\ Len(longer) \in 0..Len(longer)
    BY <1>2, <1>4
  <2>. QED  BY <1>1, <1>5, <2>1, <2>2
<1>7. ASSUME NEW i \in 1..Len(longer)
      PROVE  Stretch(longer[i], f[i - 1]) /\ f[i] = f[i - 1] + Len(longer[i])
  <2>1. CASE i \in 1..Len(channel)
    <3>1. f[i] = cut[i] /\ f[i - 1] = cut[i - 1]
      <4>1. i \in 0..Len(longer) /\ i - 1 \in 0..Len(longer) /\ i # Len(longer) /\ i - 1 # Len(longer)
        BY <1>2, <1>4, <2>1
      <4>. QED  BY <1>5, <4>1
    <3>. QED  BY <1>1, <1>4, <2>1, <3>1
  <2>2. CASE i = Len(longer)
    <3>1. f[i] = at /\ f[i - 1] = m /\ longer[i] = batch
      <4>1. i \in 0..Len(longer) /\ i - 1 \in 0..Len(longer) /\ i - 1 # Len(longer)
            /\ i - 1 = Len(channel) /\ i = Len(channel) + 1
        BY <1>2, <1>4, <2>2
      <4>. QED  BY <1>1, <1>4, <1>5, <2>2, <4>1
    <3>. QED  BY <1>3, <3>1
  <2>. QED  BY <1>2, <1>4, <2>1, <2>2
<1>8. Queued(n, at)'
  <2>1. channel' = longer /\ asked' = asked
    BY DEF longer
  <2>2. \A i \in 1..Len(channel') : /\ f[i - 1] + Len(channel'[i]) <= Len(asked')
                                    /\ \A j \in 1..Len(channel'[i]) :
                                         channel'[i][j] = asked'[f[i - 1] + j]
    <3>1. \A i \in 1..Len(longer) : /\ f[i - 1] + Len(longer[i]) <= Len(asked)
                                    /\ \A j \in 1..Len(longer[i]) : longer[i][j] = asked[f[i - 1] + j]
      BY <1>7 DEF Stretch
    <3>2. PICK c : c = longer
      OBVIOUS
    <3>3. PICK a : a = asked
      OBVIOUS
    <3>4. channel' = c /\ asked' = a
      BY <2>1, <3>2, <3>3
    <3>. QED  BY <3>1, <3>2, <3>3, <3>4
  <2>3. f \in [0..Len(channel') -> 0..Len(asked')] /\ f[0] = n /\ f[Len(channel')] = at
        /\ \A i \in 1..Len(channel') : f[i] = f[i - 1] + Len(channel'[i])
    BY <1>6, <1>7, <2>1
  <2>. QED  BY <2>2, <2>3 DEF Queued, Stretch
<1>. QED  BY <1>3, <1>8

LEMMA ProducerPipeline ==
  ASSUME TraversalType, Pipeline, Produce, UNCHANGED <<asked, before, sink, call>>,
         asked \in Seq(EntryType), Done \in Nat, call \in TreeCalls
  PROVE  Pipeline'
<1>1. /\ producer.walk \in Seq(EntryType) /\ producer.batch \in Seq(EntryType)
      /\ channel \in Seq(Seq(EntryType)) /\ Len(asked) \in Nat
      /\ Len(producer.walk) \in Nat /\ Len(producer.batch) \in Nat /\ Len(<<>>) = 0
      /\ producer \in [status : {"none", "walking", "sending", "stopped"}, walk : Seq(EntryType),
                       batch : Seq(EntryType), failed : BOOLEAN]
  BY DEF TraversalType
<1>2. Done' = Done /\ Stretch(call.prepared, Done)' /\ Stretch(call.batch, Done + Len(call.prepared))'
  <2>1. Done' = Done
    BY DEF Done, Written
  <2>. QED  BY <2>1 DEF Pipeline, Stretch
<1>. DEFINE here == Done + Len(call.prepared) + Len(call.batch)
<1>3. PICK m \in 0..Len(asked) : Queued(here, m) /\ Walked(m)
  BY DEF Pipeline
<1>4. PICK n \in 0..Len(asked) : n = here
  <2>1. here \in Nat
    BY DEF TreeCalls
  <2>2. here <= Len(asked)
    BY DEF Pipeline, Stretch
  <2>. HIDE DEF here
  <2>. QED  BY <1>1, <2>1, <2>2
<1>5. here' = n
  BY <1>2, <1>4
<1>. HIDE DEF here
<1>6. /\ receiving
      /\ producer.status \in {"walking", "stopped"} => producer.batch = <<>>
      /\ producer.status = "stopped" => producer.walk = <<>>
      /\ producer.failed => producer.status = "stopped"
      /\ call.step = "receive" => call.prepared = <<>> /\ call.batch = <<>>
      /\ call.step = "prepare" => call.prepared = <<>>
  BY DEF Pipeline
<1>7. Stretch(producer.batch, m) /\ m \in Nat
  BY <1>1, <1>3 DEF Walked
<1>8. ASSUME UNCHANGED receiving,
             NEW at \in 0..Len(asked), Queued(n, at)', Walked(at)',
             /\ producer'.status \in {"walking", "stopped"} => producer'.batch = <<>>
             /\ producer'.status = "stopped" => producer'.walk = <<>>
             /\ producer'.failed => producer'.status = "stopped"
      PROVE  Pipeline'
  <2>1. (\E k \in 0..Len(asked) : Queued(here, k) /\ Walked(k))'
    <3>1. Queued(here, at)'
      BY <1>5, <1>8 DEF Queued, Stretch
    <3>. QED  BY <1>8, <3>1
  <2>. QED  BY <1>2, <1>6, <1>8, <2>1 DEF Pipeline, here
<1>9. ASSUME channel' = channel PROVE Queued(n, m)'
  BY <1>3, <1>4, <1>9 DEF Queued, Stretch
<1>10. CASE NextBatch
  <2>. DEFINE first == SubSeq(producer.walk, 1, BatchLength)
              rest == SubSeq(producer.walk, BatchLength + 1, Len(producer.walk))
  <2>1. producer.status = "walking" /\ UNCHANGED <<channel, receiving>> /\ producer.batch = <<>>
        /\ ~producer.failed
    BY <1>6, <1>10 DEF NextBatch
  <2>2. Stretch(producer.walk, m) /\ m + Len(producer.walk) = Len(asked)
    <3>1. m + Len(producer.batch) = m
      BY <1>1, <1>7, <2>1
    <3>. QED  BY <1>3, <2>1, <3>1 DEF Walked
  <2>3. CASE producer.walk = <<>>
    <3>1. producer' = [producer EXCEPT !.status = "stopped"]
      BY <1>10, <2>3 DEF NextBatch
    <3>2. producer'.status = "stopped" /\ producer'.walk = <<>> /\ producer'.batch = <<>>
          /\ producer'.failed = producer.failed
      BY <1>1, <2>1, <2>3, <3>1
    <3>3. Walked(m)'
      BY <1>3, <2>1, <2>3, <3>2 DEF Walked, Stretch
    <3>. QED  BY <1>8, <1>9, <2>1, <3>2, <3>3
  <2>4. CASE producer.walk # <<>>
    <3>1. producer' = [producer EXCEPT !.status = "sending", !.batch = first, !.walk = rest]
      BY <1>1, <1>10, <2>4 DEF NextBatch
    <3>2. BatchLength \in 0..Len(producer.walk)
      BY <1>1, TraversalAssumption DEF BatchLength
    <3>3. /\ Stretch(first, m) /\ Len(first) = BatchLength
          /\ Stretch(rest, m + BatchLength) /\ Len(rest) = Len(producer.walk) - BatchLength
      BY <1>1, <1>7, <2>2, <3>2, StretchParts
    <3>. HIDE DEF first, rest
    <3>4. producer'.status = "sending" /\ producer'.walk = rest /\ producer'.batch = first
          /\ producer'.failed = producer.failed
      BY <1>1, <3>1
    <3>5. m + Len(first) + Len(rest) = Len(asked)
      <4>1. \A a, b, c \in Nat : a + b + (c - b) = a + c
        OBVIOUS
      <4>2. BatchLength \in Nat
        BY <1>1, <3>2
      <4>3. m + BatchLength + (Len(producer.walk) - BatchLength) = m + Len(producer.walk)
        BY <1>1, <1>7, <4>1, <4>2, Zenon
      <4>. QED  BY <2>2, <3>3, <4>3, Zenon
    <3>6. Walked(m)'
      BY <3>3, <3>4, <3>5 DEF Walked, Stretch
    <3>. QED  BY <1>8, <1>9, <2>1, <3>4, <3>6
  <2>. QED  BY <2>3, <2>4
<1>11. CASE WalkFails
  <2>1. producer.status = "walking" /\ UNCHANGED <<channel, receiving>> /\ producer.batch = <<>>
        /\ producer' = [producer EXCEPT !.status = "stopped", !.walk = <<>>, !.failed = TRUE]
    BY <1>6, <1>11 DEF WalkFails
  <2>2. producer'.status = "stopped" /\ producer'.walk = <<>> /\ producer'.batch = <<>>
    BY <1>1, <2>1
  <2>3. producer'.failed
    BY <1>1, <2>1, Zenon
  <2>4. Walked(m)'
    BY <1>7, <2>1, <2>2, <2>3 DEF Walked, Stretch
  <2>. QED  BY <1>8, <1>9, <2>1, <2>2, <2>4
<1>12. CASE Send
  <2>1. /\ channel' = Append(channel, producer.batch) /\ UNCHANGED receiving
        /\ producer' = [producer EXCEPT !.status = "walking", !.batch = <<>>]
        /\ producer.status = "sending"
    BY <1>12 DEF Send
  <2>2. PICK at \in 0..Len(asked) : at = m + Len(producer.batch) /\ Queued(n, at)'
    <3>. DEFINE b == producer.batch
    <3>1. b \in Seq(EntryType) /\ Stretch(b, m) /\ channel' = Append(channel, b) /\ Queued(n, m)
      BY <1>1, <1>3, <1>4, <1>7, <2>1
    <3>. HIDE DEF b
    <3>2. \E at \in 0..Len(asked) : at = m + Len(b) /\ Queued(n, at)'
      BY <1>1, <3>1, QueueTail
    <3>. QED  BY <3>2 DEF b
  <2>3. producer'.status = "walking" /\ producer'.walk = producer.walk /\ producer'.batch = <<>>
        /\ producer'.failed = producer.failed
    BY <1>1, <2>1
  <2>4. ~producer.failed
    BY <1>6, <2>1
  <2>5. Stretch(producer.walk, at) /\ at + Len(producer.walk) = Len(asked)
    BY <1>3, <2>2, <2>4 DEF Walked
  <2>6. Walked(at)'
    <3>1. at + 0 = at
      OBVIOUS
    <3>. QED  BY <1>1, <2>3, <2>5, <3>1 DEF Walked, Stretch
  <2>. QED  BY <1>8, <2>1, <2>2, <2>3, <2>4, <2>6
<1>13. CASE SendFails
  BY <1>6, <1>13 DEF SendFails
<1>. QED  BY <1>10, <1>11, <1>12, <1>13 DEF Produce

LEMMA ProducingInOrder ==
  ASSUME BuilderInv, AdditionInv, Producing, UNCHANGED <<asked, before>>
  PROVE  AdditionInv'
<1>1. UNCHANGED <<outputVars, entries, poisoned, call>> /\ Produce
  BY DEF Producing
<1>2. UNCHANGED <<sink, marker>>
  BY <1>1 DEF outputVars
<1>3. call.op \in {"add", "add_directory_all"} => Base'
  BY DEF AdditionInv, Base
<1>4. InOrder => InOrder' /\ Done' = Done
  BY <1>1, <1>2, OrderKept
<1>5. CASE call.op = "add"
  BY <1>1, <1>2, <1>3, <1>4, <1>5 DEF AdditionInv, Stretch
<1>6. CASE call.op = "add_directory_all" /\ call.step # "finish"
  <2>1. call \in TreeCalls
    BY <1>6, TreeCallsOnly
  <2>2. Pipeline /\ InOrder /\ Base /\ Done \in Nat /\ asked \in Seq(EntryType)
    BY <1>6 DEF AdditionInv, InOrder, Base
  <2>3. Pipeline'
    BY <1>1, <1>2, <2>1, <2>2, ProducerPipeline DEF BuilderInv
  <2>. QED  BY <1>1, <1>2, <1>3, <1>4, <1>6, <2>2, <2>3 DEF AdditionInv
<1>7. CASE call.op = "add_directory_all" /\ call.step = "finish"
  <2>1. producer.status # "stopped"
    BY <1>1 DEF Produce, NextBatch, WalkFails, Send, SendFails
  <2>. HIDE DEF NoFailure
  <2>2. ~call.failure.poisons => call.failure # NoFailure
    BY <1>7, <2>1 DEF AdditionInv
  <2>. QED  BY <1>1, <1>2, <1>3, <1>4, <1>7, <2>2 DEF AdditionInv, Written
<1>8. CASE call.op \notin {"add", "add_directory_all"}
  BY <1>1, <1>2, <1>8 DEF AdditionInv
<1>. QED  BY <1>5, <1>6, <1>7, <1>8

LEMMA EndsOutOfOrder ==
  ASSUME AdditionInv, Finish \/ JoinTraversal \/ CancelCall \/ CancelFinish \/ FinishArchive
  PROVE  AdditionInv'
<1>1. CASE Finish
  <2>1. marker # "complete" /\ UNCHANGED marker
    BY <1>1 DEF Finish, AdditionInv, Idle, Gone, outputVars
  <2>2. call' = Gone \/ call'.op = "finish"
    BY <1>1 DEF Finish
  <2>. QED  BY <2>1, <2>2, NoAdditionInv
<1>2. CASE JoinTraversal
  <2>1. call' = Idle /\ call # Gone /\ UNCHANGED marker
    BY <1>2 DEF JoinTraversal, Returns, outputVars, Gone
  <2>2. marker # "complete"
    BY <2>1 DEF AdditionInv
  <2>. QED  BY <2>1, <2>2, NoAdditionInv
<1>3. CASE CancelCall
  <2>1. call' = Idle /\ call # Gone /\ UNCHANGED marker
    BY <1>3 DEF CancelCall, Gone
  <2>2. marker # "complete"
    BY <2>1 DEF AdditionInv
  <2>. QED  BY <2>1, <2>2, NoAdditionInv
<1>4. CASE CancelFinish \/ FinishArchive
  <2>1. call' = Gone
    BY <1>4 DEF CancelFinish, FinishArchive
  <2>. QED  BY <2>1, NoAdditionInv
<1>. QED  BY <1>1, <1>2, <1>3, <1>4

LEMMA AdditionInitInv == BuilderClientInit => AdditionInv
BY DEF BuilderClientInit, BuilderInit, AdditionInv, Idle

LEMMA AdditionNextInv ==
  BuilderInv /\ AdditionInv /\ [BuilderClientNext]_builderClientVars => AdditionInv'
<1>. SUFFICES ASSUME BuilderInv, AdditionInv, [BuilderClientNext]_builderClientVars
              PROVE  AdditionInv'
  OBVIOUS
<1>1. CASE UNCHANGED builderClientVars
  <2>1. UNCHANGED <<sink, marker, sequence, entries, poisoned, call, producer, channel, receiving,
                    asked, before>>
    BY <1>1 DEF builderClientVars, builderVars, outputVars, traversalVars
  <2>2. InOrder' = InOrder /\ Base' = Base /\ Done' = Done /\ Pipeline' = Pipeline
        /\ Stretch(call.prepared, 0)' = Stretch(call.prepared, 0)
    BY <2>1 DEF InOrder, Base, Done, Extended, Pipeline, Queued, Walked, Stretch, Written
  <2>. QED  BY <2>1, <2>2 DEF AdditionInv, Written
<1>2. ASSUME NEW entry \in Entries, Add(entry), Remembers(<<entry>>) PROVE AdditionInv'
  BY <1>2, AddBeginsAddition
<1>3. ASSUME NEW tree \in Trees, AddDirectoryAll(tree), Remembers(tree) PROVE AdditionInv'
  BY <1>3, AddDirectoryAllBeginsAddition
<1>4. CASE Finish
  BY <1>4, EndsOutOfOrder
<1>5. CASE Proceed /\ UNCHANGED <<asked, before>>
  BY <1>5, HookInOrder, ReceiveBatchInOrder, PrepareInOrder, EndsOutOfOrder DEF Proceed
<1>6. CASE CancelCall \/ CancelFinish
  BY <1>6, EndsOutOfOrder
<1>7. CASE Producing /\ UNCHANGED <<asked, before>>
  BY <1>7, ProducingInOrder
<1>. QED  BY <1>1, <1>2, <1>3, <1>4, <1>5, <1>6, <1>7 DEF BuilderClientNext

-----------------------------------------------------------------------------
(* What a call that returns has done.                                      *)

LEMMA NothingDone ==
  ASSUME InOrder, Base, CleanSink, Done = 0, Written = 0
  PROVE  sink = before.sink /\ entries = before.entries
<1>1. /\ sink \in Seq(MemberType) /\ before.sink \in Seq(MemberType)
      /\ entries = Reserved(sink) /\ before.entries = Reserved(before.sink)
  BY DEF CleanSink, CleanLog, Base
<1>2. Len(sink) = Len(before.sink)
  BY <1>1 DEF Done
<1>3. \A i \in 1..Len(sink) : sink[i] = before.sink[i]
  BY <1>2 DEF InOrder, Extended
<1>4. sink = before.sink
  BY <1>1, <1>2, <1>3, SeqEqual
<1>. QED  BY <1>1, <1>4

AddedAll ==
  /\ Len(sink') = Len(before.sink) + Len(asked)
  /\ Extended(sink')
  /\ \A i \in 1..Len(asked) : Described(sink'[Len(before.sink) + i]) = Described(asked[i])
  /\ CleanSink'

FoundAgain == sink' = before.sink /\ entries' = before.entries

LEMMA HookReturnsAll ==
  ASSUME BuilderInv, AdditionInv, BuilderInv', Hook, call.op = "add", call'.op = "idle",
         UNCHANGED <<asked, before>>
  PROVE  /\ out' = Ok => ~poisoned' /\ AddedAll
         /\ ~poisoned' /\ out' # Ok => FoundAgain
<1>1. InHook /\ call \in AddCalls /\ (HalfWritten \/ (Written = 0 /\ CleanSink))
      /\ Entry \in EntryType
  BY EntryTyped DEF Hook, BuilderInv, HookInv, TreeCalls
<1>2. InOrder /\ Done = 0 /\ Base /\ Len(asked) = 1 /\ Stretch(call.prepared, 0)
      /\ Len(call.prepared) = 1
  BY DEF AdditionInv
<1>3. ASSUME NEW failure \in Failures, failure.error # "None", HookFailed(failure),
             failure.poisons \/ (UNCHANGED sink /\ Written = 0 /\ CleanSink)
      PROVE  /\ out' = Ok => ~poisoned' /\ AddedAll
             /\ ~poisoned' /\ out' # Ok => FoundAgain
  <2>1. out' # Ok /\ poisoned' = failure.poisons /\ UNCHANGED entries
    BY <1>3 DEF HookFailed, Returns, Failures, Ok
  <2>2. Written = 0 /\ CleanSink => sink = before.sink /\ entries = before.entries
    BY <1>2, NothingDone
  <2>. QED  BY <1>3, <2>1, <2>2 DEF FoundAgain
<1>4. CASE /\ Collides(Entry)
           /\ HookFailed(Recoverable("PathCollision"))
           /\ UNCHANGED outputVars
  <2>1. Written = 0 /\ CleanSink /\ UNCHANGED sink
    BY <1>1, <1>4 DEF HalfWritten, outputVars
  <2>2. Recoverable("PathCollision") \in Failures /\ Recoverable("PathCollision").error # "None"
    BY DEF Recoverable, Failures
  <2>. QED  BY <1>3, <1>4, <2>1, <2>2
<1>5. ASSUME Writing,
             NEW failure \in {Recoverable("Encoder"), Poisoning("Encoder"),
                              Recoverable("SourceRead"), Poisoning("SourceRead")},
             HookFails(failure), HookFailed(failure), UNCHANGED <<marker, sequence>>
      PROVE  /\ out' = Ok => ~poisoned' /\ AddedAll
             /\ ~poisoned' /\ out' # Ok => FoundAgain
  <2>1. failure \in Failures /\ failure.error # "None"
    <3>1. \A error \in {"Encoder", "SourceRead"} :
            /\ Recoverable(error) \in Failures /\ Poisoning(error) \in Failures
            /\ Recoverable(error).error # "None" /\ Poisoning(error).error # "None"
      BY DEF Recoverable, Poisoning, Failures
    <3>. QED  BY <3>1
  <2>2. failure.poisons \/ (Written = 0 /\ UNCHANGED sink)
    BY <1>5 DEF HookFails, Recoverable, Poisoning
  <2>3. Written = 0 => CleanSink
    BY <1>1 DEF HalfWritten
  <2>. QED  BY <1>3, <1>5, <2>1, <2>2, <2>3
<1>6. ASSUME Writing, WritesTo(NextWrite(Entry, Written)),
             IF NextWrite(Entry, Written) = Due(Entry) THEN HookReturns
             ELSE HookGoesOn(NextWrite(Entry, Written)),
             sequence' = IF Written = 0 THEN sequence + 1 ELSE sequence
      PROVE  /\ out' = Ok => ~poisoned' /\ AddedAll
             /\ ~poisoned' /\ out' # Ok => FoundAgain
  <2>1. ~HookGoesOn(NextWrite(Entry, Written))
    <3>. SUFFICES ASSUME NEW n, call' = [call EXCEPT !.written = n] PROVE FALSE
      BY DEF HookGoesOn
    <3>. QED  BY <1>1 DEF AddCalls
  <2>2. HookReturns /\ WritesTo(Due(Entry))
    BY <1>6, <2>1
  <2>3. out' = Ok /\ call' = Idle
    BY <2>2 DEF HookReturns, Returns
  <2>4. poisoned' = FALSE
    BY <2>2 DEF HookReturns, Returns
  <2>5. CleanSink'
    BY <2>3, <2>4 DEF BuilderInv, StageInv
  <2>6. Due(Entry) \in Int /\ Len(before.sink) \in Nat
    BY <1>1, <1>2, DueIsNumber DEF Base
  <2>7. /\ Len(sink') = Len(before.sink) + Done + 1
        /\ Extended(sink')
        /\ Described(sink'[Len(before.sink) + Done + 1]) = Described(Entry)
    BY <1>2, <1>6, <2>2, <2>6, WritesInOrder
  <2>8. Entry = asked[1]
    <3>1. call.prepared[1] = asked[0 + 1]
      BY <1>2 DEF Stretch
    <3>. QED  BY <1>1, <3>1 DEF AddCalls, Entry
  <2>9. AddedAll
    <3>1. Len(before.sink) + Done + 1 = Len(before.sink) + 1
      BY <1>2, <2>6
    <3>2. \A i \in 1..Len(asked) : i = 1
      BY <1>2
    <3>. QED  BY <1>2, <2>5, <2>7, <2>8, <3>1, <3>2 DEF AddedAll
  <2>. QED  BY <2>3, <2>4, <2>9
<1>. QED  BY <1>4, <1>5, <1>6 DEF Hook

LEMMA JoinReturnsAll ==
  ASSUME BuilderInv, AdditionInv, BuilderInv', JoinTraversal, UNCHANGED <<asked, before>>
  PROVE  /\ out' = Ok => ~poisoned' /\ AddedAll
         /\ ~poisoned' /\ out' # Ok => FoundAgain
<1>. DEFINE failure == IF call.failure = NoFailure /\ producer.failed
                       THEN Recoverable("Traversal") ELSE call.failure
<1>1. /\ call.op = "add_directory_all" /\ call.step = "finish"
      /\ poisoned' = (failure # NoFailure /\ Breaks(call.emitted, failure))
      /\ out' = (IF failure = NoFailure THEN Ok ELSE failure.error)
      /\ call' = Idle /\ UNCHANGED <<sink, entries>>
  BY DEF JoinTraversal, Returns, outputVars
<1>2. call \in TreeCalls
  BY <1>1, TreeCallsOnly
<1>3. failure \in Failures
  BY <1>2 DEF TreeCalls, Recoverable, Failures
<1>4. ~poisoned' => CleanSink'
  BY <1>1 DEF BuilderInv, StageInv
<1>5. failure # NoFailure => out' # Ok
  <2>1. failure.error # Ok
    BY <1>3 DEF Failures, Ok
  <2>. QED  BY <1>1, <2>1
<1>6. CASE failure = NoFailure
  <2>1. call.failure = NoFailure /\ ~producer.failed
    BY <1>6 DEF Recoverable, NoFailure
  <2>2. ~call.failure.poisons
    BY <2>1 DEF NoFailure
  <2>. HIDE DEF failure, NoFailure
  <2>3. InOrder /\ Base /\ Written = 0 /\ Done = Len(asked)
    BY <1>1, <2>1, <2>2 DEF AdditionInv
  <2>4. out' = Ok /\ poisoned' = FALSE
    BY <1>1, <1>6
  <2>5. CleanSink /\ Len(before.sink) \in Nat /\ Len(sink) \in Nat
    BY <1>1, <2>2, <2>3 DEF BuilderInv, StageInv, Base, CleanSink, CleanLog
  <2>6. Len(sink) = Len(before.sink) + Len(asked)
    BY <2>3, <2>5 DEF Done
  <2>7. AddedAll
    BY <1>1, <1>4, <2>3, <2>4, <2>6 DEF AddedAll, InOrder, Extended
  <2>. QED  BY <2>4, <2>7
<1>7. CASE failure # NoFailure
  <2>1. SUFFICES ASSUME ~poisoned' PROVE FoundAgain
    BY <1>5, <1>7
  <2>2. ~call.emitted /\ ~failure.poisons
    BY <1>1, <1>7, <2>1 DEF Breaks
  <2>3. ~call.failure.poisons
    BY <2>2 DEF NoFailure
  <2>4. InOrder /\ Base /\ Written = 0 /\ call.emitted = (Done > 0) /\ CleanSink
    BY <1>1, <2>3 DEF AdditionInv, BuilderInv, StageInv
  <2>5. Done = 0
    <3>1. ~(Done > 0)
      BY <2>2, <2>4, Zenon
    <3>. QED  BY <2>4, <3>1 DEF InOrder
  <2>. QED  BY <1>1, <2>4, <2>5, NothingDone DEF FoundAgain
<1>. QED  BY <1>6, <1>7

LEMMA AdditionReturns ==
  ASSUME BuilderInv, AdditionInv, BuilderInv', [BuilderClientNext]_builderClientVars,
         call.op \in {"add", "add_directory_all"}, call'.op = "idle"
  PROVE  /\ UNCHANGED <<asked, before>>
         /\ out' = Ok => ~poisoned' /\ AddedAll
         /\ ~poisoned' /\ out' # Ok => FoundAgain
<1>1. call # Idle /\ call' # call /\ call # Gone
  BY DEF Idle, Gone
<1>2. \/ Proceed /\ UNCHANGED <<asked, before>>
      \/ CancelCall /\ UNCHANGED <<asked, before>>
  BY <1>1 DEF BuilderClientNext, Add, AddDirectoryAll, Finish, CancelFinish, Producing,
              builderClientVars, builderVars
<1>3. CASE CancelCall /\ UNCHANGED <<asked, before>>
  BY <1>3 DEF CancelCall, BuilderInv, StageInv, Pending, Ok
<1>4. CASE Proceed /\ UNCHANGED <<asked, before>>
  <2>1. CASE call.op = "add"
    <3>1. Hook
      BY <1>4, <2>1 DEF Proceed, ReceiveBatch, Prepare, JoinTraversal, FinishArchive
    <3>. QED  BY <1>4, <2>1, <3>1, HookReturnsAll
  <2>2. CASE call.op = "add_directory_all"
    <3>1. call \in TreeCalls
      BY <2>2, TreeCallsOnly
    <3>2. ~Hook
      <4>1. ~(\E failure : Winds(failure))
        <5>. SUFFICES ASSUME NEW f, call' = [call EXCEPT !.step = "finish", !.failure = f] PROVE FALSE
          BY DEF Winds
        <5>. QED  BY <3>1 DEF TreeCalls
      <4>2. ~HookReturns
        <5>. SUFFICES ASSUME NEW r, NEW s, call' = [call EXCEPT !.prepared = r, !.written = 0,
                                                     !.emitted = TRUE, !.step = s] PROVE FALSE
          BY <2>2 DEF HookReturns
        <5>. QED  BY <3>1 DEF TreeCalls
      <4>3. ~(\E n : HookGoesOn(n))
        <5>. SUFFICES ASSUME NEW n, call' = [call EXCEPT !.written = n] PROVE FALSE
          BY DEF HookGoesOn
        <5>. QED  BY <3>1 DEF TreeCalls
      <4>. QED  BY <2>2, <4>1, <4>2, <4>3 DEF Hook, HookFailed
    <3>3. ~ReceiveBatch /\ ~Prepare
      <4>1. ~(\E failure : Winds(failure))
        <5>. SUFFICES ASSUME NEW f, call' = [call EXCEPT !.step = "finish", !.failure = f] PROVE FALSE
          BY DEF Winds
        <5>. QED  BY <3>1 DEF TreeCalls
      <4>2. \A b : call' # [call EXCEPT !.step = "prepare", !.batch = b]
        BY <3>1 DEF TreeCalls
      <4>3. \A a, b : call' # [call EXCEPT !.step = "hook", !.prepared = a, !.batch = b]
        BY <3>1 DEF TreeCalls
      <4>4. ~ReceiveBatch
        BY <4>1, <4>2 DEF ReceiveBatch
      <4>5. ASSUME Prepare PROVE FALSE
        <5>1. PICK n : call' = [call EXCEPT !.step = "hook", !.prepared = SubSeq(call.batch, 1, n),
                                            !.batch = RemainingEntries(call.batch, n)]
          BY <3>1, <4>1, <4>5 DEF Prepare, TreeCalls
        <5>. QED  BY <4>3, <5>1, Zenon
      <4>. QED  BY <4>4, <4>5
    <3>4. JoinTraversal
      BY <1>4, <2>2, <3>2, <3>3 DEF Proceed, FinishArchive
    <3>. QED  BY <1>4, <3>4, JoinReturnsAll
  <2>. QED  BY <2>1, <2>2
<1>. QED  BY <1>2, <1>3, <1>4

LEMMA AddedBehind ==
  ASSUME Base, AddedAll
  PROVE  /\ sink' \in Seq(MemberType) /\ Rows(sink')
         /\ SubSeq(sink', 1, Len(before.sink)) = before.sink
         /\ \A i \in 1..Len(asked) : IsWhole(sink'[Len(before.sink) + i])
<1>1. before.sink \in Seq(MemberType) /\ Len(before.sink) \in Nat /\ Len(asked) \in Nat
  BY DEF Base
<1>2. sink' \in Seq(MemberType) /\ Rows(sink')
  BY DEF AddedAll, CleanSink, CleanLog
<1>3. Len(sink') = Len(before.sink) + Len(asked)
      /\ \A i \in 1..Len(before.sink) : (sink')[i] = before.sink[i]
  BY DEF AddedAll, Extended
<1>. DEFINE front == SubSeq(sink', 1, Len(before.sink))
<1>4. front \in Seq(MemberType) /\ Len(front) = Len(before.sink)
      /\ \A i \in 1..Len(before.sink) : front[i] = sink'[i]
  BY <1>1, <1>2, <1>3
<1>5. front = before.sink
  <2>. HIDE DEF front
  <2>. QED  BY <1>1, <1>3, <1>4, SeqEqual
<1>6. ASSUME NEW i \in 1..Len(asked) PROVE IsWhole(sink'[Len(before.sink) + i])
  <2>1. Len(before.sink) + i \in 1..Len(sink')
    BY <1>1, <1>3
  <2>. QED  BY <1>2, <2>1 DEF Rows
<1>. QED  BY <1>2, <1>5, <1>6

(* An addition that succeeds has added all it was asked for, in order and  *)
(* nothing else; one that fails and leaves the builder usable has left the *)
(* output and the reservations as it found them.                           *)
THEOREM AdditionsAreAllOrNothing == BuilderClientSpec => CallsAreAllOrNothing
<1>1. ASSUME BuilderInv, AdditionInv, BuilderInv', [BuilderClientNext]_builderClientVars
      PROVE  call.op \in {"add", "add_directory_all"} /\ call'.op = "idle" =>
        /\ out' = Ok =>
             /\ Len(sink') = Len(before.sink) + Len(asked)
             /\ SubSeq(sink', 1, Len(before.sink)) = before.sink
             /\ \A i \in 1..Len(asked) :
                  LET member == sink'[Len(before.sink) + i]
                  IN  IsWhole(member) /\ Described(member) = Described(asked[i])
        /\ ~poisoned' /\ out' # Ok => sink' = before.sink /\ entries' = before.entries
  <2>. SUFFICES ASSUME call.op \in {"add", "add_directory_all"}, call'.op = "idle"
                PROVE  /\ out' = Ok =>
                            /\ Len(sink') = Len(before.sink) + Len(asked)
                            /\ SubSeq(sink', 1, Len(before.sink)) = before.sink
                            /\ \A i \in 1..Len(asked) :
                                 /\ IsWhole(sink'[Len(before.sink) + i])
                                 /\ Described(sink'[Len(before.sink) + i]) = Described(asked[i])
                       /\ ~poisoned' /\ out' # Ok => FoundAgain
    BY DEF FoundAgain
  <2>1. Base
    BY <1>1 DEF AdditionInv
  <2>2. /\ out' = Ok => AddedAll
        /\ ~poisoned' /\ out' # Ok => FoundAgain
    BY <1>1, AdditionReturns
  <2>3. AddedAll => /\ SubSeq(sink', 1, Len(before.sink)) = before.sink
                    /\ \A i \in 1..Len(asked) : IsWhole(sink'[Len(before.sink) + i])
    BY <2>1, AddedBehind
  <2>4. AddedAll => /\ Len(sink') = Len(before.sink) + Len(asked)
                    /\ \A i \in 1..Len(asked) :
                         Described(sink'[Len(before.sink) + i]) = Described(asked[i])
    BY DEF AddedAll
  <2>. QED  BY <2>2, <2>3, <2>4
<1>. QED  BY BuilderInitInv, BuilderNextInv, AdditionInitInv, AdditionNextInv, <1>1, PTL
          DEF BuilderClientSpec, CallsAreAllOrNothing

-----------------------------------------------------------------------------
(* The builder as an ArchiveLog.                                           *)

AbstractLog == IF call.op = "idle" /\ ~poisoned THEN sink ELSE before.sink

LEMMA LogAdds ==
  ASSUME Base, AddedAll, NEW log, log = before.sink, NEW later, later = sink'
  PROVE  \/ later = log
         \/ /\ Len(later) > Len(log)
            /\ SubSeq(later, 1, Len(log)) = log
            /\ \A i \in 1..Len(later) : Log!Whole(later[i])
            /\ Log!Extractable(later)
<1>1. later \in Seq(MemberType) /\ Rows(later) /\ SubSeq(later, 1, Len(log)) = log
      /\ log \in Seq(MemberType) /\ asked \in Seq(EntryType)
  BY AddedBehind DEF Base
<1>2. Len(later) = Len(log) + Len(asked) /\ Len(asked) \in Nat /\ Len(log) \in Nat
  BY <1>1 DEF AddedAll
<1>3. CASE Len(asked) = 0
  <2>1. Len(later) = Len(log)
    BY <1>2, <1>3
  <2>2. SubSeq(later, 1, Len(later)) = later
    BY <1>1
  <2>. QED  BY <1>1, <2>1, <2>2
<1>4. CASE Len(asked) # 0
  <2>1. Len(later) > Len(log)
    BY <1>2, <1>4
  <2>2. \A i \in 1..Len(later) : Log!Whole(later[i])
    BY <1>1 DEF Rows, IsWhole, Log!Whole
  <2>3. Log!Extractable(later)
    BY <1>1 DEF Rows, Log!Extractable
  <2>. QED  BY <1>1, <2>1, <2>2, <2>3
<1>. QED  BY <1>3, <1>4

LEMMA BuilderStepsAreLogSteps ==
  ASSUME BuilderInv, AdditionInv, BuilderInv', AdditionInv',
         [BuilderClientNext]_builderClientVars
  PROVE  \/ AbstractStatus = "active" /\ AbstractStatus' = "active"
              /\ Base /\ AddedAll /\ AbstractLog = before.sink /\ AbstractLog' = sink'
         \/ AbstractStatus = "active" /\ AbstractStatus' = "broken" /\ UNCHANGED AbstractLog
         \/ AbstractStatus = "active" /\ AbstractStatus' = "finished" /\ UNCHANGED AbstractLog
         \/ UNCHANGED AbstractLog /\ AbstractStatus' = AbstractStatus
<1>1. /\ marker = "complete" => call.op = "gone"
      /\ marker' = "complete" => call'.op = "gone"
      /\ call.op = "gone" => call = Gone
      /\ call.op = "idle" => call = Idle
      /\ Idle.op = "idle" /\ Gone.op = "gone"
  BY DEF AdditionInv, Gone, Idle, BuilderInv, CallType, AddCalls, TreeCalls
<1>2. CASE UNCHANGED builderClientVars
  BY <1>2 DEF builderClientVars, builderVars, outputVars, AbstractLog, AbstractStatus
<1>3. CASE call.op \in {"add", "add_directory_all"} /\ call'.op = "idle"
  <2>1. Base /\ AbstractLog = before.sink /\ AbstractStatus = "active"
    BY <1>1, <1>3 DEF AdditionInv, AbstractLog, AbstractStatus
  <2>2. /\ UNCHANGED <<asked, before>>
        /\ out' = Ok => ~poisoned' /\ AddedAll
        /\ ~poisoned' /\ out' # Ok => FoundAgain
    BY <1>3, AdditionReturns
  <2>3. CASE poisoned'
    <3>1. AbstractStatus' = "broken" /\ AbstractLog' = before.sink
      BY <1>1, <1>3, <2>2, <2>3 DEF AbstractStatus, AbstractLog
    <3>. QED  BY <2>1, <3>1
  <2>4. CASE ~poisoned'
    <3>1. AbstractStatus' = "active" /\ AbstractLog' = sink'
      BY <1>1, <1>3, <2>4 DEF AbstractStatus, AbstractLog
    <3>2. CASE out' = Ok
      BY <2>1, <2>2, <3>1, <3>2
    <3>3. CASE out' # Ok
      <4>1. sink' = before.sink
        BY <2>2, <2>4, <3>3 DEF FoundAgain
      <4>. QED  BY <2>1, <3>1, <4>1
    <3>. QED  BY <3>2, <3>3
  <2>. QED  BY <2>3, <2>4
<1>4. CASE call.op \in {"add", "add_directory_all"} /\ call'.op # "idle" /\ BuilderClientNext
  <2>1. AbstractLog = before.sink /\ AbstractStatus = "active"
    BY <1>1, <1>4 DEF AbstractLog, AbstractStatus
  <2>2. ~Finish /\ ~CancelFinish /\ ~FinishArchive /\ call # Idle
    BY <1>1, <1>4 DEF Finish, CancelFinish, FinishArchive, Idle
  <2>3. UNCHANGED before
    BY <1>1, <1>4, <2>2 DEF BuilderClientNext, Add, AddDirectoryAll
  <2>4. call'.op # "gone"
    <3>1. call' = call \/ Hook \/ ReceiveBatch \/ Prepare \/ JoinTraversal \/ CancelCall
      BY <1>4, <2>2 DEF BuilderClientNext, Add, AddDirectoryAll, Proceed, Producing
    <3>2. call'.op = "gone" => call' = Gone
      BY DEF BuilderInv, CallType, Gone, Idle, AddCalls, TreeCalls
    <3>3. ASSUME Hook \/ ReceiveBatch \/ Prepare \/ JoinTraversal \/ CancelCall, call' = Gone
          PROVE  FALSE
      <4>1. call \in AddCalls \cup TreeCalls
        BY <1>4 DEF BuilderInv, CallType, Gone, Idle
      <4>2. call'.op # call.op /\ call' # Idle
        BY <1>4, <3>3 DEF Gone, Idle
      <4>3. \A f : call' # [call EXCEPT !.step = "finish", !.failure = f]
        BY <4>1, <3>3 DEF AddCalls, TreeCalls, Gone
      <4>4. \A f : ~HookFailed(f) /\ ~Winds(f)
        BY <4>2, <4>3 DEF HookFailed, Winds, Returns
      <4>5. \A a, b, c : call' # [call EXCEPT !.step = a, !.prepared = b, !.batch = c]
        BY <4>1, <3>3 DEF AddCalls, TreeCalls, Gone
      <4>6. \A a, b : call' # [call EXCEPT !.step = a, !.batch = b]
        BY <4>1, <3>3 DEF AddCalls, TreeCalls, Gone
      <4>7. \A n : call' # [call EXCEPT !.written = n]
        BY <4>1, <3>3 DEF AddCalls, TreeCalls, Gone
      <4>8. \A a, b : call' # [call EXCEPT !.prepared = a, !.written = 0, !.emitted = TRUE, !.step = b]
        BY <4>1, <3>3 DEF AddCalls, TreeCalls, Gone
      <4>9. ~HookReturns /\ \A n : ~HookGoesOn(n)
        BY <4>2, <4>7, <4>8 DEF HookReturns, HookGoesOn, Returns
      <4>10. ~Hook /\ ~CancelCall /\ ~JoinTraversal
        BY <4>2, <4>4, <4>9 DEF Hook, CancelCall, JoinTraversal, Returns
      <4>11. ~ReceiveBatch
        BY <4>4, <4>6 DEF ReceiveBatch
      <4>12. ~Prepare
        <5>1. ASSUME NEW n, call' = [call EXCEPT !.step = "hook", !.prepared = SubSeq(call.batch, 1, n),
                                                 !.batch = RemainingEntries(@, n)]
              PROVE  FALSE
          BY <3>3, <4>1, <5>1 DEF AddCalls, TreeCalls, Gone
        <5>. QED  BY <4>4, <5>1 DEF Prepare
      <4>. QED  BY <3>3, <4>10, <4>11, <4>12
    <3>. QED  BY <1>4, <3>1, <3>2, <3>3
  <2>5. AbstractLog' = before.sink /\ AbstractStatus' = "active"
    BY <1>1, <1>4, <2>3, <2>4 DEF AbstractLog, AbstractStatus
  <2>. QED  BY <2>1, <2>5
<1>5. CASE call = Idle /\ BuilderClientNext
  <2>1. ~Proceed /\ ~CancelCall /\ ~CancelFinish
    BY <1>5 DEF Proceed, Hook, InHook, ReceiveBatch, Prepare, JoinTraversal, FinishArchive,
                CancelCall, CancelFinish, Idle
  <2>2. UNCHANGED <<sink, marker>> /\ marker # "complete"
    <3>1. UNCHANGED outputVars
      BY <1>5, <2>1 DEF BuilderClientNext, Add, AddDirectoryAll, Finish, Producing, Refuse
    <3>. QED  BY <1>1, <1>5, <3>1 DEF outputVars, Idle
  <2>3. CASE call' = Idle
    <3>1. UNCHANGED <<before, poisoned>>
      <4>1. ~Begins
        BY <2>3 DEF Begins
      <4>. QED  BY <1>5, <2>1, <2>3, <4>1 DEF BuilderClientNext, Add, AddDirectoryAll, Finish,
                       Producing, Refuse, Remembers, Idle, Gone
    <3>. QED  BY <1>5, <2>2, <2>3, <3>1 DEF AbstractLog, AbstractStatus
  <2>4. CASE call' = Gone
    <3>1. UNCHANGED before /\ poisoned /\ poisoned'
      <4>1. ~Begins
        BY <2>4 DEF Begins
      <4>2. Finish /\ Remembers(<<>>)
        BY <1>5, <2>1, <2>4 DEF BuilderClientNext, Add, AddDirectoryAll, Producing, Refuse, Returns,
                                Idle, Gone
      <4>. QED  BY <2>4, <4>1, <4>2 DEF Finish, Remembers, Gone
    <3>2. AbstractLog = before.sink /\ AbstractStatus = "broken"
      BY <1>1, <1>5, <2>2, <3>1 DEF AbstractLog, AbstractStatus
    <3>3. AbstractLog' = before.sink /\ AbstractStatus' = "broken"
      BY <1>1, <2>2, <2>4, <3>1 DEF AbstractLog, AbstractStatus
    <3>. QED  BY <3>2, <3>3
  <2>5. CASE call' \notin {Idle, Gone}
    <3>1. Begins /\ ~Producing
      BY <1>5, <2>5 DEF Begins, Producing
    <3>2. before'.sink = sink
      BY <1>5, <2>1, <3>1 DEF BuilderClientNext, Remembers
    <3>3. ~poisoned
      BY <1>5, <2>1, <2>5, <3>1 DEF BuilderClientNext, Add, AddDirectoryAll, Finish, Refuse, Returns
    <3>4. call'.op # "idle" /\ call'.op # "gone"
      BY <2>5 DEF BuilderInv, CallType, AddCalls, TreeCalls, Idle, Gone
    <3>5. AbstractLog = sink /\ AbstractStatus = "active"
      BY <1>1, <1>5, <2>2, <3>3 DEF AbstractLog, AbstractStatus
    <3>6. AbstractLog' = sink /\ AbstractStatus' = "active"
      BY <2>2, <3>2, <3>4 DEF AbstractLog, AbstractStatus
    <3>. QED  BY <3>5, <3>6
  <2>. QED  BY <2>3, <2>4, <2>5
<1>6. CASE call.op \in {"finish", "gone"} /\ BuilderClientNext
  <2>1. (FinishArchive \/ CancelFinish \/ Producing) /\ UNCHANGED before
    <3>1. call # Idle /\ call.op \notin {"add", "add_directory_all"}
      BY <1>1, <1>6
    <3>2. \A entry, tree : ~Add(entry) /\ ~AddDirectoryAll(tree) /\ ~Finish
      BY <3>1 DEF Add, AddDirectoryAll, Finish
    <3>3. ~Hook /\ ~ReceiveBatch /\ ~Prepare /\ ~JoinTraversal /\ ~CancelCall
      BY <3>1 DEF Hook, InHook, ReceiveBatch, Prepare, JoinTraversal, CancelCall
    <3>. QED  BY <1>6, <3>2, <3>3 DEF BuilderClientNext, Proceed
  <2>3. AbstractLog = before.sink
    BY <1>6 DEF AbstractLog
  <2>4. CASE Producing
    <3>1. UNCHANGED <<call, marker>>
      BY <2>4 DEF Producing, outputVars
    <3>. QED  BY <1>6, <2>1, <3>1 DEF AbstractLog, AbstractStatus
  <2>5. CASE FinishArchive \/ CancelFinish
    <3>1. call' = Gone /\ call.op = "finish"
      BY <2>5 DEF FinishArchive, CancelFinish
    <3>2. AbstractStatus = "active"
      BY <1>1, <3>1 DEF AbstractStatus
    <3>3. AbstractLog' = before.sink /\ AbstractStatus' \in {"broken", "finished"}
      BY <1>1, <2>1, <3>1 DEF AbstractLog, AbstractStatus
    <3>. QED  BY <2>3, <3>2, <3>3
  <2>. QED  BY <2>1, <2>4, <2>5
<1>7. call.op \in {"add", "add_directory_all", "finish", "gone"} \/ call = Idle
  BY DEF BuilderInv, CallType, AddCalls, TreeCalls, Idle, Gone
<1>. QED  BY <1>2, <1>3, <1>4, <1>5, <1>6, <1>7

(* Whatever suspends, fails or is dropped, the archive that can still be   *)
(* finished is a log that grows by whole, extractable additions.           *)
THEOREM BuilderImplementsLog == BuilderClientSpec => ImplementsArchiveLog
<1>1. BuilderClientInit => Log!Init
  <2>. SUFFICES ASSUME BuilderClientInit PROVE Log!Init
    OBVIOUS
  <2>1. sink = <<>> /\ marker = "none" /\ poisoned = FALSE /\ call = Idle
    BY DEF BuilderClientInit, BuilderInit
  <2>2. call.op = "idle" /\ ~poisoned
    BY <2>1 DEF Idle
  <2>. QED  BY <2>1, <2>2 DEF Log!Init, AbstractStatus
<1>2. ASSUME BuilderInv, AdditionInv, BuilderInv', AdditionInv',
             [BuilderClientNext]_builderClientVars
      PROVE  [Log!Next]_<<IF call.op = "idle" /\ ~poisoned THEN sink ELSE before.sink, AbstractStatus>>
  <2>1. CASE AbstractStatus = "active" /\ AbstractStatus' = "active"
              /\ Base /\ AddedAll /\ AbstractLog = before.sink /\ AbstractLog' = sink'
    <3>1. \/ AbstractLog' = AbstractLog
          \/ /\ Len(AbstractLog') > Len(AbstractLog)
             /\ SubSeq(AbstractLog', 1, Len(AbstractLog)) = AbstractLog
             /\ \A i \in 1..Len(AbstractLog') : Log!Whole((AbstractLog')[i])
             /\ Log!Extractable(AbstractLog')
      BY <2>1, LogAdds
    <3>. QED  BY <2>1, <3>1 DEF AbstractLog, Log!Next, Log!Add
  <2>2. CASE AbstractStatus = "active" /\ AbstractStatus' = "broken" /\ UNCHANGED AbstractLog
    BY <2>2 DEF AbstractLog, Log!Next, Log!Break
  <2>3. CASE AbstractStatus = "active" /\ AbstractStatus' = "finished" /\ UNCHANGED AbstractLog
    BY <2>3 DEF AbstractLog, Log!Next, Log!Finish
  <2>4. CASE UNCHANGED AbstractLog /\ AbstractStatus' = AbstractStatus
    BY <2>4 DEF AbstractLog
  <2>. QED  BY <1>2, <2>1, <2>2, <2>3, <2>4, BuilderStepsAreLogSteps
<1>. QED  BY BuilderInitInv, BuilderNextInv, AdditionInitInv, AdditionNextInv, <1>1, <1>2, PTL
          DEF BuilderClientSpec, ImplementsArchiveLog, Log!Spec
-----------------------------------------------------------------------------
(* What a recursive addition holds.                                        *)

Weight(entry) ==
  IF Regular(entry) /\ entry.size <= BUFFERED_SOURCE_FILE_BYTES THEN entry.size ELSE 0

(* f gives the bytes of the first entries of s that are read into memory.  *)
Sums(s, f) ==
  /\ f \in [0..Len(s) -> Nat] /\ f[0] = 0
  /\ \A k \in 1..Len(s) : f[k] = f[k - 1] + Weight(s[k])

GroupBytes == SOURCE_FILE_PREPARATION_BATCH_BYTES + BUFFERED_SOURCE_FILE_BYTES

Light(s) == \E f : Sums(s, f) /\ f[Len(s)] < GroupBytes

MemoryInv ==
  /\ Len(channel) <= DIRECTORY_TRAVERSAL_BUFFER_BATCHES
  /\ \A i \in 1..Len(channel) : Len(channel[i]) <= DIRECTORY_TRAVERSAL_BATCH_ENTRIES
  /\ Len(producer.batch) <= DIRECTORY_TRAVERSAL_BATCH_ENTRIES
  /\ call.op = "add_directory_all" =>
       /\ Len(call.prepared) + Len(call.batch) <= DIRECTORY_TRAVERSAL_BATCH_ENTRIES
       /\ Light(call.prepared)
       /\ call.step = "receive" => call.prepared = <<>> /\ call.batch = <<>>
       /\ call.step = "prepare" => call.prepared = <<>>

LEMMA WeightIsNumber ==
  ASSUME NEW entry \in EntryType
  PROVE  Weight(entry) \in Nat /\ Weight(entry) <= BUFFERED_SOURCE_FILE_BYTES
BY BuilderAssumption DEF Weight, EntryType

LEMMA InTreeCalls ==
  ASSUME call.op = "add_directory_all", NEW entry \in EntryType
  PROVE  (IF Streamed(entry) THEN 0 ELSE Payload(entry)) = Weight(entry)
<1>1. entry.size \in Nat /\ BUFFERED_SOURCE_FILE_BYTES \in Nat
  BY BuilderAssumption DEF EntryType
<1>2. Streamed(entry) <=> Regular(entry) /\ entry.size > BUFFERED_SOURCE_FILE_BYTES
  BY DEF Streamed
<1>. HIDE DEF Regular
<1>. QED  BY <1>1, <1>2 DEF Payload, Weight

LEMMA SumsExist ==
  ASSUME NEW s \in Seq(EntryType)
  PROVE  \E f : Sums(s, f)
<1>. DEFINE step == [k \in 1..Len(s) |-> [v \in Nat |-> v + Weight(s[k])]]
<1>1. Len(s) \in Nat /\ 0 \in Nat /\ \A k \in 1..Len(s) : Weight(s[k]) \in Nat
  BY WeightIsNumber
<1>2. step \in [1..Len(s) -> [Nat -> Nat]]
  BY <1>1
<1>3. ASSUME NEW k \in 1..Len(s), NEW v \in Nat PROVE step[k][v] = v + Weight(s[k])
  OBVIOUS
<1>4. PICK f \in [0..Len(s) -> Nat] : Recursive(f, Len(s), 0, step)
  <2>. HIDE DEF step
  <2>. QED  BY <1>1, <1>2, RecursionExists, Zenon
<1>. HIDE DEF step
<1>5. f[0] = 0
  BY <1>4 DEF Recursive
<1>6. ASSUME NEW k \in 1..Len(s) PROVE f[k] = f[k - 1] + Weight(s[k])
  <2>1. k - 1 \in 0..Len(s)
    BY <1>1
  <2>2. f[k - 1] \in Nat
    BY <1>4, <2>1
  <2>3. f[k] = step[k][f[k - 1]]
    BY <1>4, Zenon DEF Recursive
  <2>. QED  BY <1>3, <2>2, <2>3, Zenon
<1>. QED  BY <1>5, <1>6, Zenon DEF Sums

LEMMA BufferedIsSum ==
  ASSUME call.op = "add_directory_all", NEW s \in Seq(EntryType), NEW f, Sums(s, f),
         NEW n \in 0..Len(s)
  PROVE  Buffered(s, n) = f[n]
<1>. DEFINE sum[k \in 0..n] ==
              IF k = 0 THEN 0
              ELSE sum[k - 1] + (IF Streamed(s[k]) THEN 0 ELSE Payload(s[k]))
            h == [k \in 0..n |-> f[k]]
<1>1. Len(s) \in Nat /\ n \in Nat /\ n <= Len(s)
  OBVIOUS
<1>2. ASSUME NEW k \in 1..n
      PROVE  /\ k \in 1..Len(s) /\ k - 1 \in 0..n /\ s[k] \in EntryType
             /\ (IF Streamed(s[k]) THEN 0 ELSE Payload(s[k])) = Weight(s[k])
  <2>1. k \in 1..Len(s) /\ k - 1 \in 0..n
    BY <1>1
  <2>2. s[k] \in EntryType
    BY <2>1
  <2>. QED  BY <2>1, <2>2, InTreeCalls
<1>3. h = [k \in 0..n |-> IF k = 0 THEN 0
                          ELSE h[k - 1] + (IF Streamed(s[k]) THEN 0 ELSE Payload(s[k]))]
  <2>1. \A k \in 0..n : k # 0 => k \in 1..n
    BY <1>1
  <2>2. ASSUME NEW k \in 0..n, k # 0
        PROVE  f[k] = h[k - 1] + (IF Streamed(s[k]) THEN 0 ELSE Payload(s[k]))
    <3>1. k \in 1..n /\ k \in 1..Len(s) /\ h[k - 1] = f[k - 1]
      BY <1>2, <2>1, <2>2
    <3>2. f[k] = f[k - 1] + Weight(s[k])
      BY <3>1, Zenon DEF Sums
    <3>3. (IF Streamed(s[k]) THEN 0 ELSE Payload(s[k])) = Weight(s[k])
      BY <1>2, <3>1, Zenon
    <3>. HIDE DEF h
    <3>. QED  BY <3>1, <3>2, <3>3, Zenon
  <2>3. f[0] = 0
    BY DEF Sums
  <2>. QED  BY <2>2, <2>3, Zenon
<1>4. sum = [k \in 0..n |-> IF k = 0 THEN 0
                            ELSE sum[k - 1] + (IF Streamed(s[k]) THEN 0 ELSE Payload(s[k]))]
  <2>. HIDE DEF h
  <2>. QED  BY <1>3, Zenon DEF sum
<1>. HIDE DEF sum, h
<1>5. 0 \in 0..n /\ sum[0] = 0
  BY <1>1, <1>4
<1>6. ASSUME NEW k \in 1..n PROVE sum[k] = sum[k - 1] + Weight(s[k])
  <2>1. k \in 0..n /\ k # 0
    BY <1>1
  <2>2. sum[k] = sum[k - 1] + (IF Streamed(s[k]) THEN 0 ELSE Payload(s[k]))
    BY <1>4, <2>1, Zenon
  <2>. QED  BY <1>2, <2>2, Zenon
<1>. DEFINE T == { k \in 0..n : sum[k] = f[k] }
<1>7. 0 \in T
  BY <1>5, Zenon DEF Sums
<1>8. ASSUME NEW k \in 0..(n - 1), k \in T PROVE k + 1 \in T
  <2>1. k + 1 \in 1..n /\ k + 1 \in 0..n /\ (k + 1) - 1 = k
    BY <1>1, Positions, Zenon
  <2>2. sum[k + 1] = sum[k] + Weight(s[k + 1])
    BY <1>6, <2>1, Zenon
  <2>3. k + 1 \in 1..Len(s)
    BY <1>2, <2>1, Zenon
  <2>4. f[k + 1] = f[k] + Weight(s[k + 1])
    BY <2>1, <2>3, Zenon DEF Sums
  <2>5. sum[k] = f[k]
    BY <1>8, Zenon
  <2>. QED  BY <2>1, <2>2, <2>4, <2>5, Zenon
<1>9. \A k \in 0..n : k \in T
  <2>. HIDE DEF T
  <2>. QED  BY <1>1, <1>7, <1>8, CountingUp
<1>10. n \in 0..n
  BY <1>1
<1>11. sum[n] = f[n]
  BY <1>9, <1>10
<1>. QED  BY <1>11, Zenon DEF Buffered, sum

LEMMA LightEmpty == Light(<<>>)
<1>1. SOURCE_FILE_PREPARATION_BATCH_BYTES \in Nat \ {0} /\ BUFFERED_SOURCE_FILE_BYTES \in Nat
  BY BuilderAssumption
<1>2. 0 < GroupBytes
  BY <1>1 DEF GroupBytes
<1>3. PICK f : Sums(<<>>, f)
  <2>1. <<>> \in Seq(EntryType)
    OBVIOUS
  <2>. QED  BY <2>1, SumsExist, Zenon
<1>4. f[0] = 0 /\ Len(<<>>) = 0
  BY <1>3 DEF Sums
<1>. QED  BY <1>2, <1>3, <1>4, Zenon DEF Light

(* What is left of a group once its first entry is written is no heavier.  *)
LEMMA LightTail ==
  ASSUME NEW s \in Seq(EntryType), s # <<>>, Light(s)
  PROVE  Light(Tail(s))
<1>1. PICK f : Sums(s, f) /\ f[Len(s)] < GroupBytes
  BY Zenon DEF Light
<1>. DEFINE t == Tail(s)
<1>2. /\ t \in Seq(EntryType) /\ Len(s) \in Nat /\ Len(t) \in Nat /\ Len(s) = Len(t) + 1
      /\ \A k \in 1..Len(t) : t[k] = s[k + 1]
  BY EmptySeq
<1>. HIDE DEF t
<1>3. PICK g : Sums(t, g)
  BY <1>2, SumsExist, Zenon
<1>. DEFINE T == { k \in 0..Len(t) : g[k] <= f[k + 1] }
<1>4. f \in [0..Len(s) -> Nat] /\ g \in [0..Len(t) -> Nat]
  BY <1>1, <1>3, Zenon DEF Sums
<1>5. 0 \in T
  <2>1. g[0] = 0 /\ 0 \in 0..Len(t) /\ 0 + 1 \in 0..Len(s)
    BY <1>2, <1>3 DEF Sums
  <2>2. f[0 + 1] \in Nat
    BY <1>4, <2>1
  <2>. QED  BY <2>1, <2>2
<1>6. ASSUME NEW k \in 0..(Len(t) - 1), k \in T PROVE k + 1 \in T
  <2>1. /\ k + 1 \in 1..Len(t) /\ (k + 1) - 1 = k /\ k + 1 \in 0..Len(t) /\ k \in 0..Len(t)
        /\ (k + 1) + 1 \in 1..Len(s) /\ ((k + 1) + 1) - 1 = k + 1 /\ k + 1 \in 0..Len(s)
    BY <1>2
  <2>2. t[k + 1] = s[(k + 1) + 1] /\ t[k + 1] \in EntryType
    BY <1>2, <2>1
  <2>3. g[k + 1] = g[k] + Weight(t[k + 1])
    BY <1>3, <2>1, Zenon DEF Sums
  <2>4. f[(k + 1) + 1] = f[k + 1] + Weight(t[k + 1])
    BY <1>1, <2>1, <2>2, Zenon DEF Sums
  <2>5. Weight(t[k + 1]) \in Nat /\ g[k] \in Nat /\ f[k + 1] \in Nat
    BY <1>4, <2>1, <2>2, WeightIsNumber
  <2>6. g[k] <= f[k + 1]
    BY <1>6
  <2>7. \A a, b, c \in Nat : a <= b => a + c <= b + c
    OBVIOUS
  <2>8. g[k + 1] <= f[(k + 1) + 1]
    BY <2>3, <2>4, <2>5, <2>6, <2>7, Zenon
  <2>. QED  BY <2>1, <2>8
<1>7. g[Len(t)] <= f[Len(s)]
  <2>1. \A k \in 0..Len(t) : k \in T
    <3>. HIDE DEF T
    <3>. QED  BY <1>2, <1>5, <1>6, CountingUp
  <2>2. Len(t) \in 0..Len(t)
    BY <1>2
  <2>. QED  BY <1>2, <2>1, <2>2
<1>8. g[Len(t)] \in Nat /\ f[Len(s)] \in Nat /\ GroupBytes \in Nat
  <2>1. Len(t) \in 0..Len(t) /\ Len(s) \in 0..Len(s)
    BY <1>2
  <2>. QED  BY <1>4, <2>1, BuilderAssumption DEF GroupBytes
<1>9. g[Len(t)] < GroupBytes
  BY <1>1, <1>7, <1>8
<1>. QED  BY <1>3, <1>9, Zenon DEF Light, t

(* A group ends where the target is reached: the entries before the last   *)
(* are below it.                                                           *)
LEMMA LightGroup ==
  ASSUME call.op = "add_directory_all", NEW s \in Seq(EntryType), NEW n \in 1..Len(s),
         IsGroup(s, n)
  PROVE  Light(SubSeq(s, 1, n))
<1>1. PICK f : Sums(s, f)
  BY SumsExist, Zenon
<1>. DEFINE group == SubSeq(s, 1, n)
            g == [k \in 0..n |-> f[k]]
            PREP == SOURCE_FILE_PREPARATION_BATCH_BYTES
            T == { k \in 0..(n - 1) : f[k] < PREP }
<1>2. /\ f \in [0..Len(s) -> Nat] /\ f[0] = 0
      /\ \A k \in 1..Len(s) : f[k] = f[k - 1] + Weight(s[k])
  BY <1>1, Zenon DEF Sums
<1>3. PREP \in Nat \ {0} /\ BUFFERED_SOURCE_FILE_BYTES \in Nat
  BY BuilderAssumption
<1>4. Len(s) \in Nat /\ n \in Nat /\ n - 1 \in Nat /\ n \in 1..Len(s)
  OBVIOUS
<1>. HIDE DEF PREP
<1>5. 0 \in T
  BY <1>2, <1>3, <1>4
<1>6. ASSUME NEW k \in 0..((n - 1) - 1), k \in T PROVE k + 1 \in T
  <2>1. k + 1 \in 1..(n - 1) /\ k + 1 \in 0..(n - 1) /\ k + 1 \in 1..Len(s) /\ k + 1 \in 0..Len(s)
        /\ (k + 1) - 1 = k /\ k \in 0..Len(s)
    BY <1>4
  <2>2. ~EndsGroup(s, k + 1)
    BY <2>1, Zenon DEF IsGroup
  <2>3. Buffered(s, k + 1) = f[k + 1]
    BY <1>1, <2>1, BufferedIsSum
  <2>4. f[k + 1] = f[k] + Weight(s[k + 1]) /\ f[k] \in Nat /\ f[k] < PREP
    BY <1>2, <1>6, <2>1
  <2>5. f[k + 1] \in Nat
    BY <1>2, <2>1
  <2>6. CASE Regular(s[k + 1])
    <3>1. ~(f[k + 1] >= PREP)
      BY <2>2, <2>3, <2>6, Zenon DEF EndsGroup, PREP
    <3>. QED  BY <1>3, <2>1, <2>5, <3>1
  <2>7. CASE ~Regular(s[k + 1])
    <3>1. Weight(s[k + 1]) = 0
      BY <2>7, Zenon DEF Weight
    <3>. QED  BY <2>1, <2>4, <3>1
  <2>. QED  BY <2>6, <2>7
<1>7. f[n - 1] < PREP
  <2>1. \A k \in 0..(n - 1) : k \in T
    <3>. HIDE DEF T
    <3>. QED  BY <1>4, <1>5, <1>6, CountingUp
  <2>2. n - 1 \in 0..(n - 1)
    BY <1>4
  <2>. QED  BY <2>1, <2>2
<1>8. f[n] < GroupBytes
  <2>1. f[n] = f[n - 1] + Weight(s[n]) /\ n - 1 \in 0..Len(s) /\ s[n] \in EntryType
    BY <1>2, <1>4
  <2>2. f[n - 1] \in Nat
    BY <1>2, <2>1
  <2>3. Weight(s[n]) \in Nat /\ Weight(s[n]) <= BUFFERED_SOURCE_FILE_BYTES
    BY <2>1, WeightIsNumber
  <2>4. \A a, b \in Nat : a < PREP /\ b <= BUFFERED_SOURCE_FILE_BYTES
                            => a + b < PREP + BUFFERED_SOURCE_FILE_BYTES
    BY <1>3
  <2>. QED  BY <1>7, <2>1, <2>2, <2>3, <2>4, Zenon DEF GroupBytes, PREP
<1>9. Len(group) = n /\ \A k \in 1..n : group[k] = s[k]
  BY <1>4
<1>10. Sums(group, g)
  <2>. HIDE DEF group
  <2>1. \A k \in 0..n : k \in 0..Len(s)
    BY <1>4
  <2>2. g \in [0..n -> Nat] /\ 0 \in 0..n
    BY <1>2, <1>4, <2>1
  <2>3. ASSUME NEW k \in 1..n PROVE g[k] = g[k - 1] + Weight(group[k])
    <3>1. k \in 0..n /\ k - 1 \in 0..n /\ k \in 1..Len(s)
      BY <1>4
    <3>. QED  BY <1>2, <1>9, <3>1, Zenon
  <2>. HIDE DEF g
  <2>4. g[0] = 0
    BY <1>2, <2>2 DEF g
  <2>. QED  BY <1>9, <2>2, <2>3, <2>4, Zenon DEF Sums
<1>11. g[n] = f[n]
  BY <1>4
<1>. HIDE DEF g, group
<1>. QED  BY <1>8, <1>9, <1>10, <1>11, Zenon DEF Light, group

(* Lists of at most b elements each.                                       *)
LEMMA ConcatLength ==
  ASSUME NEW V, NEW lists \in Seq(Seq(V)), NEW b \in Nat,
         \A i \in 1..Len(lists) : Len(lists[i]) <= b
  PROVE  Len(Concat(lists)) \in Nat /\ Len(Concat(lists)) <= Len(lists) * b
<1>. DEFINE n == Len(lists)
            join[k \in 0..n] == IF k = 0 THEN <<>> ELSE join[k - 1] \o lists[k]
            step == [k \in 1..n |-> [v \in Seq(V) |-> v \o lists[k]]]
<1>1. n \in Nat /\ <<>> \in Seq(V) /\ \A k \in 1..n : lists[k] \in Seq(V)
  OBVIOUS
<1>2. step \in [1..n -> [Seq(V) -> Seq(V)]]
  BY <1>1
<1>3. ASSUME NEW k \in 1..n, NEW v \in Seq(V) PROVE step[k][v] = v \o lists[k]
  OBVIOUS
<1>4. PICK f \in [0..n -> Seq(V)] : Recursive(f, n, <<>>, step)
  <2>. HIDE DEF step, n, join
  <2>. QED  BY <1>1, <1>2, RecursionExists, Zenon
<1>. HIDE DEF step, n, join
<1>5. f[0] = <<>>
  BY <1>4 DEF Recursive
<1>6. ASSUME NEW k \in 1..n PROVE f[k] = f[k - 1] \o lists[k]
  <2>1. k - 1 \in 0..n
    BY <1>1
  <2>2. f[k - 1] \in Seq(V)
    BY <1>4, <2>1
  <2>3. f[k] = step[k][f[k - 1]]
    BY <1>4, Zenon DEF Recursive
  <2>. QED  BY <1>3, <2>2, <2>3, Zenon
<1>7. f = [k \in 0..n |-> IF k = 0 THEN <<>> ELSE f[k - 1] \o lists[k]]
  <2>1. \A k \in 0..n : k # 0 => k \in 1..n
    BY <1>1
  <2>2. \A k \in 0..n : f[k] = IF k = 0 THEN <<>> ELSE f[k - 1] \o lists[k]
    BY <1>5, <1>6, <2>1, Zenon
  <2>. QED  BY <2>2, Zenon
<1>8. join = [k \in 0..n |-> IF k = 0 THEN <<>> ELSE join[k - 1] \o lists[k]]
  BY <1>7, Zenon DEF join
<1>9. 0 \in 0..n /\ join[0] = <<>>
  BY <1>1, <1>8
<1>10. ASSUME NEW k \in 1..n PROVE join[k] = join[k - 1] \o lists[k]
  <2>1. k \in 0..n /\ k # 0
    BY <1>1
  <2>. QED  BY <1>8, <2>1, Zenon
<1>. DEFINE T == { k \in 0..n : join[k] \in Seq(V) /\ Len(join[k]) <= k * b }
<1>11. 0 \in T
  <2>1. <<>> \in Seq(V) /\ Len(<<>>) = 0 /\ 0 * b = 0
    OBVIOUS
  <2>2. join[0] \in Seq(V) /\ Len(join[0]) <= 0 * b
    BY <1>9, <2>1
  <2>. QED  BY <1>9, <2>2
<1>12. ASSUME NEW k \in 0..(n - 1), k \in T PROVE k + 1 \in T
  <2>1. k + 1 \in 1..n /\ k + 1 \in 0..n /\ (k + 1) - 1 = k /\ k \in Nat
    BY <1>1
  <2>2. join[k + 1] = join[k] \o lists[k + 1]
    BY <1>10, <2>1, Zenon
  <2>3. join[k] \in Seq(V) /\ Len(join[k]) <= k * b /\ lists[k + 1] \in Seq(V)
    BY <1>1, <1>12, <2>1
  <2>4. join[k + 1] \in Seq(V) /\ Len(join[k + 1]) = Len(join[k]) + Len(lists[k + 1])
    BY <2>2, <2>3
  <2>5. Len(lists[k + 1]) <= b /\ Len(lists[k + 1]) \in Nat /\ Len(join[k]) \in Nat
    BY <2>1, <2>3 DEF n
  <2>6. (k + 1) * b = k * b + b /\ k * b \in Nat
    BY <2>1
  <2>7. \A x, y, z \in Nat : x <= z /\ y <= b => x + y <= z + b
    OBVIOUS
  <2>8. Len(join[k + 1]) <= (k + 1) * b
    BY <2>3, <2>4, <2>5, <2>6, <2>7, Zenon
  <2>. QED  BY <2>1, <2>4, <2>8
<1>13. \A k \in 0..n : k \in T
  <2>. HIDE DEF T
  <2>. QED  BY <1>1, <1>11, <1>12, CountingUp
<1>14. n \in 0..n
  BY <1>1
<1>15. join[n] \in Seq(V) /\ Len(join[n]) <= n * b
  BY <1>13, <1>14
<1>16. Concat(lists) = join[n]
  BY Zenon DEF Concat, join, n
<1>. QED  BY <1>15, <1>16 DEF n

LEMMA MemoryInitInv == BuilderClientInit => MemoryInv
BY TraversalAssumption
   DEF BuilderClientInit, BuilderInit, TraversalInit, NoProducer, MemoryInv, Idle

(* A step of the call: what it holds and what the channel holds.           *)
LEMMA CallHolds ==
  ASSUME MemoryInv, UNCHANGED producer, channel' = channel \/ channel' = <<>>,
         call'.op = "add_directory_all" =>
           /\ Len(call'.prepared) + Len(call'.batch) <= DIRECTORY_TRAVERSAL_BATCH_ENTRIES
           /\ Light(call'.prepared)
           /\ call'.step = "receive" => call'.prepared = <<>> /\ call'.batch = <<>>
           /\ call'.step = "prepare" => call'.prepared = <<>>
  PROVE  MemoryInv'
<1>1. Light(call.prepared)' <=> Light(call'.prepared)
  BY DEF Light, Sums
<1>2. /\ Len(channel') <= DIRECTORY_TRAVERSAL_BUFFER_BATCHES
      /\ \A i \in 1..Len(channel') : Len(channel'[i]) <= DIRECTORY_TRAVERSAL_BATCH_ENTRIES
  BY TraversalAssumption DEF MemoryInv
<1>. QED  BY <1>1, <1>2 DEF MemoryInv

LEMMA WindsHolds ==
  ASSUME BuilderInv, MemoryInv, call.op = "add_directory_all", NEW failure, Winds(failure)
  PROVE  MemoryInv'
<1>1. call' = [call EXCEPT !.step = "finish", !.failure = failure] /\ call \in TreeCalls
  BY TreeCallsOnly DEF Winds
<1>2. /\ call'.op = call.op /\ call'.step = "finish"
      /\ call'.prepared = call.prepared /\ call'.batch = call.batch
  BY <1>1 DEF TreeCalls
<1>3. producer' = producer /\ channel' = <<>>
  BY DEF Winds, DropReceiver
<1>. QED  BY <1>2, <1>3, CallHolds DEF MemoryInv

LEMMA HookHolds ==
  ASSUME BuilderInv, MemoryInv, Hook
  PROVE  MemoryInv'
<1>1. /\ InHook /\ call \in AddCalls \cup TreeCalls
      /\ call.prepared \in Seq(EntryType) /\ call.prepared # <<>>
  BY EntryTyped DEF Hook
<1>2. ASSUME NEW failure, HookFailed(failure) PROVE MemoryInv'
  <2>1. CASE call.op = "add"
    BY <1>2, <2>1, CallHolds DEF HookFailed, Returns, Idle, traversalVars
  <2>2. CASE call.op = "add_directory_all"
    BY <1>2, <2>2, WindsHolds DEF HookFailed
  <2>. QED  BY <1>1, <2>1, <2>2 DEF InHook
<1>3. ASSUME NEW n, HookGoesOn(n) PROVE MemoryInv'
  <2>1. call' = [call EXCEPT !.written = n] /\ UNCHANGED traversalVars
    BY <1>3 DEF HookGoesOn
  <2>2. call.op = "add_directory_all" =>
          call'.prepared = call.prepared /\ call'.batch = call.batch /\ call'.step = call.step
    BY <1>1, <2>1 DEF AddCalls, TreeCalls
  <2>3. call'.op = call.op
    BY <1>1, <2>1 DEF AddCalls, TreeCalls
  <2>. QED  BY <2>1, <2>2, <2>3, CallHolds DEF MemoryInv, traversalVars
<1>4. CASE HookReturns
  <2>1. CASE call.op = "add"
    BY <1>4, <2>1, CallHolds DEF HookReturns, Returns, Idle, traversalVars
  <2>2. CASE call.op = "add_directory_all"
    <3>. DEFINE rest == Tail(call.prepared)
    <3>1. call' = [call EXCEPT !.prepared = rest, !.written = 0, !.emitted = TRUE,
                               !.step = AfterGroup(rest)]
          /\ UNCHANGED traversalVars
      BY <1>4, <2>2 DEF HookReturns
    <3>2. call \in TreeCalls /\ call.batch \in Seq(EntryType)
      BY <2>2, TreeCallsOnly DEF TreeCalls
    <3>3. Light(rest) /\ rest \in Seq(EntryType)
      BY <1>1, <2>2, LightTail DEF MemoryInv
    <3>4. Len(rest) = Len(call.prepared) - 1 /\ Len(call.prepared) \in Nat /\ Len(call.batch) \in Nat
      BY <1>1, <3>2, EmptySeq
    <3>. HIDE DEF rest
    <3>5. /\ call'.prepared = rest /\ call'.batch = call.batch /\ call'.step = AfterGroup(rest)
      BY <3>1, <3>2 DEF TreeCalls
    <3>6. Len(rest) + Len(call.batch) <= DIRECTORY_TRAVERSAL_BATCH_ENTRIES
      <4>1. Len(call.prepared) + Len(call.batch) <= DIRECTORY_TRAVERSAL_BATCH_ENTRIES
        BY <2>2 DEF MemoryInv
      <4>2. DIRECTORY_TRAVERSAL_BATCH_ENTRIES \in Nat
        BY TraversalAssumption
      <4>3. \A p, u, b \in Nat : p + u <= b => (p - 1) + u <= b
        OBVIOUS
      <4>. QED  BY <3>4, <4>1, <4>2, <4>3, Zenon
    <3>7. /\ AfterGroup(rest) = "receive" => rest = <<>> /\ call.batch = <<>>
          /\ AfterGroup(rest) = "prepare" => rest = <<>>
      BY DEF AfterGroup
    <3>. QED  BY <3>1, <3>3, <3>5, <3>6, <3>7, CallHolds DEF traversalVars
  <2>. QED  BY <1>1, <2>1, <2>2 DEF InHook
<1>. QED  BY <1>2, <1>3, <1>4 DEF Hook

LEMMA ReceiveBatchHolds ==
  ASSUME BuilderInv, MemoryInv, ReceiveBatch
  PROVE  MemoryInv'
<1>1. call.op = "add_directory_all" /\ call.step = "receive" /\ call \in TreeCalls
  BY TreeCallsOnly DEF ReceiveBatch
<1>2. CASE \E batch \in {channel[i] : i \in 1..Len(channel)} :
             /\ Receive(batch)
             /\ call' = [call EXCEPT !.step = "prepare", !.batch = batch]
  <2>1. PICK batch : /\ Receive(batch)
                     /\ call' = [call EXCEPT !.step = "prepare", !.batch = batch]
    BY <1>2
  <2>2. channel \in Seq(Seq(EntryType)) /\ channel # <<>> /\ channel' = Tail(channel)
        /\ producer' = producer /\ batch = channel[1]
    BY <2>1 DEF Receive, BuilderInv, TraversalType
  <2>3. /\ Len(channel) \in Nat /\ Len(channel) >= 1 /\ Len(channel') = Len(channel) - 1
        /\ \A i \in 1..Len(channel') : channel'[i] = channel[i + 1] /\ i + 1 \in 1..Len(channel)
    BY <2>2, EmptySeq
  <2>4. /\ Len(channel') <= DIRECTORY_TRAVERSAL_BUFFER_BATCHES
        /\ \A i \in 1..Len(channel') : Len(channel'[i]) <= DIRECTORY_TRAVERSAL_BATCH_ENTRIES
    <3>1. Len(channel) <= DIRECTORY_TRAVERSAL_BUFFER_BATCHES
          /\ \A i \in 1..Len(channel) : Len(channel[i]) <= DIRECTORY_TRAVERSAL_BATCH_ENTRIES
      BY DEF MemoryInv
    <3>2. Len(channel') <= DIRECTORY_TRAVERSAL_BUFFER_BATCHES
      BY <2>3, <3>1, TraversalAssumption
    <3>. QED  BY <2>3, <3>1, <3>2
  <2>5. call'.op = call.op /\ call'.step = "prepare" /\ call'.batch = batch
        /\ call'.prepared = <<>>
    BY <1>1, <2>1 DEF TreeCalls, MemoryInv
  <2>6. Len(call'.prepared) + Len(call'.batch) <= DIRECTORY_TRAVERSAL_BATCH_ENTRIES
    <3>1. Len(batch) <= DIRECTORY_TRAVERSAL_BATCH_ENTRIES /\ Len(batch) \in Nat
      BY <2>2, <2>3 DEF MemoryInv
    <3>. QED  BY <2>5, <3>1
  <2>7. Light(call.prepared)'
    <3>1. Light(<<>>)
      BY LightEmpty
    <3>. QED  BY <2>5, <3>1 DEF Light, Sums
  <2>. QED  BY <2>2, <2>4, <2>5, <2>6, <2>7 DEF MemoryInv
<1>3. CASE Winds(NoFailure)
  BY <1>1, <1>3, WindsHolds
<1>. QED  BY <1>2, <1>3 DEF ReceiveBatch

LEMMA PrepareHolds ==
  ASSUME BuilderInv, MemoryInv, Prepare
  PROVE  MemoryInv'
<1>1. call.op = "add_directory_all" /\ call.step = "prepare" /\ call \in TreeCalls
  BY TreeCallsOnly DEF Prepare
<1>2. PICK n \in 1..Len(call.batch) :
        /\ IsGroup(call.batch, n)
        /\ \/ /\ call' = [call EXCEPT !.step = "hook", !.prepared = SubSeq(call.batch, 1, n),
                                      !.batch = RemainingEntries(call.batch, n)]
              /\ UNCHANGED traversalVars
           \/ Winds(Recoverable("Filesystem"))
  BY DEF Prepare
<1>3. CASE Winds(Recoverable("Filesystem"))
  BY <1>1, <1>3, WindsHolds
<1>4. CASE /\ call' = [call EXCEPT !.step = "hook", !.prepared = SubSeq(call.batch, 1, n),
                                   !.batch = RemainingEntries(call.batch, n)]
           /\ UNCHANGED traversalVars
  <2>. DEFINE group == SubSeq(call.batch, 1, n)
              rest == RemainingEntries(call.batch, n)
  <2>1. call.batch \in Seq(EntryType) /\ call.prepared = <<>> /\ Len(call.batch) \in Nat
    BY <1>1 DEF TreeCalls, MemoryInv
  <2>2. Light(group)
    BY <1>1, <1>2, <2>1, LightGroup
  <2>3. Len(group) + Len(rest) = Len(call.batch)
    BY <2>1 DEF RemainingEntries
  <2>4. Len(call.batch) <= DIRECTORY_TRAVERSAL_BATCH_ENTRIES
    <3>1. Len(<<>>) + Len(call.batch) <= DIRECTORY_TRAVERSAL_BATCH_ENTRIES
      BY <1>1, <2>1 DEF MemoryInv
    <3>. QED  BY <2>1, <3>1
  <2>. HIDE DEF group, rest
  <2>5. call'.prepared = group /\ call'.batch = rest /\ call'.step = "hook"
    BY <1>1, <1>4 DEF TreeCalls, group, rest
  <2>. QED  BY <1>4, <2>2, <2>3, <2>4, <2>5, CallHolds DEF traversalVars
<1>. QED  BY <1>2, <1>3, <1>4

LEMMA ProducingHolds ==
  ASSUME BuilderInv, MemoryInv, Producing
  PROVE  MemoryInv'
<1>1. call' = call /\ Produce
  BY DEF Producing
<1>2. Light(call.prepared)' <=> Light(call.prepared)
  BY <1>1 DEF Light, Sums
<1>3. /\ producer.walk \in Seq(EntryType) /\ producer.batch \in Seq(EntryType)
      /\ channel \in Seq(Seq(EntryType))
      /\ producer \in [status : {"none", "walking", "sending", "stopped"}, walk : Seq(EntryType),
                       batch : Seq(EntryType), failed : BOOLEAN]
  BY DEF BuilderInv, TraversalType
<1>4. CASE NextBatch
  <2>. DEFINE first == SubSeq(producer.walk, 1, BatchLength)
              rest == SubSeq(producer.walk, BatchLength + 1, Len(producer.walk))
  <2>1. /\ BatchLength \in Nat /\ BatchLength <= Len(producer.walk) /\ Len(producer.walk) \in Nat
        /\ BatchLength <= DIRECTORY_TRAVERSAL_BATCH_ENTRIES
    BY <1>3, TraversalAssumption DEF BatchLength
  <2>2. Len(first) = BatchLength
    BY <1>3, <2>1
  <2>3. \/ producer' = [producer EXCEPT !.status = "stopped"]
        \/ producer' = [producer EXCEPT !.status = "sending", !.batch = first, !.walk = rest]
    BY <1>3, <1>4 DEF NextBatch
  <2>. HIDE DEF first, rest
  <2>4. producer'.batch = producer.batch \/ producer'.batch = first
    BY <1>3, <2>3
  <2>5. Len(producer'.batch) <= DIRECTORY_TRAVERSAL_BATCH_ENTRIES
    BY <2>1, <2>2, <2>4 DEF MemoryInv
  <2>6. channel' = channel
    BY <1>4 DEF NextBatch
  <2>. QED  BY <1>1, <1>2, <2>5, <2>6 DEF MemoryInv
<1>5. CASE WalkFails
  <2>1. producer'.batch = producer.batch /\ channel' = channel
    BY <1>3, <1>5 DEF WalkFails
  <2>. QED  BY <1>1, <1>2, <2>1 DEF MemoryInv
<1>6. CASE Send
  <2>1. /\ Len(channel) < DIRECTORY_TRAVERSAL_BUFFER_BATCHES
        /\ channel' = Append(channel, producer.batch) /\ producer'.batch = <<>>
    BY <1>3, <1>6 DEF Send
  <2>2. /\ Len(channel) \in Nat /\ Len(channel') = Len(channel) + 1
        /\ \A i \in 1..Len(channel) : channel'[i] = channel[i]
        /\ channel'[Len(channel) + 1] = producer.batch
    BY <1>3, <2>1
  <2>3. Len(channel') <= DIRECTORY_TRAVERSAL_BUFFER_BATCHES
    BY <2>1, <2>2, TraversalAssumption
  <2>4. ASSUME NEW i \in 1..Len(channel') PROVE Len(channel'[i]) <= DIRECTORY_TRAVERSAL_BATCH_ENTRIES
    <3>1. i \in 1..Len(channel) \/ i = Len(channel) + 1
      BY <2>2
    <3>. QED  BY <2>2, <3>1 DEF MemoryInv
  <2>5. Len(producer'.batch) <= DIRECTORY_TRAVERSAL_BATCH_ENTRIES
    BY <2>1, TraversalAssumption
  <2>. QED  BY <1>1, <1>2, <2>3, <2>4, <2>5 DEF MemoryInv
<1>7. CASE SendFails
  <2>1. producer'.batch = <<>> /\ channel' = channel
    BY <1>3, <1>7 DEF SendFails
  <2>2. Len(producer'.batch) <= DIRECTORY_TRAVERSAL_BATCH_ENTRIES
    BY <2>1, TraversalAssumption
  <2>. QED  BY <1>1, <1>2, <2>1, <2>2 DEF MemoryInv
<1>. QED  BY <1>1, <1>4, <1>5, <1>6, <1>7 DEF Produce

LEMMA MemoryNextInv ==
  BuilderInv /\ MemoryInv /\ [BuilderClientNext]_builderClientVars => MemoryInv'
<1>. SUFFICES ASSUME BuilderInv, MemoryInv, [BuilderClientNext]_builderClientVars
              PROVE  MemoryInv'
  OBVIOUS
<1>1. CASE UNCHANGED builderClientVars
  <2>1. UNCHANGED <<call, producer, channel>>
    BY <1>1 DEF builderClientVars, builderVars, traversalVars
  <2>. QED  BY <2>1, CallHolds DEF MemoryInv
<1>2. ASSUME NEW entry \in Entries, Add(entry) PROVE MemoryInv'
  <2>1. call'.op \in {"idle", "add"} /\ UNCHANGED <<producer, channel>>
    <3>1. CASE \E error : Refuse(error)
      BY <3>1 DEF Refuse, Returns, Idle, traversalVars
    <3>2. CASE /\ \E reader : call' = [op |-> "add", step |-> "hook", prepared |-> <<entry>>,
                                      written |-> 0, reader |-> reader]
               /\ UNCHANGED traversalVars
      BY <3>2 DEF traversalVars
    <3>. QED  BY <1>2, <3>1, <3>2 DEF Add
  <2>. QED  BY <2>1, CallHolds
<1>3. ASSUME NEW tree \in Trees, AddDirectoryAll(tree) PROVE MemoryInv'
  <2>1. CASE call'.op = "idle" /\ UNCHANGED <<producer, channel>>
    BY <2>1, CallHolds
  <2>2. CASE /\ Spawn(tree)
             /\ call' = [op |-> "add_directory_all", step |-> "receive", batch |-> <<>>,
                         prepared |-> <<>>, written |-> 0, emitted |-> FALSE,
                         failure |-> NoFailure]
    <3>1. producer'.batch = <<>> /\ channel' = <<>> /\ call'.prepared = <<>> /\ call'.batch = <<>>
          /\ call'.step = "receive"
      BY <2>2 DEF Spawn, NoProducer
    <3>2. Light(call.prepared)'
      <4>1. Light(<<>>)
        BY LightEmpty
      <4>. QED  BY <3>1, <4>1 DEF Light, Sums
    <3>. QED  BY <3>1, <3>2, TraversalAssumption DEF MemoryInv
  <2>. QED  BY <1>3, <2>1, <2>2 DEF AddDirectoryAll, Refuse, Returns, Idle, traversalVars
<1>4. CASE Finish \/ CancelFinish \/ JoinTraversal \/ FinishArchive \/ CancelCall
  <2>1. call' \in {Idle, Gone} \/ call'.op = "finish"
    BY <1>4 DEF Finish, CancelFinish, JoinTraversal, FinishArchive, CancelCall, Returns
  <2>2. producer' = producer /\ (channel' = channel \/ channel' = <<>>)
    BY <1>4 DEF Finish, CancelFinish, JoinTraversal, FinishArchive, CancelCall, DropReceiver,
                traversalVars
  <2>3. call'.op # "add_directory_all"
    BY <2>1 DEF Idle, Gone
  <2>. QED  BY <2>2, <2>3, CallHolds
<1>5. CASE Hook \/ ReceiveBatch \/ Prepare \/ Producing
  BY <1>5, HookHolds, ReceiveBatchHolds, PrepareHolds, ProducingHolds
<1>. QED  BY <1>1, <1>2, <1>3, <1>4, <1>5 DEF BuilderClientNext, Proceed

LEMMA HoldsLittle ==
  ASSUME BuilderInv, MemoryInv
  PROVE  BoundedMemory
<1>. DEFINE b == DIRECTORY_TRAVERSAL_BATCH_ENTRIES
            c == DIRECTORY_TRAVERSAL_BUFFER_BATCHES
<1>. SUFFICES ASSUME call.op = "add_directory_all" PROVE BoundedMemory
  BY DEF BoundedMemory, AddsTree
<1>1. /\ call \in TreeCalls /\ call.prepared \in Seq(EntryType) /\ call.batch \in Seq(EntryType)
      /\ Prepared = call.prepared /\ Unprepared = call.batch
  BY TreeCallsOnly DEF TreeCalls, Prepared, Unprepared, AddsTree
<1>2. channel \in Seq(Seq(EntryType)) /\ producer.batch \in Seq(EntryType) /\ b \in Nat /\ c \in Nat
  BY TraversalAssumption DEF BuilderInv, TraversalType
<1>3. Buffered(Prepared, Len(Prepared)) < GroupBytes
  <2>1. PICK f : Sums(call.prepared, f) /\ f[Len(call.prepared)] < GroupBytes
    BY Zenon DEF MemoryInv, Light
  <2>2. Len(call.prepared) \in 0..Len(call.prepared)
    BY <1>1
  <2>. QED  BY <1>1, <2>1, <2>2, BufferedIsSum
<1>4. Len(Concat(channel)) \in Nat /\ Len(Concat(channel)) <= c * b
  <2>1. Len(Concat(channel)) \in Nat /\ Len(Concat(channel)) <= Len(channel) * b
    BY <1>2, ConcatLength DEF MemoryInv
  <2>2. Len(channel) \in Nat /\ Len(channel) <= c
    BY <1>2 DEF MemoryInv
  <2>. HIDE DEF b, c
  <2>3. \A x, y, z \in Nat : x <= y => x * z <= y * z
    OBVIOUS
  <2>4. \A x, z \in Nat : x * z \in Nat
    OBVIOUS
  <2>5. Len(channel) * b <= c * b /\ Len(channel) * b \in Nat /\ c * b \in Nat
    BY <1>2, <2>2, <2>3, <2>4, Zenon
  <2>. QED  BY <2>1, <2>5
<1>5. /\ Len(Prepared) \in Nat /\ Len(Unprepared) \in Nat /\ Len(producer.batch) \in Nat
      /\ Len(Prepared) + Len(Unprepared) <= b /\ Len(producer.batch) <= b
  <2>1. Len(call.prepared) + Len(call.batch) <= b /\ Len(producer.batch) <= b
    BY DEF MemoryInv
  <2>2. Len(call.prepared) \in Nat /\ Len(call.batch) \in Nat /\ Len(producer.batch) \in Nat
    BY <1>1, <1>2
  <2>. QED  BY <1>1, <2>1, <2>2
<1>6. Len(Prepared) + Len(Unprepared) + Len(Concat(channel)) + Len(producer.batch) <= (2 + c) * b
  <2>. HIDE DEF b, c
  <2>1. (2 + c) * b = b + c * b + b /\ c * b \in Nat
    BY <1>2
  <2>2. \A p, u, q, r, x \in Nat : p + u <= b /\ q <= x /\ r <= b => p + u + q + r <= b + x + b
    BY <1>2
  <2>. QED  BY <1>4, <1>5, <2>1, <2>2, Zenon
<1>. QED  BY <1>3, <1>6, Zenon DEF BoundedMemory, AddsTree, GroupBytes

(* However large the tree, a recursive addition holds no more entries than *)
(* its batches are long and buffers less than a group's target and one     *)
(* small file beyond it, whatever these limits are.                        *)
THEOREM AdditionsHoldLittle == BuilderClientSpec => []BoundedMemory
<1>1. BuilderInv /\ MemoryInv => BoundedMemory
  BY HoldsLittle
<1>. QED  BY BuilderInitInv, BuilderNextInv, MemoryInitInv, MemoryNextInv, <1>1, PTL
          DEF BuilderClientSpec
=============================================================================
