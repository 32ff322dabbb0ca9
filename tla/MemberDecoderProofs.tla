------------------------- MODULE MemberDecoderProofs -------------------------
(***************************************************************************)
(* What the decoder promises of the members it hands out holds of every    *)
(* archive: for any policies, any lists of records and any number of       *)
(* headers.                                                                *)
(***************************************************************************)
EXTENDS MemberDecoderClient, SharedLemmas, SequenceTheorems

RecordSeq == Seq(RecordType)

(* What y says of a keyword, and what x says if y says nothing.            *)
Over(x, y) == IF y = "absent" THEN x ELSE y

-----------------------------------------------------------------------------
(* The last record of a keyword.                                           *)

IsLast(records, keyword, i) ==
  /\ i \in 1..Len(records) /\ records[i].keyword = keyword
  /\ \A j \in (i + 1)..Len(records) : records[j].keyword # keyword

LEMMA RecordFields ==
  ASSUME NEW records \in RecordSeq
  PROVE  /\ Len(records) \in Nat /\ DOMAIN records = 1..Len(records)
         /\ \A i \in 1..Len(records) :
              /\ records[i] \in RecordType /\ records[i].keyword \in Keywords
              /\ records[i].value \in STRING /\ records[i].value # "absent"
<1>1. Len(records) \in Nat /\ DOMAIN records = 1..Len(records)
  BY DEF RecordSeq
<1>2. ASSUME NEW i \in 1..Len(records)
      PROVE  /\ records[i] \in RecordType /\ records[i].keyword \in Keywords
             /\ records[i].value \in STRING /\ records[i].value # "absent"
  <2>1. records[i] \in RecordType
    BY ElementOfSeq DEF RecordSeq
  <2>. QED  BY <2>1 DEF RecordType
<1>. QED  BY <1>1, <1>2

LEMMA GreatestNatural ==
  ASSUME NEW n \in Nat, NEW U \in SUBSET (1..n), U # {}
  PROVE  \E x \in U : \A y \in U : y <= x
<1>. DEFINE V == { n - y : y \in U }
<1>1. V \in SUBSET Nat /\ V # {}
  <2>1. \A y \in U : n - y \in Nat
    OBVIOUS
  <2>2. PICK y \in U : TRUE
    OBVIOUS
  <2>3. n - y \in V
    OBVIOUS
  <2>. QED  BY <2>1, <2>3
<1>2. PICK v \in V : \A w \in V : v <= w
  <2>. HIDE DEF V
  <2>1. PICK v \in V : TRUE
    BY <1>1
  <2>. QED  BY <1>1, <2>1, LeastNatural
<1>3. PICK x \in U : v = n - x
  BY <1>2
<1>4. ASSUME NEW y \in U PROVE y <= x
  <2>1. n - y \in V
    OBVIOUS
  <2>2. n - x <= n - y
    BY <1>2, <1>3, <2>1
  <2>. QED  BY <2>2
<1>. QED  BY <1>3, <1>4

LEMMA SomeIsLast ==
  ASSUME NEW records \in RecordSeq, NEW keyword, Occurrences(records, keyword) # {}
  PROVE  \E i \in 1..Len(records) : IsLast(records, keyword, i)
<1>1. Len(records) \in Nat /\ Occurrences(records, keyword) \in SUBSET (1..Len(records))
  BY RecordFields DEF Occurrences
<1>2. PICK i \in Occurrences(records, keyword) : \A j \in Occurrences(records, keyword) : j <= i
  BY <1>1, GreatestNatural
<1>. QED  BY <1>1, <1>2 DEF Occurrences, IsLast

LEMMA LastIsUnique ==
  ASSUME NEW records \in RecordSeq, NEW keyword,
         NEW i, NEW j, IsLast(records, keyword, i), IsLast(records, keyword, j)
  PROVE  i = j
BY RecordFields DEF IsLast

(* get: the last record decides.                                           *)
LEMMA LastDecides ==
  ASSUME NEW records \in RecordSeq, NEW keyword, NEW i, IsLast(records, keyword, i)
  PROVE  /\ Occurrences(records, keyword) # {} /\ LastOf(records, keyword) = i
         /\ Get(records, keyword) = records[i].value
         /\ LastWord(records, keyword) = records[i].value
<1>1. Len(records) \in Nat /\ DOMAIN records = 1..Len(records)
  BY RecordFields
<1>2. i \in Occurrences(records, keyword) /\ \A j \in Occurrences(records, keyword) : j <= i
  BY <1>1 DEF IsLast, Occurrences
<1>3. \A j \in Occurrences(records, keyword) : j \in Nat
  BY <1>1 DEF Occurrences
<1>4. LastOf(records, keyword) = i
  BY <1>2, <1>3 DEF LastOf
<1>5. { k \in DOMAIN records :
          /\ records[k].keyword = keyword
          /\ \A j \in (k + 1)..Len(records) : records[j].keyword # keyword } = {i}
  BY <1>1, LastIsUnique DEF IsLast
<1>6. LastWord(records, keyword) = records[i].value
  BY <1>5 DEF LastWord
<1>. QED  BY <1>2, <1>4, <1>6 DEF Get

LEMMA GetIsAbsent ==
  ASSUME NEW records \in RecordSeq, NEW keyword
  PROVE  /\ Get(records, keyword) = "absent" <=> Occurrences(records, keyword) = {}
         /\ Get(records, keyword) = "absent"
              <=> \A i \in 1..Len(records) : records[i].keyword # keyword
         /\ LastWord(records, keyword) = Get(records, keyword)
<1>1. CASE Occurrences(records, keyword) = {}
  <2>1. \A i \in 1..Len(records) : records[i].keyword # keyword
    BY <1>1 DEF Occurrences
  <2>2. LastWord(records, keyword) = "absent"
    BY <2>1, RecordFields DEF LastWord
  <2>. QED  BY <1>1, <2>1, <2>2 DEF Get
<1>2. CASE Occurrences(records, keyword) # {}
  <2>1. PICK i \in 1..Len(records) : IsLast(records, keyword, i)
    BY <1>2, SomeIsLast
  <2>2. records[i].value # "absent" /\ records[i].keyword = keyword
    BY <2>1, RecordFields DEF IsLast
  <2>3. Get(records, keyword) = records[i].value /\ LastWord(records, keyword) = records[i].value
    BY <2>1, LastDecides
  <2>. QED  BY <1>2, <2>2, <2>3
<1>. QED  BY <1>1, <1>2

LEMMA ConcatGet ==
  ASSUME NEW x \in RecordSeq, NEW y \in RecordSeq, NEW keyword
  PROVE  /\ x \o y \in RecordSeq
         /\ Get(x \o y, keyword) = Over(Get(x, keyword), Get(y, keyword))
<1>. DEFINE s == x \o y
<1>1. s \in RecordSeq /\ Len(s) = Len(x) + Len(y)
      /\ \A i \in 1..(Len(x) + Len(y)) : s[i] = IF i <= Len(x) THEN x[i] ELSE y[i - Len(x)]
  BY ConcatProperties DEF RecordSeq
<1>2. Len(x) \in Nat /\ Len(y) \in Nat
  BY RecordFields
<1>. HIDE DEF s
<1>3. CASE Occurrences(y, keyword) # {}
  <2>1. PICK i \in 1..Len(y) : IsLast(y, keyword, i)
    BY <1>3, SomeIsLast
  <2>2. i + Len(x) \in 1..Len(s) /\ s[i + Len(x)] = y[i]
    BY <1>1, <1>2
  <2>3. ASSUME NEW j \in (i + Len(x) + 1)..Len(s) PROVE s[j].keyword # keyword
    <3>1. j - Len(x) \in (i + 1)..Len(y) /\ s[j] = y[j - Len(x)]
      BY <1>1, <1>2
    <3>. QED  BY <2>1, <3>1 DEF IsLast
  <2>4. IsLast(s, keyword, i + Len(x))
    BY <2>1, <2>2, <2>3 DEF IsLast
  <2>5. Get(s, keyword) = y[i].value /\ Get(y, keyword) = y[i].value
    BY <1>1, <2>1, <2>2, <2>4, LastDecides
  <2>. QED  BY <1>1, <1>3, <2>5, GetIsAbsent DEF Over, s
<1>4. CASE Occurrences(y, keyword) = {} /\ Occurrences(x, keyword) # {}
  <2>1. PICK i \in 1..Len(x) : IsLast(x, keyword, i)
    BY <1>4, SomeIsLast
  <2>2. i \in 1..Len(s) /\ s[i] = x[i]
    BY <1>1, <1>2
  <2>3. ASSUME NEW j \in (i + 1)..Len(s) PROVE s[j].keyword # keyword
    <3>1. CASE j <= Len(x)
      <4>1. j \in (i + 1)..Len(x) /\ s[j] = x[j]
        BY <1>1, <1>2, <3>1
      <4>. QED  BY <2>1, <4>1 DEF IsLast
    <3>2. CASE ~(j <= Len(x))
      <4>1. j - Len(x) \in 1..Len(y) /\ s[j] = y[j - Len(x)]
        BY <1>1, <1>2, <3>2
      <4>. QED  BY <1>4, <4>1 DEF Occurrences
    <3>. QED  BY <3>1, <3>2
  <2>4. IsLast(s, keyword, i)
    BY <2>1, <2>2, <2>3 DEF IsLast
  <2>5. Get(s, keyword) = x[i].value /\ Get(x, keyword) = x[i].value
    BY <1>1, <2>1, <2>2, <2>4, LastDecides
  <2>. QED  BY <1>1, <1>4, <2>5, GetIsAbsent DEF Over, s
<1>5. CASE Occurrences(y, keyword) = {} /\ Occurrences(x, keyword) = {}
  <2>1. ASSUME NEW j \in 1..Len(s) PROVE s[j].keyword # keyword
    <3>1. CASE j <= Len(x)
      <4>1. j \in 1..Len(x) /\ s[j] = x[j]
        BY <1>1, <1>2, <3>1
      <4>. QED  BY <1>5, <4>1 DEF Occurrences
    <3>2. CASE ~(j <= Len(x))
      <4>1. j - Len(x) \in 1..Len(y) /\ s[j] = y[j - Len(x)]
        BY <1>1, <1>2, <3>2
      <4>. QED  BY <1>5, <4>1 DEF Occurrences
    <3>. QED  BY <3>1, <3>2
  <2>. QED  BY <1>1, <1>5, <2>1, GetIsAbsent DEF Over, s
<1>. QED  BY <1>3, <1>4, <1>5

-----------------------------------------------------------------------------
(* The records of a list of headers, one after the other.                  *)

Flattened(lists, f) ==
  f[0] = <<>> /\ \A k \in 1..Len(lists) : f[k] = f[k - 1] \o lists[k]

LEMMA FlattensExist ==
  ASSUME NEW lists \in Seq(RecordSeq)
  PROVE  \E f \in [0..Len(lists) -> RecordSeq] :
           Flattened(lists, f) /\ FlattenSeq(lists) = f[Len(lists)]
<1>. DEFINE N == Len(lists)
            step == [k \in 1..N |-> [s \in RecordSeq |-> s \o lists[k]]]
            flatten[i \in 1..N] == IF i = 1 THEN lists[i] ELSE flatten[i - 1] \o lists[i]
<1>1. N \in Nat /\ <<>> \in RecordSeq
  BY DEF RecordSeq
<1>2. \A k \in 1..N : lists[k] \in RecordSeq
  OBVIOUS
<1>3. \A k \in 1..N : \A s \in RecordSeq : s \o lists[k] \in RecordSeq
  BY <1>2 DEF RecordSeq
<1>4. step \in [1..N -> [RecordSeq -> RecordSeq]]
  BY <1>3
<1>5. \A k \in 1..N : \A s \in RecordSeq : step[k][s] = s \o lists[k]
  OBVIOUS
<1>6. PICK f \in [0..N -> RecordSeq] : Recursive(f, N, <<>>, step)
  <2>. HIDE DEF step, N
  <2>. QED  BY <1>1, <1>4, RecursionExists, Zenon
<1>. HIDE DEF step
<1>7. Flattened(lists, f)
  <2>1. f[0] = <<>>
    BY <1>6 DEF Recursive
  <2>2. ASSUME NEW k \in 1..N PROVE f[k] = f[k - 1] \o lists[k]
    <3>1. k - 1 \in 0..N
      BY <1>1
    <3>2. f[k - 1] \in RecordSeq
      BY <1>6, <3>1
    <3>3. f[k] = step[k][f[k - 1]]
      BY <1>6, Zenon DEF Recursive
    <3>. QED  BY <1>5, <3>2, <3>3, Zenon
  <2>. QED  BY <2>1, <2>2, Zenon DEF Flattened
<1>8. CASE N = 0
  <2>1. lists = <<>>
    BY <1>8
  <2>2. FlattenSeq(lists) = <<>>
    BY <1>8, <2>1, Zenon DEF FlattenSeq
  <2>3. f[N] = <<>>
    BY <1>6, <1>8, Zenon DEF Recursive
  <2>. QED  BY <1>6, <1>7, <2>2, <2>3
<1>9. CASE N # 0
  <2>. DEFINE h == [k \in 1..N |-> f[k]]
  <2>1. h = [i \in 1..N |-> IF i = 1 THEN lists[i] ELSE h[i - 1] \o lists[i]]
    <3>1. ASSUME NEW i \in 1..N, i = 1 PROVE f[i] = lists[i]
      <4>1. f[i] = f[i - 1] \o lists[i]
        BY <1>7, Zenon DEF Flattened
      <4>2. i - 1 = 0
        BY <3>1
      <4>3. f[i] = <<>> \o lists[i]
        BY <1>7, <4>1, <4>2, Zenon DEF Flattened
      <4>4. lists[i] \in RecordSeq
        BY <1>2
      <4>. QED  BY <4>3, <4>4, ConcatEmptySeq DEF RecordSeq
    <3>2. ASSUME NEW i \in 1..N, i # 1 PROVE f[i] = h[i - 1] \o lists[i]
      <4>1. i - 1 \in 1..N
        BY <1>1, <3>2
      <4>2. h[i - 1] = f[i - 1]
        BY <4>1, Zenon
      <4>3. f[i] = f[i - 1] \o lists[i]
        BY <1>7, Zenon DEF Flattened
      <4>. HIDE DEF h
      <4>. QED  BY <4>2, <4>3, Zenon
    <3>. QED  BY <3>1, <3>2, Zenon
  <2>2. flatten = [i \in 1..N |-> IF i = 1 THEN lists[i] ELSE flatten[i - 1] \o lists[i]]
    <3>. HIDE DEF h
    <3>. QED  BY <2>1, Zenon DEF flatten
  <2>3. FlattenSeq(lists) = flatten[N]
    BY <1>9, Zenon DEF FlattenSeq, flatten, N
  <2>. HIDE DEF flatten, h
  <2>. DEFINE T == { k \in 0..N : k = 0 \/ flatten[k] = f[k] }
  <2>4. 0 \in T
    BY <1>1
  <2>5. ASSUME NEW k \in 0..(N - 1), k \in T PROVE k + 1 \in T
    <3>1. k + 1 \in 1..N /\ k + 1 \in 0..N /\ (k + 1) - 1 = k /\ (k + 1 = 1 <=> k = 0)
      BY <1>1
    <3>2. f[k + 1] = f[k] \o lists[k + 1] /\ f[0] = <<>>
      BY <1>7, <3>1, Zenon DEF Flattened
    <3>3. CASE k = 0
      <4>1. flatten[k + 1] = lists[k + 1]
        BY <2>2, <3>1, <3>3, Zenon
      <4>2. lists[k + 1] \in RecordSeq
        BY <1>2, <3>1
      <4>3. <<>> \o lists[k + 1] = lists[k + 1]
        BY <4>2, ConcatEmptySeq DEF RecordSeq
      <4>4. f[k + 1] = flatten[k + 1]
        BY <3>2, <3>3, <4>1, <4>3, Zenon
      <4>. QED  BY <3>1, <4>4
    <3>4. CASE k # 0
      <4>1. flatten[k + 1] = flatten[k] \o lists[k + 1]
        BY <2>2, <3>1, <3>4, Zenon
      <4>2. flatten[k] = f[k]
        BY <2>5, <3>4
      <4>3. f[k + 1] = flatten[k + 1]
        BY <3>2, <4>1, <4>2, Zenon
      <4>. QED  BY <3>1, <4>3
    <3>. QED  BY <3>3, <3>4
  <2>6. N \in T
    <3>. HIDE DEF T
    <3>1. \A k \in 0..N : k \in T
      BY <1>1, <2>4, <2>5, CountingUp
    <3>2. N \in 0..N
      BY <1>1
    <3>. QED  BY <3>1, <3>2
  <2>7. flatten[N] = f[N]
    BY <1>9, <2>6
  <2>. QED  BY <1>6, <1>7, <2>3, <2>7, Zenon
<1>. QED  BY <1>8, <1>9

LEMMA FlattenType ==
  ASSUME NEW lists \in Seq(RecordSeq)
  PROVE  FlattenSeq(lists) \in RecordSeq
<1>1. PICK f \in [0..Len(lists) -> RecordSeq] : FlattenSeq(lists) = f[Len(lists)]
  BY FlattensExist
<1>2. Len(lists) \in 0..Len(lists)
  OBVIOUS
<1>. QED  BY <1>1, <1>2

LEMMA FlattenEmpties ==
  ASSUME NEW lists \in Seq(RecordSeq), \A k \in 1..Len(lists) : lists[k] = <<>>
  PROVE  FlattenSeq(lists) = <<>>
<1>. DEFINE N == Len(lists)
<1>1. N \in Nat
  OBVIOUS
<1>2. PICK f \in [0..N -> RecordSeq] : Flattened(lists, f) /\ FlattenSeq(lists) = f[N]
  BY FlattensExist
<1>. DEFINE T == { k \in 0..N : f[k] = <<>> }
<1>3. 0 \in T
  BY <1>1, <1>2 DEF Flattened
<1>4. ASSUME NEW k \in 0..(N - 1), k \in T PROVE k + 1 \in T
  <2>1. k + 1 \in 1..N /\ k + 1 \in 0..N /\ (k + 1) - 1 = k
    BY <1>1
  <2>2. f[k + 1] = f[k] \o lists[k + 1] /\ lists[k + 1] = <<>>
    BY <1>2, <2>1, Zenon DEF Flattened
  <2>3. f[k] = <<>>
    BY <1>4
  <2>4. <<>> \o <<>> = <<>>
    OBVIOUS
  <2>5. f[k + 1] = <<>>
    BY <2>2, <2>3, <2>4, Zenon
  <2>. QED  BY <2>1, <2>5
<1>5. N \in T
  <2>. HIDE DEF T
  <2>1. \A k \in 0..N : k \in T
    BY <1>1, <1>3, <1>4, CountingUp
  <2>. QED  BY <1>1, <2>1
<1>. QED  BY <1>2, <1>5

LEMMA RecordsConcat ==
  ASSUME NEW x \in RecordSeq, NEW y \in RecordSeq, NEW z \in RecordSeq
  PROVE  (x \o y) \o z = x \o (y \o z)
BY ConcatAssociative DEF RecordSeq

LEMMA FlattenConcat ==
  ASSUME NEW x \in Seq(RecordSeq), NEW y \in Seq(RecordSeq)
  PROVE  x \o y \in Seq(RecordSeq) /\ FlattenSeq(x \o y) = FlattenSeq(x) \o FlattenSeq(y)
<1>. DEFINE s == x \o y
            M == Len(x)
            N == Len(y)
<1>1. s \in Seq(RecordSeq) /\ Len(s) = M + N /\ M \in Nat /\ N \in Nat
      /\ \A i \in 1..(M + N) : s[i] = IF i <= M THEN x[i] ELSE y[i - M]
  BY ConcatProperties
<1>. HIDE DEF s
<1>2. PICK f \in [0..Len(s) -> RecordSeq] : Flattened(s, f) /\ FlattenSeq(s) = f[Len(s)]
  BY <1>1, FlattensExist
<1>3. PICK g \in [0..M -> RecordSeq] : Flattened(x, g) /\ FlattenSeq(x) = g[M]
  BY FlattensExist
<1>4. PICK h \in [0..N -> RecordSeq] : Flattened(y, h) /\ FlattenSeq(y) = h[N]
  BY FlattensExist
<1>. DEFINE T == { k \in 0..M : f[k] = g[k] }
            U == { k \in 0..N : f[M + k] = g[M] \o h[k] }
<1>5. 0 \in T
  BY <1>1, <1>2, <1>3 DEF Flattened
<1>6. ASSUME NEW k \in 0..(M - 1), k \in T PROVE k + 1 \in T
  <2>1. k + 1 \in 1..M /\ k + 1 \in 1..Len(s) /\ k + 1 \in 0..M /\ (k + 1) - 1 = k /\ k + 1 <= M
    BY <1>1
  <2>2. f[k + 1] = f[k] \o s[k + 1] /\ g[k + 1] = g[k] \o x[k + 1]
    BY <1>2, <1>3, <2>1, Zenon DEF Flattened
  <2>3. s[k + 1] = x[k + 1] /\ f[k] = g[k]
    BY <1>1, <1>6, <2>1
  <2>4. f[k + 1] = g[k + 1]
    BY <2>2, <2>3, Zenon
  <2>. QED  BY <2>1, <2>4
<1>7. f[M] = g[M]
  <2>. HIDE DEF T
  <2>1. \A k \in 0..M : k \in T
    BY <1>1, <1>5, <1>6, CountingUp
  <2>2. M \in T
    BY <1>1, <2>1
  <2>. QED  BY <2>2 DEF T
<1>8. g[M] \in RecordSeq /\ \A k \in 0..N : h[k] \in RecordSeq
  BY SMTT(30), <1>1, <1>3, <1>4
<1>9. 0 \in U
  <2>1. h[0] = <<>> /\ M + 0 = M
    BY <1>1, <1>4 DEF Flattened
  <2>2. g[M] \o <<>> = g[M]
    BY <1>8, ConcatEmptySeq DEF RecordSeq
  <2>3. f[M + 0] = g[M] \o h[0]
    BY <1>7, <2>1, <2>2, Zenon
  <2>4. 0 \in 0..N
    BY <1>1
  <2>. QED  BY <2>3, <2>4
<1>10. ASSUME NEW k \in 0..(N - 1), k \in U PROVE k + 1 \in U
  <2>1. /\ k + 1 \in 1..N /\ k + 1 \in 0..N /\ (k + 1) - 1 = k /\ k \in 0..N
        /\ M + (k + 1) \in 1..Len(s) /\ (M + (k + 1)) - 1 = M + k /\ (M + (k + 1)) - M = k + 1
        /\ ~(M + (k + 1) <= M)
    BY <1>1
  <2>2. f[M + (k + 1)] = f[M + k] \o s[M + (k + 1)] /\ h[k + 1] = h[k] \o y[k + 1]
    BY <1>2, <1>4, <2>1, Zenon DEF Flattened
  <2>3. s[M + (k + 1)] = y[k + 1]
    BY <1>1, <2>1
  <2>4. f[M + k] = g[M] \o h[k]
    BY <1>10
  <2>5. y[k + 1] \in RecordSeq /\ h[k] \in RecordSeq
    BY <1>8, <2>1
  <2>6. (g[M] \o h[k]) \o y[k + 1] = g[M] \o (h[k] \o y[k + 1])
    BY <1>8, <2>5, RecordsConcat
  <2>7. f[M + (k + 1)] = g[M] \o h[k + 1]
    BY <2>2, <2>3, <2>4, <2>6, Zenon
  <2>. QED  BY <2>1, <2>7
<1>11. f[M + N] = g[M] \o h[N]
  <2>. HIDE DEF U
  <2>1. \A k \in 0..N : k \in U
    BY <1>1, <1>9, <1>10, CountingUp
  <2>2. N \in U
    BY <1>1, <2>1
  <2>. QED  BY <2>2 DEF U
<1>. QED  BY <1>1, <1>2, <1>3, <1>4, <1>11 DEF s

LEMMA FlattenOne ==
  ASSUME NEW x \in RecordSeq
  PROVE  << x >> \in Seq(RecordSeq) /\ FlattenSeq(<< x >>) = x
<1>1. << x >> \in Seq(RecordSeq) /\ Len(<< x >>) = 1 /\ << x >>[1] = x
  OBVIOUS
<1>2. PICK f : Flattened(<< x >>, f) /\ FlattenSeq(<< x >>) = f[Len(<< x >>)]
  BY <1>1, FlattensExist
<1>3. 1 \in 1..1 /\ 1 - 1 = 0
  OBVIOUS
<1>4. f[1] = f[0] \o x /\ f[0] = <<>>
  BY <1>1, <1>2, <1>3, Zenon DEF Flattened
<1>5. <<>> \o x = x
  BY ConcatEmptySeq DEF RecordSeq
<1>. QED  BY <1>1, <1>2, <1>4, <1>5

-----------------------------------------------------------------------------
(* A global header leaves what it and those before it last said.           *)

LEMMA OneRecordGet ==
  ASSUME NEW record \in RecordType, NEW keyword
  PROVE  /\ << record >> \in RecordSeq
         /\ Get(<< record >>, keyword)
              = IF record.keyword = keyword THEN record.value ELSE "absent"
<1>1. << record >> \in RecordSeq /\ Len(<< record >>) = 1 /\ << record >>[1] = record
  BY DEF RecordSeq
<1>2. CASE record.keyword = keyword
  <2>1. IsLast(<< record >>, keyword, 1)
    BY <1>1, <1>2 DEF IsLast
  <2>. QED  BY <1>1, <1>2, <2>1, LastDecides
<1>3. CASE record.keyword # keyword
  <2>1. \A i \in 1..Len(<< record >>) : << record >>[i].keyword # keyword
    BY <1>1, <1>3
  <2>. QED  BY <1>1, <1>3, <2>1, GetIsAbsent
<1>. QED  BY <1>2, <1>3

LEMMA ApplyOneGet ==
  ASSUME NEW active \in RecordSeq, NEW record \in RecordType, NEW keyword
  PROVE  /\ ApplyOne(active, record) \in RecordSeq
         /\ Get(ApplyOne(active, record), keyword)
              = Over(Get(active, keyword), Get(<< record >>, keyword))
<1>. DEFINE after == ApplyOne(active, record)
            w == record.keyword
<1>1. Len(active) \in Nat /\ DOMAIN active = 1..Len(active) /\ << record >> \in RecordSeq
  BY RecordFields, OneRecordGet
<1>2. CASE Occurrences(active, w) = {}
  <2>1. after = active \o << record >>
    BY <1>2, AppendIsConcat DEF ApplyOne, RecordSeq
  <2>. QED  BY <1>1, <2>1, ConcatGet
<1>3. CASE Occurrences(active, w) # {}
  <2>1. PICK i \in 1..Len(active) : IsLast(active, w, i)
    BY <1>3, SomeIsLast
  <2>2. LastOf(active, w) = i /\ active[i].keyword = w
    BY <2>1, LastDecides DEF IsLast
  <2>3. after = [active EXCEPT ![i] = record]
    BY <1>3, <2>2 DEF ApplyOne
  <2>4. /\ after \in RecordSeq /\ Len(after) = Len(active)
        /\ \A j \in 1..Len(active) : after[j] = IF j = i THEN record ELSE active[j]
    BY <2>3, ExceptSeq DEF RecordSeq
  <2>. HIDE DEF after
  <2>5. \A j \in 1..Len(active) : after[j].keyword = active[j].keyword
    BY <2>2, <2>4
  <2>6. CASE keyword = w
    <3>1. IsLast(after, keyword, i)
      BY <1>1, <2>1, <2>4, <2>5, <2>6 DEF IsLast
    <3>2. Get(after, keyword) = record.value
      BY <2>4, <3>1, LastDecides
    <3>3. Get(<< record >>, keyword) = record.value /\ record.value # "absent"
      BY <2>6, OneRecordGet DEF RecordType
    <3>. QED  BY <2>4, <3>2, <3>3 DEF Over, after
  <2>7. CASE keyword # w
    <3>1. Get(<< record >>, keyword) = "absent"
      BY <2>7, OneRecordGet
    <3>2. Get(after, keyword) = Get(active, keyword)
      <4>1. CASE Occurrences(active, keyword) = {}
        <5>1. \A j \in 1..Len(after) : after[j].keyword # keyword
          BY <2>4, <2>5, <4>1 DEF Occurrences
        <5>. QED  BY <2>4, <4>1, <5>1, GetIsAbsent
      <4>2. CASE Occurrences(active, keyword) # {}
        <5>1. PICK k \in 1..Len(active) : IsLast(active, keyword, k)
          BY <4>2, SomeIsLast
        <5>2. k # i /\ after[k] = active[k]
          BY <2>2, <2>4, <2>7, <5>1 DEF IsLast
        <5>3. IsLast(after, keyword, k)
          BY <1>1, <2>4, <2>5, <5>1 DEF IsLast
        <5>4. Get(after, keyword) = after[k].value
          BY <2>4, <5>3, LastDecides
        <5>5. Get(active, keyword) = active[k].value
          BY <5>1, LastDecides
        <5>. QED  BY <5>2, <5>4, <5>5
      <4>. QED  BY <4>1, <4>2
    <3>. QED  BY <2>4, <3>1, <3>2 DEF Over, after
  <2>. QED  BY <2>6, <2>7
<1>. QED  BY <1>2, <1>3

LEMMA ApplyGlobalGet ==
  ASSUME NEW active \in RecordSeq, NEW records \in RecordSeq
  PROVE  /\ ApplyGlobal(active, records) \in RecordSeq
         /\ \A keyword : Get(ApplyGlobal(active, records), keyword)
                           = Over(Get(active, keyword), Get(records, keyword))
<1>. DEFINE N == Len(records)
            step == [k \in 1..N |-> [s \in RecordSeq |-> ApplyOne(s, records[k])]]
            applied[i \in 0..N] ==
              IF i = 0 THEN active ELSE ApplyOne(applied[i - 1], records[i])
            Said(i, s) == /\ s \in RecordSeq
                          /\ \A keyword : Get(s, keyword)
                               = Over(Get(active, keyword), Get(SubSeq(records, 1, i), keyword))
<1>1. N \in Nat /\ \A k \in 1..N : records[k] \in RecordType
  BY RecordFields
<1>2. \A k \in 1..N : \A s \in RecordSeq : ApplyOne(s, records[k]) \in RecordSeq
  BY <1>1, ApplyOneGet
<1>3. step \in [1..N -> [RecordSeq -> RecordSeq]]
  BY <1>2
<1>4. \A k \in 1..N : \A s \in RecordSeq : step[k][s] = ApplyOne(s, records[k])
  OBVIOUS
<1>5. PICK f \in [0..N -> RecordSeq] : Recursive(f, N, active, step)
  <2>. HIDE DEF step, N
  <2>. QED  BY <1>1, <1>3, RecursionExists, Zenon
<1>. HIDE DEF step
<1>6. f = [i \in 0..N |-> IF i = 0 THEN active ELSE ApplyOne(f[i - 1], records[i])]
  <2>1. ASSUME NEW i \in 0..N, i # 0 PROVE f[i] = ApplyOne(f[i - 1], records[i])
    <3>1. i \in 1..N /\ i - 1 \in 0..N
      BY <1>1, <2>1
    <3>2. f[i - 1] \in RecordSeq
      BY <1>5, <3>1
    <3>3. f[i] = step[i][f[i - 1]]
      BY <1>5, <3>1, Zenon DEF Recursive
    <3>. QED  BY <1>4, <3>1, <3>2, <3>3, Zenon
  <2>2. f[0] = active
    BY <1>5, Zenon DEF Recursive
  <2>3. f = [i \in 0..N |-> f[i]]
    BY <1>5
  <2>. QED  BY <2>1, <2>2, <2>3, Zenon
<1>7. applied = [i \in 0..N |-> IF i = 0 THEN active ELSE ApplyOne(applied[i - 1], records[i])]
  BY <1>6, Zenon DEF applied
<1>8. ApplyGlobal(active, records) = applied[N]
  BY Zenon DEF ApplyGlobal, applied, N
<1>. HIDE DEF applied
<1>. DEFINE T == { i \in 0..N : Said(i, applied[i]) }
<1>9. 0 \in T
  <2>1. 0 \in 0..N
    BY <1>1
  <2>2. applied[0] = active
    BY <1>7, <2>1, Zenon
  <2>3. SubSeq(records, 1, 0) = <<>>
    BY SubSeqEmpty
  <2>4. \A keyword : Get(<<>>, keyword) = "absent"
    BY DEF Get, Occurrences
  <2>5. Said(0, applied[0])
    BY <2>2, <2>3, <2>4 DEF Over
  <2>. QED  BY <2>1, <2>5
<1>10. ASSUME NEW i \in 0..(N - 1), i \in T PROVE i + 1 \in T
  <2>. DEFINE s == applied[i]
              r == records[i + 1]
              x == SubSeq(records, 1, i)
  <2>1. i + 1 \in 0..N /\ i + 1 \in 1..N /\ i + 1 # 0 /\ (i + 1) - 1 = i
    BY <1>1
  <2>2. s \in RecordSeq /\ \A keyword : Get(s, keyword)
                                          = Over(Get(active, keyword), Get(x, keyword))
    BY <1>10
  <2>3. r \in RecordType /\ << r >> \in RecordSeq
    BY <1>1, <2>1, OneRecordGet
  <2>4. applied[i + 1] = ApplyOne(s, r)
    BY <1>7, <2>1, Zenon
  <2>5. x \in RecordSeq
    BY <1>1, <2>1, SubSeqProperties DEF RecordSeq
  <2>6. SubSeq(records, 1, i + 1) = x \o << r >>
    <3>1. records \in Seq(RecordType) /\ 1 \in 1..Len(records) /\ i + 1 \in 1..Len(records)
      BY <1>1, <2>1 DEF RecordSeq
    <3>. QED  BY <2>1, <3>1, SubSeqRecursiveSecond
  <2>. HIDE DEF s, r, x
  <2>7. ApplyOne(s, r) \in RecordSeq
    BY <2>2, <2>3, ApplyOneGet
  <2>8. ASSUME NEW keyword
        PROVE  Get(ApplyOne(s, r), keyword)
                 = Over(Get(active, keyword), Get(x \o << r >>, keyword))
    <3>1. Get(ApplyOne(s, r), keyword) = Over(Get(s, keyword), Get(<< r >>, keyword))
      BY <2>2, <2>3, ApplyOneGet
    <3>2. Get(x \o << r >>, keyword) = Over(Get(x, keyword), Get(<< r >>, keyword))
      BY <2>3, <2>5, ConcatGet
    <3>3. Get(s, keyword) = Over(Get(active, keyword), Get(x, keyword))
      BY <2>2
    <3>4. Over(Over(Get(active, keyword), Get(x, keyword)), Get(<< r >>, keyword))
            = Over(Get(active, keyword), Over(Get(x, keyword), Get(<< r >>, keyword)))
      BY DEF Over
    <3>. QED  BY <3>1, <3>2, <3>3, <3>4, Zenon
  <2>9. Said(i + 1, applied[i + 1])
    BY <2>4, <2>6, <2>7, <2>8, Zenon
  <2>. QED  BY <2>1, <2>9
<1>11. N \in T
  <2>. HIDE DEF T
  <2>1. \A i \in 0..N : i \in T
    BY <1>1, <1>9, <1>10, CountingUp
  <2>2. N \in 0..N
    BY <1>1
  <2>. QED  BY <2>1, <2>2
<1>12. SubSeq(records, 1, N) = records
  BY SubSeqFull DEF RecordSeq
<1>13. Said(N, applied[N])
  BY <1>11
<1>. QED  BY <1>8, <1>12, <1>13, Zenon

-----------------------------------------------------------------------------
(* The inductive invariant.                                                *)

HeaderType ==
  { h \in [type : {"Global", "Local", "Gnu", "Member"}, family : {"Pax", "Gnu"},
           records : RecordSeq] :
      /\ h.type \in {"Global", "Local"} => h.family = "Pax"
      /\ h.type = "Gnu" => h.family = "Gnu"
      /\ h.type \in {"Gnu", "Member"} =>
           \E k \in {"path", "linkpath"}, t \in NameTexts : h.records = << Record(k, t) >> }

TypeInv ==
  /\ policy \in DecodePolicies
  /\ headers \in Seq(HeaderType)
  /\ format \in {"Unknown", "Pax", "Gnu"}
  /\ global_pax_records \in RecordSeq
  /\ reader \in {"Boundary", "Payload", "Complete", "Failed"}
  /\ fused \in BOOLEAN
  /\ call \in {"idle", "next_member"}

FamilyInv == \A q \in 1..Len(headers) : headers[q].family = format

(* A call only reads on; what it returned is not there yet.                *)
CallInv ==
  /\ call = "next_member" => ~fused /\ reader \in {"Boundary", "Payload"}
  /\ reader = "Complete" => fused
  /\ reader = "Failed" => pending_extensions = NoPending
  /\ out.type = "Member" => call = "idle" /\ pending_extensions = NoPending
  /\ out.type = "PolicyViolation" => call = "idle"

(* The headers no member has taken are the last g + u + l: globals, then   *)
(* GNU ones, or a local one, and before them stands a member.              *)
Run(from, k) == [ i \in 1..k |-> from + i ]

Unclaimed(b, g, u, l) ==
  /\ b + g + u + l = Len(headers) /\ l <= 1 /\ (u > 0 => g = 0 /\ l = 0)
  /\ pending_extensions = [global_pax |-> Run(b, g), gnu |-> Run(b + g, u),
                           local_pax |-> Run(b + g + u, l)]
  /\ b > 0 => headers[b].type = "Member"
  /\ \A q \in (b + 1)..(b + g) : headers[q].type = "Global"
  /\ \A q \in (b + g + 1)..(b + g + u) : headers[q].type = "Gnu"
  /\ \A q \in (b + g + u + 1)..Len(headers) : headers[q].type = "Local"
  /\ ~fused => \A q \in 1..b : Allowed(headers[q])

PendingInv ==
  reader \in {"Boundary", "Payload"} =>
    \E b, g, u, l \in 0..Len(headers) : Unclaimed(b, g, u, l)

(* The global headers so far, told from the archive.                       *)
Globals ==
  FlattenSeq([ q \in 1..Len(headers) |->
                 IF headers[q].type = "Global" THEN headers[q].records ELSE <<>> ])

GlobalsInv ==
  reader # "Failed" => \A k \in Keywords : Get(global_pax_records, k) = Get(Globals, k)

RawAt(p) ==
  /\ headers[p].type \in {"Global", "Local"}
  /\ \E r \in Range(headers[p].records) : r.keyword \in Encoded /\ r.value = "raw"
  => LastWord(Heard(p) \o headers[p].records, "hdrcharset") = "binary"

RawInv ==
  \A p \in 1..Len(headers) : p < Len(headers) \/ reader # "Failed" => RawAt(p)

Inv == /\ TypeInv /\ FamilyInv /\ CallInv /\ PendingInv /\ GlobalsInv /\ RawInv
       /\ MetadataIsLastWord /\ PolicyIsExact

-----------------------------------------------------------------------------
(* What the policy checks, header by header, is what makes one allowed.    *)

LEMMA RangeIsPositions ==
  ASSUME NEW records \in RecordSeq
  PROVE  Range(records) = { records[i] : i \in 1..Len(records) }
BY RecordFields DEF Range

(* A repeated keyword leaves fewer keywords than records.                  *)
LEMMA DistinctKeywords ==
  ASSUME NEW records \in RecordSeq
  PROVE  Cardinality({ r.keyword : r \in Range(records) }) = Len(records)
           <=> \A i, j \in 1..Len(records) : records[i].keyword = records[j].keyword => i = j
<1>. DEFINE N == Len(records)
            K == { r.keyword : r \in Range(records) }
            f == [ i \in 1..N |-> records[i].keyword ]
<1>1. N \in Nat /\ IsFiniteSet(1..N) /\ Cardinality(1..N) = N
  <2>1. N \in Nat
    BY RecordFields
  <2>. HIDE DEF N
  <2>2. IsFiniteSet(1..N) /\ Cardinality(1..N) = IF 1 > N THEN 0 ELSE N - 1 + 1
    BY <2>1, FS_Interval
  <2>. QED  BY <2>1, <2>2
<1>2. K = { records[i].keyword : i \in 1..N }
  BY RangeIsPositions
<1>3. f \in Surjection(1..N, K)
  BY <1>2 DEF Surjection
<1>4. Cardinality(K) = Cardinality(1..N) <=> f \in Injection(1..N, K)
  BY <1>1, <1>3, FS_Surjection
<1>5. f \in Injection(1..N, K) <=> \A i, j \in 1..N : records[i].keyword = records[j].keyword => i = j
  BY <1>3 DEF Injection, Surjection, IsInjective
<1>. QED  BY <1>1, <1>4, <1>5

(* What a header's records must not be.                                    *)
RecordsAllowed(records) ==
  /\ \A r \in Range(records) :
       r.keyword = "vendor" =>
         /\ policy.allow_vendor
         /\ policy.allow_non_utf8_pax_vendor_values \/ r.value # "raw"
  /\ \/ policy.allow_duplicate_pax_records
     \/ Cardinality({ r.keyword : r \in Range(records) }) = Len(records)

LEMMA RecordsPassIs ==
  ASSUME policy \in DecodePolicies, NEW records \in RecordSeq, NEW kind
  PROVE  RecordsPass(kind, records) <=>
           /\ RecordsAllowed(records)
           /\ kind = "Global" =>
                \/ policy.allow_global_pax_member_metadata
                \/ \A r \in Range(records) : r.keyword \notin {"path", "linkpath", "size"}
<1>1. /\ policy.allow_vendor \in BOOLEAN /\ policy.allow_duplicate_pax_records \in BOOLEAN
      /\ policy.allow_non_utf8_pax_vendor_values \in BOOLEAN
      /\ policy.allow_global_pax_member_metadata \in BOOLEAN
  BY DecoderAssumption
<1>2. \A r : r \in Range(records) <=> \E i \in 1..Len(records) : r = records[i]
  BY RangeIsPositions
<1>3. (\A r \in Range(records) :
         r.keyword = "vendor" =>
           policy.allow_vendor /\ (policy.allow_non_utf8_pax_vendor_values \/ r.value # "raw"))
      <=> /\ Occurrences(records, "vendor") # {} => policy.allow_vendor
          /\ ~policy.allow_non_utf8_pax_vendor_values =>
               \A i \in Occurrences(records, "vendor") : records[i].value # "raw"
  BY <1>1, <1>2 DEF Occurrences
<1>4. (\A i \in 1..Len(records) : records[i].keyword \notin {"path", "linkpath", "size"})
      <=> \A r \in Range(records) : r.keyword \notin {"path", "linkpath", "size"}
  BY <1>2
<1>5. Cardinality({ r.keyword : r \in Range(records) }) = Len(records)
        <=> \A i, j \in 1..Len(records) : records[i].keyword = records[j].keyword => i = j
  BY DistinctKeywords
<1>. HIDE DEF Occurrences, Range
<1>. QED  BY <1>1, <1>3, <1>4, <1>5, Zenon DEF RecordsPass, RecordsAllowed

LEMMA AllowedIs ==
  ASSUME NEW header \in HeaderType
  PROVE  Allowed(header) <=>
           /\ header.family = "Gnu" => policy.allow_gnu
           /\ header.type = "Global" =>
                /\ policy.allow_global_pax_extensions
                /\ \/ policy.allow_global_pax_member_metadata
                   \/ \A r \in Range(header.records) : r.keyword \notin {"path", "linkpath", "size"}
           /\ RecordsAllowed(header.records)
BY Zenon DEF Allowed, RecordsAllowed

LEMMA HeaderFields ==
  ASSUME NEW header \in HeaderType
  PROVE  /\ header.type \in {"Global", "Local", "Gnu", "Member"}
         /\ header.family \in {"Pax", "Gnu"} /\ header.records \in RecordSeq
         /\ header.type \in {"Global", "Local"} => header.family = "Pax"
         /\ header.type = "Gnu" => header.family = "Gnu"
BY DEF HeaderType

LEMMA GlobalAllowed ==
  ASSUME policy \in DecodePolicies, NEW p, headers[p] \in HeaderType, headers[p].type = "Global"
  PROVE  GlobalPasses(p) <=> Allowed(headers[p])
<1>1. headers[p].family = "Pax" /\ headers[p].records \in RecordSeq
  BY HeaderFields
<1>2. RecordsPass("Global", headers[p].records) <=>
        /\ RecordsAllowed(headers[p].records)
        /\ \/ policy.allow_global_pax_member_metadata
           \/ \A r \in Range(headers[p].records) : r.keyword \notin {"path", "linkpath", "size"}
  BY <1>1, RecordsPassIs
<1>. HIDE DEF Range
<1>. QED  BY <1>1, <1>2, AllowedIs DEF GlobalPasses, Records

LEMMA LocalAllowed ==
  ASSUME policy \in DecodePolicies, NEW p, headers[p] \in HeaderType, headers[p].type = "Local"
  PROVE  LocalPasses(p) <=> Allowed(headers[p])
<1>1. headers[p].family = "Pax" /\ headers[p].records \in RecordSeq
  BY HeaderFields
<1>2. RecordsPass("Local", headers[p].records) <=> RecordsAllowed(headers[p].records)
  BY <1>1, RecordsPassIs
<1>. HIDE DEF Range
<1>. QED  BY <1>1, <1>2, AllowedIs DEF LocalPasses, Records

LEMMA PlainAllowed ==
  ASSUME NEW header \in HeaderType, header.type \in {"Gnu", "Member"}
  PROVE  Allowed(header) <=> FormatPasses(header.family)
<1>1. PICK k \in {"path", "linkpath"}, t \in NameTexts : header.records = << Record(k, t) >>
  BY DEF HeaderType
<1>. DEFINE s == << Record(k, t) >>
<1>2. s \in RecordSeq
  BY <1>1, HeaderFields
<1>3. Len(s) = 1 /\ s[1] = Record(k, t)
  OBVIOUS
<1>4. Range(s) = { s[i] : i \in 1..Len(s) }
  BY <1>2, RangeIsPositions
<1>5. Cardinality({ r.keyword : r \in Range(s) }) = Len(s)
  <2>1. \A i, j \in 1..Len(s) : s[i].keyword = s[j].keyword => i = j
    BY <1>3
  <2>. HIDE DEF s
  <2>. QED  BY <1>2, <2>1, DistinctKeywords
<1>6. \A r \in Range(s) : r.keyword # "vendor"
  BY <1>3, <1>4 DEF Record
<1>7. RecordsAllowed(s)
  <2>. HIDE DEF s
  <2>. QED  BY <1>5, <1>6, Zenon DEF RecordsAllowed
<1>. HIDE DEF s
<1>8. RecordsAllowed(header.records) /\ header.type # "Global"
  BY <1>1, <1>7 DEF s
<1>. QED  BY <1>8, AllowedIs DEF FormatPasses

-----------------------------------------------------------------------------
(* What the archive says of a position does not change as it is read on.   *)

LEMMA AppendedHeader ==
  ASSUME headers \in Seq(HeaderType), NEW header \in HeaderType, headers' = Append(headers, header)
  PROVE  /\ headers' \in Seq(HeaderType)
         /\ Len(headers) \in Nat /\ Len(headers') = Len(headers) + 1
         /\ headers'[Len(headers) + 1] = header
         /\ \A q \in 1..Len(headers) : headers'[q] = headers[q]
OBVIOUS

LEMMA HeaderAt ==
  ASSUME headers \in Seq(HeaderType), NEW q \in 1..Len(headers)
  PROVE  headers[q] \in HeaderType /\ headers[q].records \in RecordSeq
<1>1. headers[q] \in HeaderType
  BY ElementOfSeq
<1>. QED  BY <1>1, HeaderFields

LEMMA HeardKeeps ==
  ASSUME headers \in Seq(HeaderType), NEW header \in HeaderType, headers' = Append(headers, header),
         NEW p \in 1..(Len(headers) + 1)
  PROVE  Heard(p)' = Heard(p)
<1>1. Len(headers) \in Nat /\ \A q \in 1..Len(headers) : headers'[q] = headers[q]
  BY AppendedHeader
<1>2. \A q \in 1..(p - 1) : q \in 1..Len(headers) /\ headers'[q] = headers[q]
  BY <1>1
<1>3. ASSUME NEW q \in 1..(p - 1) PROVE Speaks(q, p)' <=> Speaks(q, p)
  <2>1. \A r \in q..(p - 1) : r \in 1..(p - 1)
    BY <1>1
  <2>. QED  BY <1>2, <2>1 DEF Speaks
<1>4. [ q \in 1..(p - 1) |-> IF Speaks(q, p)' THEN headers'[q].records ELSE <<>> ]
        = [ q \in 1..(p - 1) |-> IF Speaks(q, p) THEN headers[q].records ELSE <<>> ]
  <2>. HIDE DEF Speaks
  <2>. QED  BY <1>2, <1>3
<1>. HIDE DEF Speaks
<1>. QED  BY <1>4, Zenon DEF Heard

LEMMA HeardType ==
  ASSUME headers \in Seq(HeaderType), NEW p \in 1..(Len(headers) + 1)
  PROVE  Heard(p) \in RecordSeq
<1>. DEFINE W == [ q \in 1..(p - 1) |-> IF Speaks(q, p) THEN headers[q].records ELSE <<>> ]
<1>1. Len(headers) \in Nat /\ <<>> \in RecordSeq
  BY DEF RecordSeq
<1>2. \A q \in 1..(p - 1) : q \in 1..Len(headers) /\ headers[q].records \in RecordSeq
  <2>1. \A q \in 1..(p - 1) : q \in 1..Len(headers)
    BY <1>1
  <2>. QED  BY <2>1, HeaderAt
<1>3. W \in Seq(RecordSeq)
  <2>1. p - 1 \in Nat
    BY <1>1
  <2>. HIDE DEF Speaks
  <2>. QED  BY <1>1, <1>2, <2>1
<1>. HIDE DEF W
<1>4. FlattenSeq(W) \in RecordSeq
  BY <1>3, FlattenType
<1>. QED  BY <1>4, Zenon DEF Heard, W

GlobalLists == [ q \in 1..Len(headers) |->
                   IF headers[q].type = "Global" THEN headers[q].records ELSE <<>> ]

LEMMA GlobalListsType ==
  ASSUME headers \in Seq(HeaderType)
  PROVE  /\ GlobalLists \in Seq(RecordSeq) /\ Len(GlobalLists) = Len(headers)
         /\ Globals = FlattenSeq(GlobalLists) /\ Globals \in RecordSeq
<1>1. Len(headers) \in Nat /\ <<>> \in RecordSeq
  BY DEF RecordSeq
<1>2. \A q \in 1..Len(headers) : headers[q].records \in RecordSeq
  BY HeaderAt
<1>3. GlobalLists \in Seq(RecordSeq) /\ Len(GlobalLists) = Len(headers)
  BY <1>1, <1>2 DEF GlobalLists
<1>4. Globals = FlattenSeq(GlobalLists)
  BY Zenon DEF Globals, GlobalLists
<1>. QED  BY <1>3, <1>4, FlattenType

LEMMA NewGlobals ==
  ASSUME headers \in Seq(HeaderType), NEW header \in HeaderType, headers' = Append(headers, header)
  PROVE  Globals' = Globals \o (IF header.type = "Global" THEN header.records ELSE <<>>)
<1>. DEFINE x == IF header.type = "Global" THEN header.records ELSE <<>>
            N == Len(headers)
<1>1. /\ headers' \in Seq(HeaderType) /\ N \in Nat /\ Len(headers') = N + 1
      /\ headers'[N + 1] = header
      /\ \A q \in 1..N : headers'[q] = headers[q]
  BY AppendedHeader
<1>2. x \in RecordSeq
  BY HeaderFields DEF RecordSeq
<1>3. GlobalLists \in Seq(RecordSeq) /\ Len(GlobalLists) = N /\ Globals = FlattenSeq(GlobalLists)
  BY GlobalListsType
<1>4. << x >> \in Seq(RecordSeq) /\ FlattenSeq(<< x >>) = x
  BY <1>2, FlattenOne
<1>5. GlobalLists' = GlobalLists \o << x >>
  <2>. DEFINE s == GlobalLists
              t == GlobalLists'
  <2>1. t \in Seq(RecordSeq) /\ Len(t) = N + 1
    <3>1. (headers \in Seq(HeaderType) => GlobalLists \in Seq(RecordSeq)
                                          /\ Len(GlobalLists) = Len(headers))'
      BY GlobalListsType, PTL
    <3>. QED  BY <1>1, <3>1
  <2>2. /\ s \o << x >> \in Seq(RecordSeq) /\ Len(s \o << x >>) = N + 1
        /\ \A i \in 1..(N + 1) : (s \o << x >>)[i] = IF i <= N THEN s[i] ELSE << x >>[i - N]
    <3>1. Len(<< x >>) = 1
      OBVIOUS
    <3>. HIDE DEF x, s
    <3>2. s \in Seq(RecordSeq) /\ Len(s) = N
      BY <1>3 DEF s
    <3>. QED  BY <1>3, <1>4, <3>1, <3>2, ConcatProperties
  <2>3. ASSUME NEW i \in 1..(N + 1) PROVE t[i] = (s \o << x >>)[i]
    <3>1. t[i] = IF headers'[i].type = "Global" THEN headers'[i].records ELSE <<>>
      BY <1>1 DEF GlobalLists
    <3>2. CASE i <= N
      <4>1. i \in 1..N
        BY <1>1, <3>2
      <4>2. s[i] = IF headers[i].type = "Global" THEN headers[i].records ELSE <<>>
        BY <4>1 DEF GlobalLists
      <4>3. headers'[i] = headers[i]
        BY <1>1, <4>1
      <4>4. (s \o << x >>)[i] = s[i]
        BY <2>2, <3>2
      <4>. HIDE DEF s, t, x
      <4>. QED  BY <3>1, <4>2, <4>3, <4>4
    <3>3. CASE ~(i <= N)
      <4>1. i = N + 1 /\ i - N = 1
        BY <1>1, <3>3
      <4>2. (s \o << x >>)[i] = << x >>[1]
        BY <2>2, <3>3, <4>1
      <4>3. headers'[i] = header /\ << x >>[1] = x
        BY <1>1, <4>1
      <4>. HIDE DEF s, t
      <4>. QED  BY <3>1, <4>2, <4>3
    <3>. QED  BY <3>2, <3>3
  <2>. HIDE DEF x
  <2>4. Len(t) = Len(s \o << x >>)
    BY <2>1, <2>2
  <2>. HIDE DEF s, t
  <2>5. t = s \o << x >>
    BY <2>1, <2>2, <2>3, <2>4, SeqEqual
  <2>. QED  BY <2>5 DEF s, t
<1>6. (Globals = FlattenSeq(GlobalLists))'
  <2>1. (headers \in Seq(HeaderType) => Globals = FlattenSeq(GlobalLists))'
    BY GlobalListsType, PTL
  <2>. QED  BY <1>1, <2>1
<1>. HIDE DEF x
<1>7. FlattenSeq(GlobalLists \o << x >>) = FlattenSeq(GlobalLists) \o FlattenSeq(<< x >>)
  BY <1>3, <1>4, FlattenConcat
<1>8. Globals' = Globals \o x
  BY <1>3, <1>4, <1>5, <1>6, <1>7, Zenon
<1>. QED  BY <1>8 DEF x

-----------------------------------------------------------------------------
(* What bears on the next member: the global headers, and those no member  *)
(* has taken.                                                              *)

LEMMA RunIs ==
  ASSUME NEW m \in Nat, NEW u \in Nat
  PROVE  /\ Run(m, u) \in Seq(Nat) /\ Len(Run(m, u)) = u
         /\ \A i \in 1..u : Run(m, u)[i] = m + i
BY DEF Run

LEMMA RunConcat ==
  ASSUME NEW m \in Nat, NEW u \in Nat, NEW l \in Nat
  PROVE  Run(m, u) \o Run(m + u, l) = Run(m, u + l)
<1>1. \A a, k \in Nat : /\ Run(a, k) \in Seq(Nat) /\ Len(Run(a, k)) = k
                        /\ \A i \in 1..k : Run(a, k)[i] = a + i
  BY RunIs
<1>. DEFINE s == Run(m, u) \o Run(m + u, l)
            t == Run(m, u + l)
<1>2. /\ s \in Seq(Nat) /\ Len(s) = u + l
      /\ \A i \in 1..(u + l) : s[i] = IF i <= u THEN m + i ELSE (m + u) + (i - u)
  <2>. DEFINE x == Run(m, u)
              y == Run(m + u, l)
  <2>1. /\ x \in Seq(Nat) /\ Len(x) = u /\ \A i \in 1..u : x[i] = m + i
        /\ y \in Seq(Nat) /\ Len(y) = l /\ \A i \in 1..l : y[i] = (m + u) + i
    <3>1. m + u \in Nat
      OBVIOUS
    <3>. QED  BY <1>1, <3>1, Zenon
  <2>. HIDE DEF x, y
  <2>2. /\ x \o y \in Seq(Nat) /\ Len(x \o y) = u + l
        /\ \A i \in 1..(u + l) : (x \o y)[i] = IF i <= u THEN x[i] ELSE y[i - u]
    BY <2>1, ConcatProperties
  <2>3. \A i \in 1..(u + l) : (x \o y)[i] = IF i <= u THEN m + i ELSE (m + u) + (i - u)
    BY <2>1, <2>2
  <2>. QED  BY <2>2, <2>3 DEF x, y
<1>3. /\ t \in Seq(Nat) /\ Len(t) = u + l /\ \A i \in 1..(u + l) : t[i] = m + i
  BY <1>1
<1>. HIDE DEF s, t
<1>4. \A i \in 1..(u + l) : s[i] = t[i]
  BY <1>2, <1>3
<1>5. s = t
  BY <1>2, <1>3, <1>4, SeqEqual
<1>. QED  BY <1>1, <1>5 DEF s, t

LEMMA HeardAtEnd ==
  ASSUME headers \in Seq(HeaderType),
         NEW b \in Nat, NEW g \in Nat, NEW u \in Nat, NEW l \in Nat, Unclaimed(b, g, u, l)
  PROVE  /\ OwnRecords \in RecordSeq
         /\ Heard(Len(headers) + 1) = Globals \o OwnRecords
         /\ u + l = 0 => OwnRecords = <<>>
<1>. DEFINE N == Len(headers)
            m == b + g
            t == u + l
            A == [ q \in 1..m |-> IF headers[q].type = "Global" THEN headers[q].records ELSE <<>> ]
            B == [ i \in 1..t |-> headers[m + i].records ]
            E == [ i \in 1..t |-> <<>> ]
            W == [ q \in 1..((N + 1) - 1) |->
                     IF Speaks(q, N + 1) THEN headers[q].records ELSE <<>> ]
            own == pending_extensions.gnu \o pending_extensions.local_pax
<1>1. N \in Nat /\ m \in Nat /\ t \in Nat /\ m + t = N /\ (N + 1) - 1 = N
  BY DEF Unclaimed
<1>2. \A q \in 1..N : headers[q].records \in RecordSeq
  BY HeaderAt
<1>3. <<>> \in RecordSeq
  BY DEF RecordSeq
<1>4. A \in Seq(RecordSeq) /\ Len(A) = m
      /\ \A q \in 1..m : A[q] = IF headers[q].type = "Global" THEN headers[q].records ELSE <<>>
  <2>1. \A q \in 1..m : headers[q].records \in RecordSeq
    BY <1>1, <1>2
  <2>. HIDE DEF m, N, t
  <2>. QED  BY <1>1, <1>3, <2>1
<1>5. B \in Seq(RecordSeq) /\ Len(B) = t /\ \A i \in 1..t : B[i] = headers[m + i].records
  <2>1. \A i \in 1..t : m + i \in 1..N
    BY <1>1
  <2>. HIDE DEF m, N, t
  <2>. QED  BY <1>1, <1>2, <2>1
<1>6. E \in Seq(RecordSeq) /\ Len(E) = t /\ \A i \in 1..t : E[i] = <<>>
  <2>. HIDE DEF m, N, t
  <2>. QED  BY <1>1, <1>3
<1>7. /\ b > 0 => headers[b].type = "Member"
      /\ \A q \in (b + 1)..m : headers[q].type = "Global"
      /\ \A q \in (m + 1)..N : headers[q].type \in {"Local", "Gnu"}
      /\ own = Run(m, t)
  <2>1. own = Run(m, t)
    <3>1. own = Run(m, u) \o Run(m + u, l)
      BY DEF Unclaimed
    <3>2. Run(b + g, u) \o Run(b + g + u, l) = Run(b + g, u + l)
      BY ZenonT(40), <1>1, RunConcat
    <3>. HIDE DEF own
    <3>. QED  BY <3>1, <3>2, Zenon
  <2>2. \A q \in (m + 1)..N : headers[q].type \in {"Local", "Gnu"}
    <3>1. \A q \in (m + 1)..N : q \in (m + 1)..(m + u) \/ q \in (m + u + 1)..N
      BY <1>1
    <3>. QED  BY <3>1 DEF Unclaimed
  <2>3. /\ b > 0 => headers[b].type = "Member"
        /\ \A q \in (b + 1)..m : headers[q].type = "Global"
    BY DEF Unclaimed
  <2>. QED  BY <2>1, <2>2, <2>3
<1>8. ASSUME NEW q \in 1..N
      PROVE  IF q <= m THEN Speaks(q, N + 1) <=> headers[q].type = "Global"
             ELSE Speaks(q, N + 1) /\ headers[q].type # "Global"
  <2>1. CASE q <= b
    <3>1. b > 0 /\ b \in q..((N + 1) - 1) /\ headers[b].type = "Member" /\ q <= m
      BY <1>1, <1>7, <2>1
    <3>. QED  BY <3>1 DEF Speaks
  <2>2. CASE ~(q <= b) /\ q <= m
    <3>1. headers[q].type = "Global"
      BY <1>7, <2>2
    <3>. QED  BY <2>2, <3>1 DEF Speaks
  <2>3. CASE ~(q <= m)
    <3>1. \A r \in q..((N + 1) - 1) : r \in (m + 1)..N
      BY <1>1, <2>3
    <3>2. q \in (m + 1)..N
      BY <1>1, <2>3
    <3>. QED  BY <1>7, <2>3, <3>1, <3>2 DEF Speaks
  <2>. QED  BY <2>1, <2>2, <2>3
<1>9. W \in Seq(RecordSeq) /\ Len(W) = N
      /\ \A q \in 1..N : W[q] = IF Speaks(q, N + 1) THEN headers[q].records ELSE <<>>
  <2>. HIDE DEF N, Speaks
  <2>. QED  BY <1>1, <1>2, <1>3
<1>10. GlobalLists \in Seq(RecordSeq) /\ Len(GlobalLists) = N /\ Globals = FlattenSeq(GlobalLists)
       /\ \A q \in 1..N : GlobalLists[q]
                            = IF headers[q].type = "Global" THEN headers[q].records ELSE <<>>
  <2>1. \A q \in 1..N : GlobalLists[q]
                          = IF headers[q].type = "Global" THEN headers[q].records ELSE <<>>
    BY DEF GlobalLists
  <2>. QED  BY <2>1, GlobalListsType
<1>11. Heard(N + 1) = FlattenSeq(W)
  BY Zenon DEF Heard, W
<1>12. [ i \in 1..Len(own) |-> Records(own[i]) ] = B
  <2>. HIDE DEF own
  <2>1. Len(own) = t /\ \A i \in 1..t : own[i] = m + i
    <3>. HIDE DEF t, m
    <3>1. Len(Run(m, t)) = t /\ \A i \in 1..t : Run(m, t)[i] = m + i
      BY <1>1, RunIs, Zenon
    <3>. QED  BY <1>7, <3>1, Zenon
  <2>. HIDE DEF t, m
  <2>2. \A i \in 1..t : Records(own[i]) = headers[m + i].records
    BY <2>1 DEF Records
  <2>. QED  BY <2>1, <2>2
<1>13. OwnRecords = FlattenSeq(B)
  BY <1>12, Zenon DEF OwnRecords, own
<1>. HIDE DEF N, m, t, A, B, E, W, own, Speaks
<1>14. A \o B = W
  <2>1. /\ A \o B \in Seq(RecordSeq) /\ Len(A \o B) = N
        /\ \A i \in 1..N : (A \o B)[i] = IF i <= m THEN A[i] ELSE B[i - m]
    BY <1>1, <1>4, <1>5, ConcatProperties
  <2>2. ASSUME NEW i \in 1..N PROVE (A \o B)[i] = W[i]
    <3>1. CASE i <= m
      <4>1. i \in 1..m
        BY <1>1, <3>1
      <4>. QED  BY <1>4, <1>8, <1>9, <2>1, <3>1, <4>1
    <3>2. CASE ~(i <= m)
      <4>1. i - m \in 1..t /\ m + (i - m) = i
        BY <1>1, <3>2
      <4>. QED  BY <1>5, <1>8, <1>9, <2>1, <3>2, <4>1
    <3>. QED  BY <3>1, <3>2
  <2>. QED  BY <1>9, <2>1, <2>2, SeqEqual
<1>15. A \o E = GlobalLists
  <2>1. /\ A \o E \in Seq(RecordSeq) /\ Len(A \o E) = N
        /\ \A i \in 1..N : (A \o E)[i] = IF i <= m THEN A[i] ELSE E[i - m]
    BY <1>1, <1>4, <1>6, ConcatProperties
  <2>2. ASSUME NEW i \in 1..N PROVE (A \o E)[i] = GlobalLists[i]
    <3>1. CASE i <= m
      <4>1. i \in 1..m
        BY <1>1, <3>1
      <4>. QED  BY <1>4, <1>10, <2>1, <3>1, <4>1
    <3>2. CASE ~(i <= m)
      <4>1. i - m \in 1..t
        BY <1>1, <3>2
      <4>. QED  BY <1>6, <1>8, <1>10, <2>1, <3>2, <4>1
    <3>. QED  BY <3>1, <3>2
  <2>. QED  BY <1>10, <2>1, <2>2, SeqEqual
<1>16. FlattenSeq(E) = <<>> /\ FlattenSeq(A) \in RecordSeq /\ FlattenSeq(B) \in RecordSeq
  BY <1>4, <1>5, <1>6, FlattenEmpties, FlattenType
<1>17. FlattenSeq(W) = FlattenSeq(A) \o FlattenSeq(B)
  BY <1>4, <1>5, <1>14, FlattenConcat
<1>18. FlattenSeq(GlobalLists) = FlattenSeq(A)
  <2>1. FlattenSeq(GlobalLists) = FlattenSeq(A) \o FlattenSeq(E)
    BY <1>4, <1>6, <1>15, FlattenConcat
  <2>2. FlattenSeq(A) \o <<>> = FlattenSeq(A)
    BY <1>16, ConcatEmptySeq DEF RecordSeq
  <2>. QED  BY <1>16, <2>1, <2>2
<1>19. Heard(N + 1) = Globals \o OwnRecords
  BY <1>10, <1>11, <1>13, <1>17, <1>18, Zenon
<1>20. t = 0 => OwnRecords = <<>>
  <2>1. t = 0 => \A k \in 1..Len(B) : B[k] = <<>>
    BY <1>5
  <2>. QED  BY <1>5, <1>13, <2>1, FlattenEmpties
<1>. QED  BY <1>13, <1>16, <1>19, <1>20 DEF N, t

-----------------------------------------------------------------------------
(* The steps that read no header.                                          *)

LEMMA AllowedKeeps ==
  ASSUME policy' = policy, NEW header
  PROVE  Allowed(header)' <=> Allowed(header)
BY DEF Allowed

LEMMA DecoderStarts ==
  ASSUME DecoderInit
  PROVE  Inv
<1>1. headers = <<>> /\ Len(headers) = 0 /\ 1..0 = {}
  BY DEF DecoderInit
<1>2. TypeInv
  <2>1. <<>> \in Seq(HeaderType) /\ <<>> \in RecordSeq
    BY EmptySeq DEF RecordSeq
  <2>2. /\ policy \in DecodePolicies /\ headers = <<>> /\ global_pax_records = <<>>
        /\ format = "Unknown" /\ reader = "Boundary" /\ fused = FALSE /\ call = "idle"
    BY DEF DecoderInit
  <2>. QED  BY <2>1, <2>2 DEF TypeInv
<1>3. FamilyInv /\ RawInv
  BY <1>1 DEF FamilyInv, RawInv
<1>4. CallInv /\ MetadataIsLastWord /\ PolicyIsExact
  BY DEF DecoderInit, CallInv, MetadataIsLastWord, PolicyIsExact, Pending
<1>5. PendingInv
  <2>1. Run(0, 0) = <<>> /\ 0 \in 0..Len(headers)
    BY <1>1 DEF Run
  <2>2. pending_extensions = [global_pax |-> Run(0, 0), gnu |-> Run(0 + 0, 0),
                              local_pax |-> Run(0 + 0 + 0, 0)]
    BY <2>1 DEF DecoderInit, NoPending
  <2>3. Unclaimed(0, 0, 0, 0)
    BY <1>1, <2>2 DEF Unclaimed
  <2>. QED  BY <2>1, <2>3 DEF PendingInv
<1>6. GlobalsInv
  <2>1. GlobalLists \in Seq(RecordSeq) /\ Len(GlobalLists) = 0 /\ Globals = FlattenSeq(GlobalLists)
    BY <1>1, <1>2, GlobalListsType DEF TypeInv
  <2>2. \A k \in 1..Len(GlobalLists) : GlobalLists[k] = <<>>
    BY <2>1
  <2>3. Globals = <<>>
    BY <2>1, <2>2, FlattenEmpties
  <2>4. global_pax_records = <<>>
    BY DEF DecoderInit
  <2>. QED  BY <2>3, <2>4 DEF GlobalsInv
<1>. QED  BY <1>2, <1>3, <1>4, <1>5, <1>6 DEF Inv

LEMMA UnclaimedKeeps ==
  ASSUME UNCHANGED <<policy, headers, pending_extensions>>, fused => fused',
         NEW b, NEW g, NEW u, NEW l, Unclaimed(b, g, u, l)
  PROVE  Unclaimed(b, g, u, l)'
<1>1. ASSUME NEW q \in 1..b PROVE Allowed(headers[q])' <=> Allowed(headers[q])
  <2>1. PICK h : h = headers[q] /\ h = headers'[q]
    OBVIOUS
  <2>2. Allowed(h)' <=> Allowed(h)
    BY AllowedKeeps
  <2>. QED  BY <2>1, <2>2
<1>. QED  BY <1>1 DEF Unclaimed

(* A step that reads no header and hands out neither a member nor a        *)
(* rejection of the policy.                                                *)
LEMMA NoHeaderKeeps ==
  ASSUME Inv, UNCHANGED <<policy, headers, format, global_pax_records>>, CallInv',
         out'.type \notin {"Member", "PolicyViolation"},
         reader' \in {"Boundary", "Payload", "Complete", "Failed"},
         fused' \in BOOLEAN, call' \in {"idle", "next_member"}, fused => fused',
         reader' \in {"Boundary", "Payload"} =>
           reader \in {"Boundary", "Payload"} /\ pending_extensions' = pending_extensions,
         reader = "Failed" => reader' = "Failed"
  PROVE  Inv'
<1>1. TypeInv' /\ FamilyInv'
  BY DEF Inv, TypeInv, FamilyInv
<1>2. MetadataIsLastWord' /\ PolicyIsExact'
  BY DEF MetadataIsLastWord, PolicyIsExact
<1>3. PendingInv'
  <2>1. SUFFICES ASSUME reader' \in {"Boundary", "Payload"}
                 PROVE  \E b, g, u, l \in 0..Len(headers') : Unclaimed(b, g, u, l)'
    BY DEF PendingInv
  <2>2. PICK b, g, u, l \in 0..Len(headers) : Unclaimed(b, g, u, l)
    BY <2>1 DEF Inv, PendingInv
  <2>3. pending_extensions' = pending_extensions
    BY <2>1
  <2>4. Unclaimed(b, g, u, l)'
    BY <2>2, <2>3, UnclaimedKeeps
  <2>. QED  BY <2>2, <2>4
<1>4. GlobalsInv'
  <2>1. Globals' = Globals
    BY DEF Globals
  <2>. QED  BY <2>1 DEF Inv, GlobalsInv
<1>5. RawInv'
  <2>1. ASSUME NEW p \in 1..Len(headers) PROVE RawAt(p)' <=> RawAt(p)
    <3>1. Heard(p)' = Heard(p)
      BY DEF Heard, Speaks
    <3>. QED  BY <3>1 DEF RawAt
  <2>. QED  BY <2>1 DEF Inv, RawInv
<1>. QED  BY <1>1, <1>2, <1>3, <1>4, <1>5 DEF Inv

LEMMA QuietStepsKeep ==
  ASSUME Inv, \/ CallNextMember \/ Drain \/ ReadEnd \/ ReadFails \/ CancelNext \/ PayloadFails
  PROVE  Inv'
<1>1. TypeInv /\ CallInv
  BY DEF Inv
<1>2. /\ End.type = "End" /\ Pending.type = "Pending" /\ Framing.type = "Framing"
  BY DEF End, Pending, Framing
<1>3. CASE CallNextMember
  <2>1. /\ UNCHANGED <<policy, headers, format, global_pax_records, pending_extensions, reader>>
        /\ out' \in {End, Pending} /\ fused' \in BOOLEAN /\ (fused => fused')
        /\ call' \in {"idle", "next_member"}
        /\ call' = "next_member" => ~fused' /\ ~fused /\ reader # "Failed"
    <3>1. UNCHANGED <<policy, headers, format, global_pax_records, pending_extensions, reader>>
      BY <1>3 DEF CallNextMember
    <3>2. CASE Rejects(End)
      BY <3>1, <3>2 DEF Rejects, Returns
    <3>3. CASE /\ ~fused /\ reader # "Failed" /\ UNCHANGED fused
               /\ call' = "next_member" /\ out' = Pending
      BY <1>1, <3>1, <3>3 DEF TypeInv
    <3>. QED  BY <1>3, <3>2, <3>3 DEF CallNextMember
  <2>2. CallInv'
    BY <1>1, <1>2, <2>1 DEF CallInv, TypeInv
  <2>. QED  BY <1>1, <1>2, <2>1, <2>2, NoHeaderKeeps DEF TypeInv
<1>4. CASE Drain
  <2>1. CallInv'
    BY <1>1, <1>4 DEF Drain, CallInv
  <2>2. out'.type \notin {"Member", "PolicyViolation"}
    BY <1>1, <1>4 DEF Drain, CallInv
  <2>. QED  BY <1>1, <1>4, <2>1, <2>2, NoHeaderKeeps DEF Drain, TypeInv
<1>5. CASE ReadEnd
  <2>1. CallInv'
    BY <1>2, <1>5 DEF ReadEnd, CallInv, Rejects, Returns
  <2>. QED  BY <1>1, <1>2, <1>5, <2>1, NoHeaderKeeps DEF ReadEnd, Rejects, Returns, TypeInv
<1>6. CASE ReadFails
  <2>1. CallInv'
    BY <1>2, <1>6 DEF ReadFails, ReaderFails, CallInv, Rejects, Returns
  <2>. QED  BY <1>1, <1>2, <1>6, <2>1, NoHeaderKeeps
            DEF ReadFails, ReaderFails, Rejects, Returns, TypeInv
<1>7. CASE CancelNext
  <2>1. CallInv'
    BY <1>1, <1>2, <1>7 DEF CancelNext, CallInv, Returns
  <2>. QED  BY <1>1, <1>2, <1>7, <2>1, NoHeaderKeeps DEF CancelNext, Returns, TypeInv
<1>8. CASE PayloadFails
  <2>1. CallInv'
    BY <1>1, <1>2, <1>8 DEF PayloadFails, CallInv
  <2>. QED  BY <1>1, <1>2, <1>8, <2>1, NoHeaderKeeps DEF PayloadFails, TypeInv
<1>. QED  BY <1>3, <1>4, <1>5, <1>6, <1>7, <1>8

-----------------------------------------------------------------------------
(* The steps that read one.                                                *)

LEMMA HeaderReadKeeps ==
  ASSUME Inv, reader # "Failed", NEW n, n = Len(headers) + 1,
         NEW header \in HeaderType, FormatMatches(header.family), Read(header),
         policy' = policy, global_pax_records' \in RecordSeq,
         reader' \in {"Boundary", "Payload", "Complete", "Failed"}, fused' \in BOOLEAN,
         call' \in {"idle", "next_member"},
         CallInv', MetadataIsLastWord', PolicyIsExact', PendingInv',
         reader' # "Failed" =>
           /\ \A k \in Keywords :
                Get(global_pax_records', k)
                  = Over(Get(global_pax_records, k),
                         Get(IF header.type = "Global" THEN header.records ELSE <<>>, k))
           /\ RawAt(n)'
  PROVE  Inv'
<1>1. TypeInv /\ FamilyInv /\ GlobalsInv /\ RawInv
  BY DEF Inv
<1>2. headers \in Seq(HeaderType) /\ headers' = Append(headers, header) /\ format' = header.family
  BY <1>1 DEF TypeInv, Read
<1>3. /\ headers' \in Seq(HeaderType) /\ Len(headers) \in Nat /\ Len(headers') = n
      /\ headers'[n] = header
      /\ \A q \in 1..Len(headers) : headers'[q] = headers[q]
  BY <1>2, AppendedHeader
<1>4. header.family \in {"Pax", "Gnu"} /\ header.records \in RecordSeq
  BY HeaderFields
<1>5. TypeInv'
  BY <1>1, <1>2, <1>3, <1>4 DEF TypeInv
<1>6. FamilyInv'
  <2>1. ASSUME NEW q \in 1..Len(headers') PROVE headers'[q].family = header.family
    <3>1. CASE q = n
      BY <1>3, <3>1
    <3>2. CASE q # n
      <4>1. q \in 1..Len(headers)
        BY <1>3, <3>2
      <4>2. headers[q].family = format /\ headers[q].family # "Unknown"
        BY <1>1, <1>2, <4>1, HeaderAt, HeaderFields DEF FamilyInv
      <4>. QED  BY <1>3, <4>1, <4>2 DEF FormatMatches
    <3>. QED  BY <3>1, <3>2
  <2>. QED  BY <1>2, <2>1 DEF FamilyInv
<1>7. GlobalsInv'
  <2>. DEFINE x == IF header.type = "Global" THEN header.records ELSE <<>>
  <2>1. Globals' = Globals \o x /\ Globals \in RecordSeq
    BY <1>2, NewGlobals, GlobalListsType
  <2>2. x \in RecordSeq
    BY <1>4 DEF RecordSeq
  <2>3. reader' # "Failed" =>
          \A k \in Keywords : Get(global_pax_records', k) = Over(Get(global_pax_records, k), Get(x, k))
    OBVIOUS
  <2>. HIDE DEF x
  <2>4. \A k \in Keywords : Get(Globals \o x, k) = Over(Get(Globals, k), Get(x, k))
    BY <2>1, <2>2, ConcatGet
  <2>5. \A k \in Keywords : Get(global_pax_records, k) = Get(Globals, k)
    BY <1>1 DEF GlobalsInv
  <2>6. reader' # "Failed" =>
          \A k \in Keywords : Get(global_pax_records', k) = Get(Globals \o x, k)
    BY <2>3, <2>4, <2>5, Zenon
  <2>. QED  BY <2>1, <2>6, Zenon DEF GlobalsInv
<1>8. RawInv'
  <2>1. ASSUME NEW p \in 1..Len(headers) PROVE RawAt(p)'
    <3>1. RawAt(p)
      BY <1>1 DEF RawInv
    <3>2. Heard(p)' = Heard(p)
      BY <1>2, <1>3, HeardKeeps
    <3>3. headers'[p] = headers[p]
      BY <1>3
    <3>. QED  BY <3>1, <3>2, <3>3 DEF RawAt
  <2>2. ASSUME NEW p \in 1..n, p < n \/ reader' # "Failed" PROVE RawAt(p)'
    <3>1. CASE p = n
      BY <2>2, <3>1
    <3>2. CASE p # n
      <4>1. p \in 1..Len(headers)
        BY <1>3, <3>2
      <4>. QED  BY <2>1, <4>1
    <3>. QED  BY <3>1, <3>2
  <2>. QED  BY <1>3, <2>2 DEF RawInv
<1>. QED  BY <1>5, <1>6, <1>7, <1>8 DEF Inv

(* A header whose payload the framing rejects ends the archive.            *)
LEMMA RejectedHeaderKeeps ==
  ASSUME Inv, reader # "Failed", NEW header \in HeaderType, FormatMatches(header.family),
         Read(header), ReaderFails, UNCHANGED <<policy, global_pax_records>>
  PROVE  Inv'
<1>1. PICK n : n = Len(headers) + 1
  OBVIOUS
<1>2. /\ reader' = "Failed" /\ fused' = TRUE /\ call' = "idle" /\ out' = Framing
      /\ pending_extensions' = NoPending
  BY DEF ReaderFails, Rejects, Returns
<1>3. CallInv' /\ MetadataIsLastWord' /\ PolicyIsExact' /\ PendingInv'
  BY <1>2 DEF CallInv, MetadataIsLastWord, PolicyIsExact, PendingInv, Framing
<1>4. global_pax_records' \in RecordSeq
  BY DEF Inv, TypeInv
<1>. QED  BY <1>1, <1>2, <1>3, <1>4, HeaderReadKeeps

LEMMA RunMore ==
  ASSUME NEW m \in Nat, NEW k \in Nat
  PROVE  /\ Append(Run(m, k), m + k + 1) = Run(m, k + 1)
         /\ Run(m, k) = <<>> <=> k = 0
         /\ Run(m, 0) = <<>>
         /\ Run(m, 1) = << m + 1 >>
<1>1. Run(m, 0) = <<>> /\ Run(m, 1) = << m + 1 >>
  BY DEF Run
<1>2. Len(Run(m, k)) = k /\ Run(m, k) \in Seq(Nat)
  BY RunIs
<1>3. Run(m, k) = <<>> <=> k = 0
  BY <1>2
<1>. DEFINE s == Append(Run(m, k), m + k + 1)
            t == Run(m, k + 1)
<1>4. /\ s \in Seq(Nat) /\ Len(s) = k + 1 /\ s[k + 1] = m + k + 1
      /\ \A i \in 1..k : s[i] = m + i
  <2>1. \A i \in 1..k : Run(m, k)[i] = m + i
    BY RunIs
  <2>2. m + k + 1 \in Nat
    OBVIOUS
  <2>. QED  BY <1>2, <2>1, <2>2, AppendProperties
<1>5. t \in Seq(Nat) /\ Len(t) = k + 1 /\ \A i \in 1..(k + 1) : t[i] = m + i
  <2>1. k + 1 \in Nat
    OBVIOUS
  <2>. QED  BY <2>1, RunIs, Zenon
<1>. HIDE DEF s, t
<1>6. \A i \in 1..(k + 1) : s[i] = t[i]
  <2>1. \A i \in 1..(k + 1) : i \in 1..k \/ i = k + 1
    OBVIOUS
  <2>. QED  BY <1>4, <1>5, <2>1
<1>7. s = t
  BY <1>4, <1>5, <1>6, SeqEqual
<1>. QED  BY <1>1, <1>3, <1>7 DEF s, t

(* The headers not yet taken are of one family.                            *)
LEMMA UnclaimedFamilies ==
  ASSUME TypeInv, FamilyInv, NEW b \in Nat, NEW g \in Nat, NEW u \in Nat, NEW l \in Nat,
         Unclaimed(b, g, u, l)
  PROVE  /\ FormatMatches("Pax") => u = 0
         /\ FormatMatches("Gnu") => g = 0 /\ l = 0
         /\ NoLocal <=> l = 0
<1>1. headers \in Seq(HeaderType) /\ b + g + u + l = Len(headers)
  BY DEF TypeInv, Unclaimed
<1>2. \A q \in 1..Len(headers) : headers[q].family = format /\ headers[q] \in HeaderType
  BY <1>1 DEF FamilyInv
<1>3. u > 0 => format = "Gnu"
  <2>1. ASSUME u > 0 PROVE format = "Gnu"
    <3>1. b + g + 1 \in 1..Len(headers) /\ headers[b + g + 1].type = "Gnu"
      BY <1>1, <2>1 DEF Unclaimed
    <3>. QED  BY <1>2, <3>1, HeaderFields
  <2>. QED  BY <2>1
<1>4. g > 0 => format = "Pax"
  <2>1. ASSUME g > 0 PROVE format = "Pax"
    <3>1. b + 1 \in 1..Len(headers) /\ headers[b + 1].type = "Global"
      BY <1>1, <2>1 DEF Unclaimed
    <3>. QED  BY <1>2, <3>1, HeaderFields
  <2>. QED  BY <2>1
<1>5. l > 0 => format = "Pax"
  <2>1. ASSUME l > 0 PROVE format = "Pax"
    <3>1. b + g + u + 1 \in 1..Len(headers) /\ headers[b + g + u + 1].type = "Local"
      BY <1>1, <2>1 DEF Unclaimed
    <3>. QED  BY <1>2, <3>1, HeaderFields
  <2>. QED  BY <2>1
<1>6. NoLocal <=> l = 0
  <2>1. pending_extensions.local_pax = Run(b + g + u, l) /\ b + g + u \in Nat
    BY DEF Unclaimed
  <2>. QED  BY <2>1, RunMore DEF NoLocal
<1>. QED  BY <1>3, <1>4, <1>5, <1>6 DEF FormatMatches

(* What the record says that decides, where the header before it did too.  *)
LEMMA EffectiveIsHeard ==
  ASSUME TypeInv, GlobalsInv, reader # "Failed",
         NEW b \in Nat, NEW g \in Nat, NEW u \in Nat, NEW l \in Nat, Unclaimed(b, g, u, l),
         NEW k \in Keywords
  PROVE  Get(Heard(Len(headers) + 1), k) = EffectiveOf(k)
<1>1. headers \in Seq(HeaderType) /\ global_pax_records \in RecordSeq
  BY DEF TypeInv
<1>2. OwnRecords \in RecordSeq /\ Heard(Len(headers) + 1) = Globals \o OwnRecords
  BY <1>1, HeardAtEnd
<1>3. Globals \in RecordSeq
  BY <1>1, GlobalListsType
<1>4. Get(Globals \o OwnRecords, k) = Over(Get(Globals, k), Get(OwnRecords, k))
  BY <1>2, <1>3, ConcatGet
<1>5. Get(Globals, k) = Get(global_pax_records, k)
  BY DEF GlobalsInv
<1>6. Get(OwnRecords, k) = "absent" <=> Occurrences(OwnRecords, k) = {}
  BY <1>2, GetIsAbsent
<1>. HIDE DEF OwnRecords, Get, Occurrences
<1>7. EffectiveOf(k) = Over(Get(global_pax_records, k), Get(OwnRecords, k))
  BY <1>6, Zenon DEF EffectiveOf, Effective, Over
<1>. QED  BY <1>2, <1>4, <1>5, <1>7, Zenon

(* A pax header is parsed in the charset the archive last declared.        *)
LEMMA RawNeedsBinary ==
  ASSUME TypeInv, GlobalsInv, reader # "Failed",
         NEW b \in Nat, NEW g \in Nat, NEW u \in Nat, NEW l \in Nat, Unclaimed(b, g, u, l),
         u + l = 0, NEW records \in RecordSeq, Parses(records, GlobalCharset(global_pax_records)),
         \E r \in Range(records) : r.keyword \in Encoded /\ r.value = "raw"
  PROVE  LastWord(Heard(Len(headers) + 1) \o records, "hdrcharset") = "binary"
<1>. DEFINE heard == Heard(Len(headers) + 1)
            k == "hdrcharset"
<1>1. headers \in Seq(HeaderType) /\ Len(headers) \in Nat
  BY DEF TypeInv
<1>2. heard \in RecordSeq
  BY <1>1, HeardType
<1>3. Get(heard, k) = Get(global_pax_records, k)
  <2>1. heard = Globals \o OwnRecords /\ OwnRecords = <<>>
    BY <1>1, HeardAtEnd
  <2>2. Globals \in RecordSeq
    BY <1>1, GlobalListsType
  <2>3. heard = Globals
    BY <2>1, <2>2, ConcatEmptySeq DEF RecordSeq
  <2>4. Get(global_pax_records, k) = Get(Globals, k)
    <3>1. \A w \in Keywords : Get(global_pax_records, w) = Get(Globals, w)
      BY DEF GlobalsInv
    <3>2. k \in Keywords
      BY DEF Keywords
    <3>. HIDE DEF k
    <3>. QED  BY <3>1, <3>2
  <2>. QED  BY <2>3, <2>4, Zenon
<1>4. Charset(records, GlobalCharset(global_pax_records)) = "binary"
  <2>1. PICK r \in Range(records) : r.keyword \in Encoded /\ r.value = "raw"
    OBVIOUS
  <2>2. PICK i \in 1..Len(records) : r = records[i]
    BY RangeIsPositions
  <2>3. records[i].value = "raw" /\ records[i].keyword # "vendor"
    BY <2>1, <2>2 DEF Encoded
  <2>. QED  BY <2>3 DEF Parses
<1>5. Over(Get(global_pax_records, k), Get(records, k)) = "binary"
  BY <1>4 DEF Charset, GlobalCharset, Over
<1>. HIDE DEF heard, k
<1>6. heard \o records \in RecordSeq /\ Get(heard \o records, k) = Over(Get(heard, k), Get(records, k))
  BY <1>2, ConcatGet
<1>7. LastWord(heard \o records, k) = Get(heard \o records, k)
  BY <1>6, GetIsAbsent
<1>. QED  BY <1>3, <1>5, <1>6, <1>7 DEF heard, k

LEMMA EmptyGet ==
  \A k : Get(<<>>, k) = "absent"
BY DEF Get, Occurrences

LEMMA ReadGlobalKeeps ==
  ASSUME Inv, NEW records \in RecordLists, ReadGlobal(records)
  PROVE  Inv'
<1>1. TypeInv /\ FamilyInv /\ CallInv /\ PendingInv /\ GlobalsInv
  BY DEF Inv
<1>. DEFINE header == Header("Global", "Pax", records)
<1>2. /\ call = "next_member" /\ reader = "Boundary" /\ NoLocal /\ FormatMatches("Pax")
      /\ Read(header) /\ policy' = policy
  BY DEF ReadGlobal, CanRead
<1>3. records \in RecordSeq /\ headers \in Seq(HeaderType) /\ Len(headers) \in Nat
      /\ global_pax_records \in RecordSeq
  BY <1>1, DecoderAssumption DEF RecordSeq, TypeInv
<1>4. header \in HeaderType /\ header.type = "Global" /\ header.family = "Pax"
      /\ header.records = records
  BY <1>3 DEF Header, HeaderType
<1>. HIDE DEF header
<1>5. CASE ~Parses(records, GlobalCharset(global_pax_records))
  <2>1. ReaderFails /\ UNCHANGED <<policy, global_pax_records>>
    BY <1>2, <1>5 DEF ReadGlobal
  <2>. QED  BY <1>2, <1>4, <2>1, RejectedHeaderKeeps
<1>6. CASE Parses(records, GlobalCharset(global_pax_records))
  <2>. DEFINE N == Len(headers)
  <2>1. /\ global_pax_records' = ApplyGlobal(global_pax_records, records)
        /\ pending_extensions' = [pending_extensions EXCEPT !.global_pax = Append(@, N + 1)]
        /\ UNCHANGED <<reader, fused, call, out>>
    BY <1>6 DEF ReadGlobal, Here
  <2>2. PICK b, g, u, l \in 0..N : Unclaimed(b, g, u, l)
    BY <1>1, <1>2 DEF PendingInv
  <2>3. b \in Nat /\ g \in Nat /\ u \in Nat /\ l \in Nat
    BY <1>3, <2>2
  <2>4. u = 0 /\ l = 0 /\ b + g = N
    <3>1. u = 0 /\ l = 0
      BY <1>1, <1>2, <2>2, <2>3, UnclaimedFamilies
    <3>. QED  BY <2>2, <2>3, <3>1 DEF Unclaimed
  <2>5. headers' = Append(headers, header)
    BY <1>2 DEF Read
  <2>6. /\ Len(headers') = N + 1 /\ headers'[N + 1] = header
        /\ \A q \in 1..N : headers'[q] = headers[q]
    BY <1>3, <1>4, <2>5, AppendedHeader
  <2>7. /\ global_pax_records' \in RecordSeq
        /\ \A k \in Keywords : Get(global_pax_records', k)
                               = Over(Get(global_pax_records, k), Get(records, k))
    BY <1>3, <2>1, ApplyGlobalGet
  <2>8. Unclaimed(b, g + 1, 0, 0)'
    <3>1. pending_extensions' = [global_pax |-> Run(b, g + 1), gnu |-> Run(b + (g + 1), 0),
                                 local_pax |-> Run(b + (g + 1) + 0, 0)]
      <4>1. Append(Run(b, g), N + 1) = Run(b, g + 1)
        BY ZenonT(40), <2>3, <2>4, RunMore
      <4>2. Run(b + g, 0) = <<>> /\ Run(b + g + 0, 0) = <<>>
            /\ Run(b + (g + 1), 0) = <<>> /\ Run(b + (g + 1) + 0, 0) = <<>>
        <5>1. \A m \in Nat : Run(m, 0) = <<>>
          BY DEF Run
        <5>2. b + g \in Nat /\ b + g + 0 \in Nat /\ b + (g + 1) \in Nat /\ b + (g + 1) + 0 \in Nat
          BY <2>3
        <5>. QED  BY <5>1, <5>2, Zenon
      <4>3. pending_extensions = [global_pax |-> Run(b, g), gnu |-> <<>>, local_pax |-> <<>>]
        BY <2>2, <2>4, <4>2 DEF Unclaimed
      <4>. QED  BY <2>1, <4>1, <4>2, <4>3
    <3>2. b > 0 => headers'[b].type = "Member"
      BY <2>2, <2>3, <2>6 DEF Unclaimed
    <3>3. ASSUME NEW q \in (b + 1)..(b + (g + 1)) PROVE headers'[q].type = "Global"
      <4>1. CASE q = N + 1
        BY <1>4, <2>6, <4>1
      <4>2. CASE q # N + 1
        <5>1. q \in (b + 1)..(b + g) /\ q \in 1..N
          BY <2>3, <2>4, <4>2
        <5>2. headers[q].type = "Global"
          BY <2>2, <5>1 DEF Unclaimed
        <5>. QED  BY <2>6, <5>1, <5>2
      <4>. QED  BY <4>1, <4>2
    <3>4. ASSUME ~fused', NEW q \in 1..b PROVE Allowed(headers[q])'
      <4>1. q \in 1..N /\ Allowed(headers[q])
        BY <2>1, <2>2, <2>3, <3>4 DEF Unclaimed
      <4>2. PICK h : h = headers[q] /\ h = headers'[q]
        BY <2>6, <4>1
      <4>3. Allowed(h)' <=> Allowed(h)
        BY <1>2, AllowedKeeps
      <4>. QED  BY <4>1, <4>2, <4>3
    <3>5. /\ b + (g + 1) + 0 + 0 = Len(headers')
          /\ (b + (g + 1) + 1)..(b + (g + 1) + 0) = {}
          /\ (b + (g + 1) + 0 + 1)..Len(headers') = {}
      BY <2>3, <2>4, <2>6
    <3>6. 0 <= 1 /\ ~(0 > 0)
      OBVIOUS
    <3>7. ~fused' => \A q \in 1..b : Allowed(headers[q])'
      BY <3>4
    <3>. QED  BY <3>1, <3>2, <3>3, <3>5, <3>6, <3>7, Zenon DEF Unclaimed
  <2>9. PendingInv'
    <3>1. b \in 0..Len(headers') /\ g + 1 \in 0..Len(headers') /\ 0 \in 0..Len(headers')
      BY <2>3, <2>4, <2>6
    <3>. QED  BY <2>8, <3>1 DEF PendingInv
  <2>10. CallInv' /\ MetadataIsLastWord' /\ PolicyIsExact'
    <3>1. out'.type \notin {"Member", "PolicyViolation"}
      BY <1>1, <1>2, <2>1 DEF CallInv
    <3>. QED  BY <1>1, <1>2, <2>1, <3>1 DEF CallInv, MetadataIsLastWord, PolicyIsExact
  <2>11. PICK n : n = N + 1
    OBVIOUS
  <2>12. RawAt(n)'
    <3>1. (\E r \in Range(records) : r.keyword \in Encoded /\ r.value = "raw") =>
            LastWord(Heard(n) \o records, "hdrcharset") = "binary"
      <4>1. u + l = 0 /\ reader # "Failed"
        BY <1>2, <2>4
      <4>. QED  BY <1>1, <1>3, <1>6, <2>2, <2>3, <2>11, <4>1, RawNeedsBinary
    <3>2. Heard(n)' = Heard(n)
      <4>1. n \in 1..(N + 1)
        BY <1>3, <2>11
      <4>. QED  BY <1>3, <1>4, <2>5, <4>1, HeardKeeps
    <3>3. headers'[n].records = records
      BY <1>4, <2>6, <2>11
    <3>. QED  BY <3>1, <3>2, <3>3 DEF RawAt
  <2>13. reader # "Failed" /\ reader' = "Boundary" /\ fused' \in BOOLEAN
         /\ call' \in {"idle", "next_member"}
    BY <1>1, <1>2, <2>1 DEF TypeInv
  <2>14. (IF header.type = "Global" THEN header.records ELSE <<>>) = records
    BY <1>4
  <2>15. FormatMatches(header.family)
    BY <1>2, <1>4
  <2>. HIDE DEF N
  <2>16. reader' # "Failed" =>
           /\ \A k \in Keywords :
                Get(global_pax_records', k)
                  = Over(Get(global_pax_records, k),
                         Get(IF header.type = "Global" THEN header.records ELSE <<>>, k))
           /\ RawAt(n)'
    BY <2>7, <2>12, <2>14
  <2>. QED  BY <1>2, <1>4, <2>7, <2>9, <2>10, <2>11, <2>13, <2>15, <2>16, HeaderReadKeeps DEF N
<1>. QED  BY <1>5, <1>6

(* A header that is not global, and not a member: the member to come takes *)
(* it too.                                                                 *)
LEMMA ExtensionKeeps ==
  ASSUME Inv, reader = "Boundary", call = "next_member",
         NEW header \in HeaderType, header.type # "Global",
         FormatMatches(header.family), Read(header),
         UNCHANGED <<policy, global_pax_records, reader, fused, call, out>>,
         NEW b \in Nat, NEW g \in Nat, NEW u \in Nat, NEW l \in Nat, Unclaimed(b, g, u, l),
         NEW u1 \in Nat, NEW l1 \in Nat, l1 <= 1, u1 > 0 => g = 0 /\ l1 = 0,
         \/ header.type = "Gnu" /\ u1 = u + 1 /\ l1 = 0 /\ l = 0
         \/ header.type = "Local" /\ u1 = 0 /\ l1 = 1 /\ u = 0 /\ l = 0,
         pending_extensions' = [global_pax |-> Run(b, g), gnu |-> Run(b + g, u1),
                                local_pax |-> Run(b + g + u1, l1)],
         header.type = "Local" => \A n : n = Len(headers) + 1 => RawAt(n)'
  PROVE  Inv'
<1>. DEFINE N == Len(headers)
<1>1. TypeInv /\ CallInv /\ b + g + u = N /\ b + g + u1 + l1 = N + 1 /\ N \in Nat
  BY DEF Inv, Unclaimed
<1>2. headers \in Seq(HeaderType) /\ headers' = Append(headers, header)
  BY <1>1 DEF Read, TypeInv
<1>3. /\ Len(headers') = N + 1 /\ headers'[N + 1] = header
      /\ \A q \in 1..N : headers'[q] = headers[q]
  BY <1>2, AppendedHeader
<1>4. Unclaimed(b, g, u1, l1)'
  <2>1. b + g + u1 + l1 = Len(headers') /\ l1 <= 1 /\ (u1 > 0 => g = 0 /\ l1 = 0)
    BY <1>1, <1>3
  <2>2. b > 0 => headers'[b].type = "Member"
    BY <1>1, <1>3 DEF Unclaimed
  <2>3. ASSUME NEW q \in (b + 1)..(b + g) PROVE headers'[q].type = "Global"
    <3>1. q \in 1..N
      BY <1>1
    <3>. QED  BY <1>3, <3>1 DEF Unclaimed
  <2>4. ASSUME NEW q \in (b + g + 1)..(b + g + u1) PROVE headers'[q].type = "Gnu"
    <3>1. CASE q = N + 1
      BY <1>1, <1>3, <3>1
    <3>2. CASE q # N + 1
      <4>1. q \in 1..N /\ q \in (b + g + 1)..(b + g + u)
        BY <1>1, <3>2
      <4>. QED  BY <1>3, <4>1 DEF Unclaimed
    <3>. QED  BY <3>1, <3>2
  <2>5. ASSUME NEW q \in (b + g + u1 + 1)..Len(headers') PROVE headers'[q].type = "Local"
    <3>1. q = N + 1 /\ l1 = 1
      BY <1>1, <1>3
    <3>. QED  BY <1>3, <3>1
  <2>6. ASSUME ~fused', NEW q \in 1..b PROVE Allowed(headers[q])'
    <3>1. q \in 1..N /\ Allowed(headers[q])
      BY <1>1, <2>6 DEF Unclaimed
    <3>2. PICK h : h = headers[q] /\ h = headers'[q]
      BY <1>3, <3>1
    <3>3. Allowed(h)' <=> Allowed(h)
      BY AllowedKeeps
    <3>. QED  BY <3>1, <3>2, <3>3
  <2>7. ~fused' => \A q \in 1..b : Allowed(headers[q])'
    BY <2>6
  <2>. QED  BY <2>1, <2>2, <2>3, <2>4, <2>5, <2>7, Zenon DEF Unclaimed
<1>5. PendingInv'
  <2>1. /\ b \in 0..Len(headers') /\ g \in 0..Len(headers')
        /\ u1 \in 0..Len(headers') /\ l1 \in 0..Len(headers')
    BY <1>1, <1>3
  <2>. QED  BY <1>4, <2>1 DEF PendingInv
<1>6. CallInv' /\ MetadataIsLastWord' /\ PolicyIsExact'
  <2>1. out'.type \notin {"Member", "PolicyViolation"}
    BY <1>1 DEF CallInv
  <2>. QED  BY <1>1, <2>1 DEF CallInv, MetadataIsLastWord, PolicyIsExact
<1>7. PICK n : n = N + 1
  OBVIOUS
<1>8. RawAt(n)'
  <2>1. CASE header.type = "Local"
    BY <1>7, <2>1
  <2>2. CASE header.type = "Gnu"
    BY <1>3, <1>7, <2>2 DEF RawAt
  <2>. QED  BY <2>1, <2>2
<1>9. ASSUME NEW k \in Keywords
      PROVE  Get(global_pax_records', k)
               = Over(Get(global_pax_records, k),
                      Get(IF header.type = "Global" THEN header.records ELSE <<>>, k))
  <2>1. Get(<<>>, k) = "absent"
    BY EmptyGet
  <2>2. (IF header.type = "Global" THEN header.records ELSE <<>>) = <<>>
    OBVIOUS
  <2>. QED  BY <2>1, <2>2 DEF Over
<1>10. /\ reader # "Failed" /\ reader' = "Boundary" /\ fused' \in BOOLEAN /\ call' = "next_member"
       /\ global_pax_records' \in RecordSeq
  BY <1>1 DEF TypeInv
<1>11. reader' # "Failed" =>
         /\ \A k \in Keywords :
              Get(global_pax_records', k)
                = Over(Get(global_pax_records, k),
                       Get(IF header.type = "Global" THEN header.records ELSE <<>>, k))
         /\ RawAt(n)'
  BY <1>8, <1>9
<1>. QED  BY <1>5, <1>6, <1>7, <1>10, <1>11, HeaderReadKeeps

LEMMA ReadLocalKeeps ==
  ASSUME Inv, NEW records \in RecordLists, ReadLocal(records)
  PROVE  Inv'
<1>1. TypeInv /\ FamilyInv /\ PendingInv /\ GlobalsInv
  BY DEF Inv
<1>. DEFINE header == Header("Local", "Pax", records)
<1>2. /\ call = "next_member" /\ reader = "Boundary" /\ NoLocal /\ FormatMatches("Pax")
      /\ Read(header) /\ policy' = policy /\ global_pax_records' = global_pax_records
  BY DEF ReadLocal, CanRead
<1>3. records \in RecordSeq /\ headers \in Seq(HeaderType) /\ Len(headers) \in Nat
  BY <1>1, DecoderAssumption DEF RecordSeq, TypeInv
<1>4. header \in HeaderType /\ header.type = "Local" /\ header.family = "Pax"
      /\ header.records = records
  BY <1>3 DEF Header, HeaderType
<1>. HIDE DEF header
<1>5. CASE ~Parses(records, GlobalCharset(global_pax_records))
  <2>1. ReaderFails
    BY <1>5 DEF ReadLocal
  <2>. QED  BY <1>2, <1>4, <2>1, RejectedHeaderKeeps
<1>6. CASE Parses(records, GlobalCharset(global_pax_records))
  <2>. DEFINE N == Len(headers)
  <2>1. /\ pending_extensions' = [pending_extensions EXCEPT !.local_pax = << N + 1 >>]
        /\ UNCHANGED <<reader, fused, call, out>>
    BY <1>6 DEF ReadLocal, Here
  <2>2. PICK b, g, u, l \in 0..N : Unclaimed(b, g, u, l)
    BY <1>1, <1>2 DEF PendingInv
  <2>3. b \in Nat /\ g \in Nat /\ u \in Nat /\ l \in Nat
    BY <1>3, <2>2
  <2>4. u = 0 /\ l = 0 /\ b + g = N
    <3>1. u = 0 /\ l = 0
      BY <1>1, <1>2, <2>2, <2>3, UnclaimedFamilies
    <3>. QED  BY <2>2, <2>3, <3>1 DEF Unclaimed
  <2>5. headers' = Append(headers, header)
    BY <1>2 DEF Read
  <2>6. pending_extensions' = [global_pax |-> Run(b, g), gnu |-> Run(b + g, 0),
                               local_pax |-> Run(b + g + 0, 1)]
    <3>1. Run(b + g + 0, 1) = << N + 1 >>
      BY <2>3, <2>4, RunMore
    <3>2. pending_extensions = [global_pax |-> Run(b, g), gnu |-> Run(b + g, 0),
                                local_pax |-> Run(b + g + u, l)]
      BY <2>2, <2>4 DEF Unclaimed
    <3>. QED  BY <2>1, <3>1, <3>2
  <2>7. ASSUME NEW n, n = N + 1 PROVE RawAt(n)'
    <3>1. (\E r \in Range(records) : r.keyword \in Encoded /\ r.value = "raw") =>
            LastWord(Heard(n) \o records, "hdrcharset") = "binary"
      <4>1. u + l = 0 /\ reader # "Failed"
        BY <1>2, <2>4
      <4>. QED  BY <1>1, <1>3, <1>6, <2>2, <2>3, <2>7, <4>1, RawNeedsBinary
    <3>2. Heard(n)' = Heard(n)
      <4>1. n \in 1..(N + 1)
        BY <1>3, <2>7
      <4>. QED  BY <1>3, <1>4, <2>5, <4>1, HeardKeeps
    <3>3. headers'[n].records = records
      BY <1>3, <1>4, <2>5, <2>7, AppendedHeader
    <3>. QED  BY <3>1, <3>2, <3>3 DEF RawAt
  <2>8. \A n : n = Len(headers) + 1 => RawAt(n)'
    BY <2>7
  <2>9. /\ FormatMatches(header.family) /\ header.type # "Global"
        /\ 0 \in Nat /\ 1 \in Nat /\ 1 <= 1 /\ (0 > 0 => g = 0 /\ 1 = 0)
        /\ header.type = "Local" /\ 0 = 0 /\ 1 = 1 /\ u = 0 /\ l = 0
    BY <1>2, <1>4, <2>4
  <2>. QED  BY ZenonT(40), <1>2, <1>4, <2>1, <2>2, <2>3, <2>6, <2>8, <2>9, ExtensionKeeps
<1>. QED  BY <1>5, <1>6

LEMMA ReadGnuKeeps ==
  ASSUME Inv, NEW keyword \in {"path", "linkpath"}, NEW text \in NameTexts,
         ReadGnu(keyword, text)
  PROVE  Inv'
<1>1. TypeInv /\ FamilyInv /\ PendingInv
  BY DEF Inv
<1>. DEFINE header == Header("Gnu", "Gnu", << Record(keyword, text) >>)
            N == Len(headers)
<1>2. /\ call = "next_member" /\ reader = "Boundary" /\ FormatMatches("Gnu") /\ Read(header)
      /\ UNCHANGED <<policy, global_pax_records, reader, fused, call, out>>
      /\ pending_extensions' = [pending_extensions EXCEPT !.gnu = Append(@, N + 1)]
  BY DEF ReadGnu, CanRead, Here
<1>3. header \in HeaderType /\ header.type = "Gnu" /\ header.family = "Gnu"
  <2>1. Record(keyword, text) \in RecordType
    BY DecoderAssumption DEF Record, RecordType, Keywords, Encoded
  <2>2. << Record(keyword, text) >> \in RecordSeq
    BY <2>1 DEF RecordSeq
  <2>. QED  BY <2>2 DEF Header, HeaderType
<1>. HIDE DEF header
<1>4. PICK b, g, u, l \in 0..N : Unclaimed(b, g, u, l)
  BY <1>1, <1>2 DEF PendingInv
<1>5. N \in Nat /\ b \in Nat /\ g \in Nat /\ u \in Nat /\ l \in Nat
  BY <1>1, <1>4 DEF TypeInv
<1>6. g = 0 /\ l = 0 /\ b + g + u = N
  <2>1. g = 0 /\ l = 0
    BY <1>1, <1>2, <1>4, <1>5, UnclaimedFamilies
  <2>. QED  BY <1>4, <1>5, <2>1 DEF Unclaimed
<1>7. pending_extensions' = [global_pax |-> Run(b, g), gnu |-> Run(b + g, u + 1),
                             local_pax |-> Run(b + g + (u + 1), 0)]
  <2>1. Append(Run(b + g, u), N + 1) = Run(b + g, u + 1)
    <3>1. b + g \in Nat /\ (b + g) + u + 1 = N + 1
      BY <1>5, <1>6
    <3>. QED  BY <1>5, <3>1, RunMore
  <2>2. Run(b + g + u, 0) = <<>> /\ Run(b + g + (u + 1), 0) = <<>>
    <3>1. \A m \in Nat : Run(m, 0) = <<>>
      BY DEF Run
    <3>2. b + g + u \in Nat /\ b + g + (u + 1) \in Nat
      BY <1>5
    <3>. QED  BY <3>1, <3>2, Zenon
  <2>3. pending_extensions = [global_pax |-> Run(b, g), gnu |-> Run(b + g, u), local_pax |-> <<>>]
    BY <1>4, <1>6, <2>2 DEF Unclaimed
  <2>. QED  BY <1>2, <2>1, <2>2, <2>3
<1>8. /\ u + 1 \in Nat /\ 0 \in Nat /\ 0 <= 1 /\ (u + 1 > 0 => g = 0 /\ 0 = 0)
      /\ header.type = "Gnu" /\ u + 1 = u + 1 /\ 0 = 0 /\ l = 0
      /\ FormatMatches(header.family) /\ header.type # "Global" /\ header.type # "Local"
  BY <1>2, <1>3, <1>5, <1>6
<1>9. header.type = "Local" => \A n : n = Len(headers) + 1 => RawAt(n)'
  BY <1>8
<1>10. PICK u1, l1 : u1 = u + 1 /\ l1 = 0
  OBVIOUS
<1>11. /\ u1 \in Nat /\ l1 \in Nat /\ l1 <= 1 /\ (u1 > 0 => g = 0 /\ l1 = 0)
       /\ pending_extensions' = [global_pax |-> Run(b, g), gnu |-> Run(b + g, u1),
                                 local_pax |-> Run(b + g + u1, l1)]
  BY <1>7, <1>8, <1>10
<1>12. header.type = "Gnu" /\ u1 = u + 1 /\ l1 = 0 /\ l = 0
  BY <1>8, <1>10
<1>. HIDE DEF N
<1>13. /\ Inv /\ reader = "Boundary" /\ call = "next_member"
       /\ header \in HeaderType /\ header.type # "Global"
  BY <1>2, <1>3, <1>8
<1>14. /\ FormatMatches(header.family) /\ Read(header)
       /\ UNCHANGED <<policy, global_pax_records, reader, fused, call, out>>
  BY <1>2, <1>8
<1>15. Unclaimed(b, g, u, l) /\ b \in Nat /\ g \in Nat /\ u \in Nat /\ l \in Nat
  BY <1>4, <1>5
<1>. QED  BY <1>9, <1>11, <1>12, <1>13, <1>14, <1>15, ExtensionKeeps

-----------------------------------------------------------------------------
(* The member, checked and projected.                                      *)

LEMMA LookedIs ==
  ASSUME NEW b \in Nat, NEW g \in Nat, NEW u \in Nat, NEW l \in Nat, Unclaimed(b, g, u, l),
         NEW n \in Nat
  PROVE  /\ Len(Looked(n)) = g + 1 + l
         /\ Len(pending_extensions.global_pax) = g
         /\ \A i \in 1..g : Looked(n)[i] = b + i
         /\ Looked(n)[g + 1] = IF u > 0 THEN b + g + 1 ELSE n
         /\ l = 1 => Looked(n)[g + 2] = b + g + u + 1
<1>. DEFINE x == Run(b, g)
            y == Append(Run(b + g, u), n)
            z == Run(b + g + u, l)
<1>1. Looked(n) = (x \o << Head(y) >>) \o z /\ pending_extensions.global_pax = x /\ l <= 1
  BY DEF Looked, Unclaimed
<1>2. /\ x \in Seq(Nat) /\ Len(x) = g /\ \A i \in 1..g : x[i] = b + i
  BY RunIs
<1>3. /\ z \in Seq(Nat) /\ Len(z) = l /\ \A i \in 1..l : z[i] = b + g + u + i
  <2>1. b + g + u \in Nat
    OBVIOUS
  <2>. QED  BY <2>1, RunIs, Zenon
<1>4. Head(y) = (IF u > 0 THEN b + g + 1 ELSE n) /\ Head(y) \in Nat
  <2>1. b + g \in Nat
    OBVIOUS
  <2>2. /\ Run(b + g, u) \in Seq(Nat) /\ Len(Run(b + g, u)) = u
        /\ \A i \in 1..u : Run(b + g, u)[i] = (b + g) + i
    BY <2>1, RunIs, Zenon
  <2>3. y \in Seq(Nat) /\ Len(y) = u + 1 /\ y[u + 1] = n /\ \A i \in 1..u : y[i] = (b + g) + i
    BY <2>2, AppendProperties
  <2>. HIDE DEF y
  <2>4. Head(y) = y[1]
    BY <2>3
  <2>. QED  BY <2>3, <2>4
<1>. DEFINE h == Head(y)
<1>. HIDE DEF x, y, z, h
<1>5. << h >> \in Seq(Nat) /\ Len(<< h >>) = 1 /\ << h >>[1] = h
  BY <1>4 DEF h
<1>6. /\ x \o << h >> \in Seq(Nat) /\ Len(x \o << h >>) = g + 1
      /\ \A i \in 1..(g + 1) : (x \o << h >>)[i] = IF i <= g THEN x[i] ELSE << h >>[i - g]
  BY ZenonT(40), <1>2, <1>5, ConcatProperties
<1>. DEFINE w == x \o << h >>
<1>. HIDE DEF w
<1>7. /\ w \in Seq(Nat) /\ Len(w) = g + 1 /\ w[g + 1] = h /\ \A i \in 1..g : w[i] = b + i
  <2>1. g + 1 \in 1..(g + 1) /\ ~(g + 1 <= g) /\ (g + 1) - g = 1
    OBVIOUS
  <2>2. w[g + 1] = h
    BY <1>5, <1>6, <2>1 DEF w
  <2>3. \A i \in 1..g : i \in 1..(g + 1) /\ i <= g
    OBVIOUS
  <2>. QED  BY <1>2, <1>6, <2>2, <2>3 DEF w
<1>8. /\ Len(w \o z) = (g + 1) + l
      /\ \A i \in 1..((g + 1) + l) : (w \o z)[i] = IF i <= g + 1 THEN w[i] ELSE z[i - (g + 1)]
  <2>1. /\ Len(w \o z) = Len(w) + Len(z)
        /\ \A i \in 1..(Len(w) + Len(z)) :
             (w \o z)[i] = IF i <= Len(w) THEN w[i] ELSE z[i - Len(w)]
    BY <1>3, <1>7, ConcatProperties
  <2>. QED  BY <1>3, <1>7, <2>1, Zenon
<1>9. Looked(n) = w \o z
  BY <1>1 DEF w, h
<1>10. \A i \in 1..g : (w \o z)[i] = b + i
  <2>1. \A i \in 1..g : i \in 1..((g + 1) + l) /\ i <= g + 1
    OBVIOUS
  <2>. QED  BY <1>7, <1>8, <2>1
<1>11. (w \o z)[g + 1] = h
  <2>1. g + 1 \in 1..((g + 1) + l) /\ g + 1 <= g + 1
    OBVIOUS
  <2>. QED  BY <1>7, <1>8, <2>1
<1>12. l = 1 => (w \o z)[g + 2] = b + g + u + 1
  <2>1. l = 1 => g + 2 \in 1..((g + 1) + l) /\ ~(g + 2 <= g + 1) /\ (g + 2) - (g + 1) = 1
    OBVIOUS
  <2>2. l = 1 => z[1] = b + g + u + 1
    BY <1>3
  <2>. QED  BY <1>8, <2>1, <2>2
<1>. QED  BY <1>1, <1>2, <1>4, <1>8, <1>9, <1>10, <1>11, <1>12 DEF h

(* The headers up to the one that fails are allowed, and it is not.        *)
Judged(hs, i, p) ==
  /\ i = {} => \A q \in 1..p : Allowed(hs[q])
  /\ i # {} => LET r == Looked(p)[Min(i)]
               IN  r \in 1..p /\ (\A q \in 1..(r - 1) : Allowed(hs[q])) /\ ~Allowed(hs[r])

LEMMA MinIs ==
  ASSUME NEW U \in SUBSET Nat, U # {}
  PROVE  Min(U) \in U /\ \A y \in U : Min(U) <= y
<1>1. PICK x \in U : \A y \in U : x <= y
  <2>1. PICK u \in U : TRUE
    OBVIOUS
  <2>. QED  BY <2>1, LeastNatural
<1>. QED  BY <1>1 DEF Min

LEMMA PolicyJudges ==
  ASSUME TypeInv, FamilyInv, ~fused,
         NEW b \in Nat, NEW g \in Nat, NEW u \in Nat, NEW l \in Nat, Unclaimed(b, g, u, l),
         NEW header \in HeaderType, header.type = "Member", FormatMatches(header.family),
         NEW n, n = Len(headers) + 1,
         NEW hs, hs[n] = header, \A q \in 1..Len(headers) : hs[q] = headers[q]
  PROVE  Judged(hs, Failures(header.family, n), n)
<1>. DEFINE N == Len(headers)
            F == Failures(header.family, n)
<1>1. /\ headers \in Seq(HeaderType) /\ N \in Nat /\ n \in Nat /\ b + g + u + l = N /\ l <= 1
      /\ u > 0 => g = 0 /\ l = 0
      /\ policy \in DecodePolicies
      /\ \A q \in 1..N : headers[q] \in HeaderType /\ headers[q].family = format
  BY DEF TypeInv, FamilyInv, Unclaimed
<1>2. /\ \A q \in (b + 1)..(b + g) : headers[q].type = "Global"
      /\ \A q \in (b + g + 1)..(b + g + u) : headers[q].type = "Gnu"
      /\ \A q \in (b + g + u + 1)..N : headers[q].type = "Local"
      /\ \A q \in 1..b : Allowed(headers[q])
  BY DEF Unclaimed
<1>3. /\ Len(Looked(n)) = g + 1 + l
      /\ Len(pending_extensions.global_pax) = g
      /\ \A i \in 1..g : Looked(n)[i] = b + i
      /\ Looked(n)[g + 1] = IF u > 0 THEN b + g + 1 ELSE n
      /\ l = 1 => Looked(n)[g + 2] = b + g + u + 1
  <2>1. n \in Nat
    BY <1>1
  <2>. HIDE DEF N
  <2>. QED  BY SMTT(30), <2>1, LookedIs
<1>4. /\ F \in SUBSET (1..(g + 1 + l))
      /\ \A i \in 1..g : i \in F <=> ~GlobalPasses(b + i)
      /\ g + 1 \in F <=> ~FormatPasses(header.family)
      /\ l = 1 => (g + 2 \in F <=> ~LocalPasses(b + g + u + 1))
  <2>. DEFINE fails(i) == \/ i <= g     /\ ~GlobalPasses(Looked(n)[i])
                          \/ i = g + 1 /\ ~FormatPasses(header.family)
                          \/ i > g + 1 /\ ~LocalPasses(Looked(n)[i])
  <2>1. F = { i \in 1..(g + 1 + l) : fails(i) }
    BY <1>3, Zenon DEF Failures
  <2>2. ASSUME NEW i \in 1..g
        PROVE  i \in 1..(g + 1 + l) /\ (fails(i) <=> ~GlobalPasses(b + i))
    <3>1. /\ i \in 1..(g + 1 + l) /\ i <= g /\ ~(i = g + 1) /\ ~(i > g + 1)
          /\ Looked(n)[i] = b + i
      <4>1. i \in 1..(g + 1 + l) /\ i <= g /\ ~(i = g + 1) /\ ~(i > g + 1)
        BY <1>1
      <4>. QED  BY <1>3, <4>1
    <3>. QED  BY <3>1, Zenon
  <2>3. g + 1 \in 1..(g + 1 + l) /\ (fails(g + 1) <=> ~FormatPasses(header.family))
    <3>1. g + 1 \in 1..(g + 1 + l) /\ ~(g + 1 <= g) /\ ~(g + 1 > g + 1)
      BY <1>1
    <3>. QED  BY <3>1, Zenon
  <2>4. l = 1 => g + 2 \in 1..(g + 1 + l) /\ (fails(g + 2) <=> ~LocalPasses(b + g + u + 1))
    <3>1. l = 1 => /\ g + 2 \in 1..(g + 1 + l) /\ ~(g + 2 <= g) /\ ~(g + 2 = g + 1)
                   /\ g + 2 > g + 1 /\ Looked(n)[g + 2] = b + g + u + 1
      BY <1>1, <1>3
    <3>. QED  BY <3>1, Zenon
  <2>. HIDE DEF fails, F
  <2>. QED  BY <2>1, <2>2, <2>3, <2>4
<1>5. Allowed(hs[n]) <=> FormatPasses(header.family)
  BY PlainAllowed
<1>6. \A q \in 1..b : Allowed(hs[q])
  BY <1>1, <1>2
<1>7. F # {} => Min(F) \in F /\ \A i \in F : Min(F) <= i
  <2>1. F \in SUBSET Nat
    BY <1>1, <1>4
  <2>. HIDE DEF F
  <2>. QED  BY <2>1, MinIs
<1>8. CASE u > 0
  <2>1. g = 0 /\ l = 0 /\ b + u = N /\ n = N + 1
    BY <1>1, <1>8
  <2>2. header.family = "Gnu"
    <3>1. b + 1 \in 1..N /\ headers[b + 1].type = "Gnu"
      BY <1>1, <1>2, <1>8, <2>1
    <3>2. format = "Gnu"
      BY <1>1, <3>1, HeaderFields
    <3>. QED  BY <3>2, HeaderFields DEF FormatMatches
  <2>3. ASSUME NEW q \in (b + 1)..N PROVE Allowed(hs[q]) <=> FormatPasses("Gnu")
    <3>1. q \in 1..N /\ headers[q].type = "Gnu" /\ q \in (b + g + 1)..(b + g + u)
      BY <1>1, <1>2, <2>1
    <3>2. headers[q] \in HeaderType /\ headers[q].family = "Gnu"
      BY <1>1, <3>1, HeaderFields
    <3>. QED  BY <3>1, <3>2, PlainAllowed
  <2>4. F \subseteq {1} /\ (1 \in F <=> ~FormatPasses("Gnu")) /\ Looked(n)[1] = b + 1
    BY <1>3, <1>4, <1>8, <2>1, <2>2
  <2>. HIDE DEF F
  <2>5. CASE F = {}
    <3>1. \A q \in 1..n : q \in 1..b \/ q \in (b + 1)..N \/ q = n
      BY <1>1, <2>1
    <3>2. \A q \in 1..n : Allowed(hs[q])
      BY <1>5, <1>6, <2>2, <2>3, <2>4, <2>5, <3>1
    <3>. QED  BY <2>5, <3>2 DEF Judged, F
  <2>6. CASE F # {}
    <3>1. Min(F) = 1 /\ 1 \in F
      BY <1>7, <2>4, <2>6
    <3>2. b + 1 \in 1..n /\ b + 1 \in (b + 1)..N /\ (b + 1) - 1 = b
      BY <1>1, <1>8, <2>1
    <3>3. ~Allowed(hs[b + 1])
      BY <2>3, <2>4, <3>1, <3>2
    <3>. QED  BY <1>6, <2>4, <2>6, <3>1, <3>2, <3>3 DEF Judged, F
  <2>. QED  BY <2>5, <2>6
<1>9. CASE ~(u > 0)
  <2>1. u = 0 /\ b + g + l = N /\ n = N + 1 /\ Looked(n)[g + 1] = n
    BY <1>1, <1>3, <1>9
  <2>2. ASSUME NEW i \in 1..g PROVE Allowed(hs[b + i]) <=> i \notin F
    <3>1. b + i \in 1..N /\ b + i \in (b + 1)..(b + g)
      BY <1>1, <2>1
    <3>2. headers[b + i] \in HeaderType /\ headers[b + i].type = "Global" /\ hs[b + i] = headers[b + i]
      BY <1>1, <1>2, <3>1
    <3>3. GlobalPasses(b + i) <=> Allowed(headers[b + i])
      BY <1>1, <3>2, GlobalAllowed
    <3>. HIDE DEF F
    <3>. QED  BY <1>4, <3>2, <3>3
  <2>3. l = 1 => (Allowed(hs[N]) <=> g + 2 \notin F)
    <3>1. SUFFICES ASSUME l = 1 PROVE Allowed(hs[N]) <=> g + 2 \notin F
      OBVIOUS
    <3>2. N \in 1..N /\ N = b + g + u + 1
      BY <1>1, <2>1, <3>1
    <3>3. headers[N] \in HeaderType /\ headers[N].type = "Local" /\ hs[N] = headers[N]
      BY <1>1, <1>2, <3>2
    <3>4. LocalPasses(N) <=> Allowed(headers[N])
      BY <1>1, <3>3, LocalAllowed
    <3>. HIDE DEF F, N
    <3>. QED  BY <1>4, <3>1, <3>2, <3>3, <3>4
  <2>4. ~FormatPasses(header.family) => g = 0 /\ l = 0
    <3>1. ~FormatPasses(header.family) => header.family = "Gnu"
      BY DEF FormatPasses
    <3>. QED  BY <3>1, UnclaimedFamilies
  <2>. HIDE DEF F, N
  <2>5. CASE F = {}
    <3>1. ASSUME NEW q \in 1..n PROVE Allowed(hs[q])
      <4>1. CASE q <= b
        BY <1>1, <1>6, <4>1
      <4>2. CASE ~(q <= b) /\ q <= b + g
        <5>1. q - b \in 1..g /\ b + (q - b) = q
          BY <1>1, <2>1, <4>2
        <5>2. Allowed(hs[b + (q - b)])
          BY <2>2, <2>5, <5>1
        <5>. QED  BY <5>1, <5>2
      <4>3. CASE ~(q <= b + g) /\ q # n
        <5>1. l = 1 /\ q = N
          BY <1>1, <2>1, <4>3
        <5>. QED  BY <2>3, <2>5, <5>1
      <4>4. CASE q = n
        BY <1>4, <1>5, <2>5, <4>4
      <4>. QED  BY <4>1, <4>2, <4>3, <4>4
    <3>. QED  BY <2>5, <3>1 DEF Judged, F
  <2>6. CASE F # {}
    <3>. DEFINE i == Min(F)
                r == Looked(n)[i]
    <3>1. i \in F /\ i \in 1..(g + 1 + l) /\ \A j \in F : i <= j
      BY <1>4, <1>7, <2>6
    <3>. HIDE DEF i
    <3>2. ASSUME NEW q \in (b + 1)..(b + g), q < b + i PROVE Allowed(hs[q])
      <4>1. q - b \in 1..g /\ b + (q - b) = q /\ q - b < i
        BY SMTT(30), <1>1, <3>1, <3>2
      <4>2. q - b \notin F
        BY <1>1, <3>1, <4>1
      <4>. QED  BY <2>2, <4>1, <4>2
    <3>3. r \in 1..n /\ (\A q \in 1..(r - 1) : Allowed(hs[q])) /\ ~Allowed(hs[r])
      <4>1. CASE i <= g
        <5>1. i \in 1..g /\ r = b + i /\ r \in 1..n
          BY SMTT(30), <1>1, <1>3, <2>1, <3>1, <4>1
        <5>2. ~Allowed(hs[r])
          BY <2>2, <3>1, <5>1
        <5>3. ASSUME NEW q \in 1..(r - 1) PROVE Allowed(hs[q])
          <6>1. q \in 1..b \/ (q \in (b + 1)..(b + g) /\ q < b + i)
            BY <1>1, <5>1
          <6>. QED  BY <1>6, <3>2, <6>1
        <5>. QED  BY <5>1, <5>2, <5>3
      <4>2. CASE i = g + 1
        <5>1. r = n /\ ~FormatPasses(header.family)
          BY <1>4, <2>1, <3>1, <4>2
        <5>2. g = 0 /\ l = 0 /\ N = b
          BY <1>1, <2>1, <2>4, <5>1
        <5>3. n \in 1..n /\ n - 1 = b
          BY <1>1, <2>1, <5>2
        <5>. QED  BY <1>5, <1>6, <5>1, <5>3
      <4>3. CASE ~(i <= g + 1)
        <5>1. l = 1 /\ i = g + 2 /\ r = N /\ N = b + g + 1
          <6>1. l = 1 /\ i = g + 2
            BY <1>1, <3>1, <4>3
          <6>2. N = b + g + 1 /\ b + g + u + 1 = N
            BY <1>1, <2>1, <6>1
          <6>. QED  BY <1>3, <6>1, <6>2
        <5>2. r \in 1..n /\ ~Allowed(hs[r])
          BY <1>1, <2>1, <2>3, <3>1, <5>1
        <5>3. ASSUME NEW q \in 1..(r - 1) PROVE Allowed(hs[q])
          <6>1. q \in 1..b \/ (q \in (b + 1)..(b + g) /\ q < b + i)
            BY <1>1, <5>1
          <6>. QED  BY <1>6, <3>2, <6>1
        <5>. QED  BY <5>2, <5>3
      <4>4. i <= g \/ i = g + 1 \/ ~(i <= g + 1)
        BY <1>1, <3>1
      <4>. QED  BY <4>1, <4>2, <4>3, <4>4
    <3>. QED  BY <2>6, <3>3 DEF Judged, F, i
  <2>. QED  BY <2>5, <2>6
<1>. QED  BY <1>8, <1>9

(* The text and the size of a member are the last words on it.             *)
LEMMA ProjectedIsLastWord ==
  ASSUME TypeInv, GlobalsInv, reader # "Failed",
         NEW b \in Nat, NEW g \in Nat, NEW u \in Nat, NEW l \in Nat, Unclaimed(b, g, u, l),
         NEW name \in NameTexts, NEW n, n = Len(headers) + 1
  PROVE  /\ Text("path", name) = LastWord(<< Record("path", name) >> \o Heard(n), "path")
         /\ EffectiveOf("size") = LastWord(Heard(n), "size")
<1>. DEFINE own == << Record("path", name) >>
            heard == Heard(n)
<1>1. headers \in Seq(HeaderType) /\ Len(headers) \in Nat /\ n \in 1..(Len(headers) + 1)
  BY DEF TypeInv
<1>2. heard \in RecordSeq
  BY <1>1, HeardType
<1>3. Record("path", name) \in RecordType /\ name # "absent"
  BY DecoderAssumption DEF Record, RecordType, Keywords, Encoded
<1>4. own \in RecordSeq /\ Get(own, "path") = name
  <2>1. Record("path", name).keyword = "path" /\ Record("path", name).value = name
    BY DEF Record
  <2>. QED  BY <1>3, <2>1, OneRecordGet
<1>5. "path" \in Keywords /\ "size" \in Keywords
  BY DEF Keywords, Encoded
<1>6. Get(heard, "path") = EffectiveOf("path") /\ Get(heard, "size") = EffectiveOf("size")
  BY <1>5, EffectiveIsHeard
<1>. HIDE DEF own, heard
<1>7. own \o heard \in RecordSeq
      /\ Get(own \o heard, "path") = Over(Get(own, "path"), Get(heard, "path"))
  BY <1>2, <1>4, ConcatGet
<1>8. /\ LastWord(own \o heard, "path") = Get(own \o heard, "path")
      /\ LastWord(heard, "size") = Get(heard, "size")
  BY <1>2, <1>7, GetIsAbsent
<1>9. Text("path", name) = Over(name, EffectiveOf("path"))
  BY Zenon DEF Text, Over
<1>. QED  BY <1>4, <1>6, <1>7, <1>8, <1>9, Zenon DEF own, heard

(* What the member's call ends with is as promised, and what was checked   *)
(* stays allowed.                                                          *)
LEMMA MemberOutcome ==
  ASSUME Inv, NEW kind \in Kinds, NEW family \in {"Pax", "Gnu"}, NEW name \in NameTexts,
         ReadMember(kind, family, name), FramingAccepts(kind),
         NEW n, n = Len(headers) + 1, headers'[n] = Header("Member", family, << Record("path", name) >>),
         \A q \in 1..Len(headers) : headers'[q] = headers[q], n \in Nat,
         NEW b \in Nat, NEW g \in Nat, NEW u \in Nat, NEW l \in Nat, Unclaimed(b, g, u, l),
         Header("Member", family, << Record("path", name) >>) \in HeaderType
  PROVE  /\ CallInv' /\ MetadataIsLastWord' /\ PolicyIsExact'
         /\ fused' \in BOOLEAN /\ call' = "idle"
         /\ ~fused' => \A q \in 1..n : Allowed(headers[q])'
<1>. DEFINE header == Header("Member", family, << Record("path", name) >>)
            F == Failures(family, n)
<1>1. TypeInv /\ FamilyInv /\ CallInv /\ GlobalsInv
  BY DEF Inv
<1>2. /\ call = "next_member" /\ reader = "Boundary" /\ FormatMatches(family) /\ Read(header)
      /\ reader' = "Payload" /\ pending_extensions' = NoPending
      /\ policy' = policy
      /\ IF F # {} THEN Rejects(PolicyViolation(Looked(n)[Min(F)])) ELSE Project(kind, n, name)
  BY Zenon DEF ReadMember, CanRead, Here
<1>3. ~fused /\ headers \in Seq(HeaderType)
  BY <1>1, <1>2 DEF CallInv, TypeInv
<1>4. headers' = Append(headers, header)
  BY <1>2 DEF Read
<1>5. header.type = "Member" /\ header.family = family
      /\ header.records = << Record("path", name) >>
  BY DEF Header
<1>6. Judged(headers', F, n)
  <2>1. PICK hs : hs = headers'
    OBVIOUS
  <2>2. hs[n] = header /\ \A q \in 1..Len(headers) : hs[q] = headers[q]
    BY <2>1
  <2>3. FormatMatches(header.family)
    BY <1>2, <1>5
  <2>4. Judged(hs, Failures(header.family, n), n)
    <3>1. header \in HeaderType
      OBVIOUS
    <3>. HIDE DEF header
    <3>. QED  BY <1>1, <1>3, <1>5, <2>2, <2>3, <3>1, PolicyJudges
  <2>. QED  BY <1>5, <2>1, <2>4
<1>7. \A q : Allowed(headers[q])' <=> Allowed(headers'[q])
  <2>1. ASSUME NEW q PROVE Allowed(headers[q])' <=> Allowed(headers'[q])
    <3>1. PICK h : h = headers'[q]
      OBVIOUS
    <3>2. Allowed(h)' <=> Allowed(h)
      BY <1>2, AllowedKeeps
    <3>. QED  BY <3>1, <3>2
  <2>. QED  BY <2>1
<1>. HIDE DEF header
<1>8. CASE F # {}
  <2>. DEFINE r == Looked(n)[Min(F)]
  <2>1. out' = PolicyViolation(r) /\ fused' = TRUE /\ call' = "idle"
    BY <1>2, <1>8 DEF Rejects, Returns
  <2>2. r \in 1..n /\ (\A q \in 1..(r - 1) : Allowed(headers'[q])) /\ ~Allowed(headers'[r])
    BY <1>6, <1>8, Zenon DEF Judged
  <2>3. PICK p : p = r
    OBVIOUS
  <2>. HIDE DEF r, F
  <2>4. out'.type = "PolicyViolation" /\ out'.position = p
    BY <2>1, <2>3 DEF PolicyViolation
  <2>5. PolicyIsExact'
    <3>1. \A q \in 1..(p - 1) : Allowed(headers[q])'
      BY <1>7, <2>2, <2>3
    <3>2. ~ \A q \in 1..((p + 1) - 1) : Allowed(headers[q])'
      <4>1. p \in 1..((p + 1) - 1)
        BY <2>2, <2>3
      <4>2. ~Allowed(headers[p])'
        BY <1>7, <2>2, <2>3
      <4>. QED  BY <4>1, <4>2
    <3>. QED  BY <2>4, <3>1, <3>2 DEF PolicyIsExact
  <2>6. MetadataIsLastWord' /\ CallInv'
    BY <1>2, <2>1, <2>4 DEF MetadataIsLastWord, CallInv
  <2>. QED  BY <2>1, <2>5, <2>6
<1>9. CASE F = {} /\ Unusable(kind, name) # <<>>
  <2>1. /\ call' = "idle" /\ fused' = TRUE
        /\ out' \in {InvalidUtf8(n), Framing}
    BY <1>2, <1>9, Zenon DEF Project, Rejects, Returns
  <2>2. out'.type \notin {"Member", "PolicyViolation"}
    BY <2>1 DEF InvalidUtf8, Framing
  <2>. QED  BY <1>2, <2>1, <2>2 DEF MetadataIsLastWord, PolicyIsExact, CallInv
<1>10. CASE F = {} /\ Unusable(kind, name) = <<>>
  <2>1. /\ call' = "idle" /\ fused' = fused
        /\ out' = Member(kind, n, Text("path", name), EffectiveOf("size"))
    BY <1>2, <1>10, Zenon DEF Project, Returns
  <2>2. PICK text, size : text = Text("path", name) /\ size = EffectiveOf("size")
    OBVIOUS
  <2>3. /\ out'.type = "Member" /\ out'.position = n
        /\ out'.path = text /\ out'.size = size
    BY <2>1, <2>2 DEF Member
  <2>4. \A q \in 1..n : Allowed(headers[q])'
    <3>1. \A q \in 1..n : Allowed(headers'[q])
      BY <1>6, <1>10, Zenon DEF Judged
    <3>. QED  BY <1>7, <3>1
  <2>5. PolicyIsExact'
    <3>1. (n + 1) - 1 = n
      OBVIOUS
    <3>. QED  BY <2>3, <2>4, <3>1 DEF PolicyIsExact
  <2>6. MetadataIsLastWord'
    <3>1. Heard(n)' = Heard(n)
      <4>1. n \in 1..(Len(headers) + 1)
        BY <1>3
      <4>. QED  BY <1>3, <1>4, <4>1, HeardKeeps DEF header
    <3>2. /\ text = LastWord(<< Record("path", name) >> \o Heard(n), "path")
          /\ size = LastWord(Heard(n), "size")
      BY <1>1, <1>2, <2>2, ProjectedIsLastWord
    <3>3. headers'[n].records = << Record("path", name) >>
      BY <1>5 DEF header
    <3>4. PICK p : p = n /\ p = out'.position
      BY <2>3
    <3>5. Heard(out.position)' = Heard(n)'
      BY <2>3
    <3>. QED  BY <2>3, <3>1, <3>2, <3>3, <3>5 DEF MetadataIsLastWord
  <2>7. CallInv'
    BY <1>2, <2>1, <2>3 DEF CallInv
  <2>. QED  BY <1>1, <2>1, <2>4, <2>5, <2>6, <2>7 DEF TypeInv
<1>. QED  BY <1>8, <1>9, <1>10

LEMMA ReadMemberKeeps ==
  ASSUME Inv, NEW kind \in Kinds, NEW family \in {"Pax", "Gnu"},
         NEW name \in NameTexts \ {"malformed"}, ReadMember(kind, family, name)
  PROVE  Inv'
<1>. DEFINE header == Header("Member", family, << Record("path", name) >>)
            N == Len(headers)
<1>1. TypeInv /\ PendingInv /\ CallInv
  BY DEF Inv
<1>2. /\ call = "next_member" /\ reader = "Boundary" /\ FormatMatches(family) /\ Read(header)
      /\ policy' = policy /\ global_pax_records' = global_pax_records
  BY DEF ReadMember, CanRead
<1>3. header \in HeaderType /\ header.type = "Member" /\ header.family = family
  <2>1. Record("path", name) \in RecordType
    BY DecoderAssumption DEF Record, RecordType, Keywords, Encoded
  <2>2. << Record("path", name) >> \in RecordSeq
    BY <2>1 DEF RecordSeq
  <2>. QED  BY <2>2 DEF Header, HeaderType
<1>4. N \in Nat /\ headers \in Seq(HeaderType) /\ headers' = Append(headers, header)
  BY <1>1, <1>2 DEF TypeInv, Read
<1>5. Len(headers') = N + 1 /\ headers'[N + 1] = header /\ \A q \in 1..N : headers'[q] = headers[q]
  BY <1>3, <1>4, AppendedHeader
<1>6. CASE ~FramingAccepts(kind)
  <2>1. ReaderFails
    BY <1>6 DEF ReadMember
  <2>2. FormatMatches(header.family) /\ reader # "Failed"
    BY <1>2, <1>3
  <2>. HIDE DEF header
  <2>. QED  BY <1>2, <1>3, <2>1, <2>2, RejectedHeaderKeeps
<1>7. CASE FramingAccepts(kind)
  <2>1. PICK n : n = N + 1
    OBVIOUS
  <2>2. PICK b, g, u, l \in 0..N : Unclaimed(b, g, u, l)
    BY <1>1, <1>2 DEF PendingInv
  <2>3. b \in Nat /\ g \in Nat /\ u \in Nat /\ l \in Nat /\ n \in Nat
    BY <1>4, <2>1, <2>2
  <2>4. headers'[n] = header /\ name \in NameTexts
    BY <1>5, <2>1
  <2>5. /\ CallInv' /\ MetadataIsLastWord' /\ PolicyIsExact'
        /\ fused' \in BOOLEAN /\ call' = "idle"
        /\ ~fused' => \A q \in 1..n : Allowed(headers[q])'
    BY <1>3, <1>5, <1>7, <2>1, <2>2, <2>3, <2>4, MemberOutcome
  <2>6. reader' = "Payload" /\ pending_extensions' = NoPending
    BY <1>7 DEF ReadMember
  <2>7. Unclaimed(n, 0, 0, 0)'
    <3>1. Run(n, 0) = <<>> /\ Run(n + 0, 0) = <<>> /\ Run(n + 0 + 0, 0) = <<>>
      BY <2>3, RunMore
    <3>2. pending_extensions' = [global_pax |-> Run(n, 0), gnu |-> Run(n + 0, 0),
                                 local_pax |-> Run(n + 0 + 0, 0)]
      BY <2>6, <3>1 DEF NoPending
    <3>3. /\ n + 0 + 0 + 0 = Len(headers') /\ 0 <= 1 /\ ~(0 > 0)
          /\ (n + 1)..(n + 0) = {} /\ (n + 0 + 1)..(n + 0 + 0) = {}
          /\ (n + 0 + 0 + 1)..Len(headers') = {}
      BY <1>4, <1>5, <2>1, <2>3
    <3>4. headers'[n].type = "Member"
      BY <1>3, <2>4
    <3>. QED  BY <2>5, <3>2, <3>3, <3>4, Zenon DEF Unclaimed
  <2>8. PendingInv'
    <3>1. n \in 0..Len(headers') /\ 0 \in 0..Len(headers')
      BY <1>4, <1>5, <2>1
    <3>. QED  BY <2>7, <3>1 DEF PendingInv
  <2>9. RawAt(n)'
    BY <1>3, <2>4 DEF RawAt
  <2>10. ASSUME NEW k \in Keywords
         PROVE  Get(global_pax_records', k)
                  = Over(Get(global_pax_records, k),
                         Get(IF header.type = "Global" THEN header.records ELSE <<>>, k))
    <3>1. Get(<<>>, k) = "absent"
      BY EmptyGet
    <3>2. (IF header.type = "Global" THEN header.records ELSE <<>>) = <<>>
      BY <1>3
    <3>. HIDE DEF header
    <3>. QED  BY <1>2, <3>1, <3>2 DEF Over
  <2>11. /\ global_pax_records' \in RecordSeq /\ FormatMatches(header.family)
         /\ reader # "Failed" /\ n = Len(headers) + 1
         /\ reader' \in {"Boundary", "Payload", "Complete", "Failed"}
         /\ call' \in {"idle", "next_member"}
    BY <1>1, <1>2, <1>3, <2>1, <2>5, <2>6 DEF TypeInv
  <2>12. reader' # "Failed" =>
           /\ \A k \in Keywords :
                Get(global_pax_records', k)
                  = Over(Get(global_pax_records, k),
                         Get(IF header.type = "Global" THEN header.records ELSE <<>>, k))
           /\ RawAt(n)'
    BY <2>9, <2>10
  <2>. HIDE DEF header, N
  <2>. QED  BY <1>2, <1>3, <2>5, <2>8, <2>11, <2>12, HeaderReadKeeps
<1>. QED  BY <1>6, <1>7

-----------------------------------------------------------------------------
(* The promises.                                                           *)

LEMMA StutterKeeps ==
  ASSUME Inv, UNCHANGED decoderVars
  PROVE  Inv'
<1>1. UNCHANGED <<policy, headers, format, global_pax_records, pending_extensions, reader, fused,
                  call, out>>
  BY DEF decoderVars
<1>2. TypeInv' /\ FamilyInv' /\ CallInv' /\ PendingInv'
  <2>1. TypeInv' /\ FamilyInv' /\ CallInv'
    BY <1>1 DEF Inv, TypeInv, FamilyInv, CallInv
  <2>2. PendingInv'
    <3>1. SUFFICES ASSUME reader' \in {"Boundary", "Payload"}
                   PROVE  \E b, g, u, l \in 0..Len(headers') : Unclaimed(b, g, u, l)'
      BY DEF PendingInv
    <3>2. PICK b, g, u, l \in 0..Len(headers) : Unclaimed(b, g, u, l)
      BY <1>1, <3>1 DEF Inv, PendingInv
    <3>3. Unclaimed(b, g, u, l)'
      BY <1>1, <3>2, UnclaimedKeeps
    <3>. QED  BY <1>1, <3>2, <3>3
  <2>. QED  BY <2>1, <2>2
<1>3. MetadataIsLastWord' /\ PolicyIsExact'
  BY <1>1 DEF Inv, MetadataIsLastWord, PolicyIsExact, Heard, Speaks, Allowed
<1>4. GlobalsInv' /\ RawInv'
  BY <1>1 DEF Inv, GlobalsInv, RawInv, RawAt, Globals, Heard, Speaks
<1>. QED  BY <1>2, <1>3, <1>4 DEF Inv

LEMMA DecoderKeeps ==
  DecoderSpec => []Inv
<1>1. DecoderInit => Inv
  BY DecoderStarts
<1>2. Inv /\ [DecoderNext]_decoderVars => Inv'
  <2>1. SUFFICES ASSUME Inv, [DecoderNext]_decoderVars PROVE Inv'
    OBVIOUS
  <2>2. CASE UNCHANGED decoderVars
    BY <2>1, <2>2, StutterKeeps
  <2>3. CASE \/ CallNextMember \/ Drain \/ ReadEnd \/ ReadFails \/ CancelNext \/ PayloadFails
    BY <2>1, <2>3, QuietStepsKeep
  <2>4. ASSUME NEW records \in RecordLists, ReadGlobal(records) PROVE Inv'
    BY <2>1, <2>4, ReadGlobalKeeps
  <2>5. ASSUME NEW records \in RecordLists, ReadLocal(records) PROVE Inv'
    BY <2>1, <2>5, ReadLocalKeeps
  <2>6. ASSUME NEW keyword \in {"path", "linkpath"}, NEW text \in NameTexts,
               ReadGnu(keyword, text)
        PROVE  Inv'
    BY <2>1, <2>6, ReadGnuKeeps
  <2>7. ASSUME NEW kind \in Kinds, NEW family \in {"Pax", "Gnu"},
               NEW name \in NameTexts \ {"malformed"}, ReadMember(kind, family, name)
        PROVE  Inv'
    BY <2>1, <2>7, ReadMemberKeeps
  <2>. QED  BY <2>1, <2>2, <2>3, <2>4, <2>5, <2>6, <2>7, Zenon DEF DecoderNext
<1>. QED  BY <1>1, <1>2, PTL DEF DecoderSpec

(* The member that next_member hands out has the metadata that the archive *)
(* last stated, whatever records its headers hold and however often its    *)
(* calls were dropped.                                                     *)
THEOREM MembersCarryLastWord ==
  DecoderSpec => []MetadataIsLastWord
<1>1. Inv => MetadataIsLastWord
  BY DEF Inv
<1>. QED  BY <1>1, DecoderKeeps, PTL

(* Under any policy, next_member hands out a member only after headers     *)
(* that are all allowed, and a rejection names the first that is not.      *)
THEOREM PolicyIsObeyed ==
  DecoderSpec => []PolicyIsExact
<1>1. Inv => PolicyIsExact
  BY DEF Inv
<1>. QED  BY <1>1, DecoderKeeps, PTL

(* A header with a name that is not UTF-8 is accepted only where the       *)
(* charset the archive last declared is binary.                            *)
THEOREM RawNamesAreDeclared ==
  DecoderSpec => []RawNamesNeedBinary
<1>1. Inv => RawNamesNeedBinary
  <2>1. SUFFICES ASSUME Inv, NEW p \in 1..Len(headers),
                        headers[p].type \in {"Global", "Local"},
                        p < Len(headers) \/ p \in Range(pending_extensions.global_pax
                                                          \o pending_extensions.local_pax),
                        \E r \in Range(headers[p].records) :
                          r.keyword \in Encoded /\ r.value = "raw"
                 PROVE  LastWord(Heard(p) \o headers[p].records, "hdrcharset") = "binary"
    BY DEF RawNamesNeedBinary
  <2>2. p < Len(headers) \/ reader # "Failed"
    <3>1. ASSUME reader = "Failed" PROVE Range(pending_extensions.global_pax
                                                 \o pending_extensions.local_pax) = {}
      <4>1. pending_extensions = NoPending
        BY <2>1, <3>1 DEF Inv, CallInv
      <4>2. <<>> \o <<>> = <<>>
        OBVIOUS
      <4>3. Range(<<>>) = {}
        BY DEF Range
      <4>. QED  BY <4>1, <4>2, <4>3 DEF NoPending
    <3>. QED  BY <2>1, <3>1
  <2>. QED  BY <2>1, <2>2 DEF Inv, RawInv, RawAt
<1>. QED  BY <1>1, DecoderKeeps, PTL
=============================================================================
