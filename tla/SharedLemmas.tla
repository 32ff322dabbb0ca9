----------------------------- MODULE SharedLemmas -----------------------------
(***************************************************************************)
(* Lemmas the proofs about several parts need.                             *)
(*                                                                         *)
(* Induction and recursion up to a bound, for the functions the model      *)
(* defines by recursion over the positions of a sequence.  What is         *)
(* inducted over is a set, so that a proof names the set of the numbers    *)
(* for which its claim holds; that natural numbers have a least one among  *)
(* them follows from the well-foundedness of strict inclusion.             *)
(*                                                                         *)
(* Rows: the elements of a sequence, each with those before it, and what   *)
(* appending and taking the tail make of them.                             *)
(***************************************************************************)
EXTENDS Integers, FiniteSetTheorems, SequenceTheorems, TLAPS

LEMMA LeastNatural ==
  ASSUME NEW U \in SUBSET Nat, NEW u \in U
  PROVE  \E x \in U : \A y \in U : x <= y
<1>. DEFINE S == 0..u
            R == StrictSubsetOrdering(S)
            T == { 0..i : i \in { k \in U : k <= u } }
<1>1. IsWellFoundedOn(R, SUBSET S)
  <2>1. IsFiniteSet(S)
    BY FS_Interval
  <2>2. FiniteSubsetsOf(S) = SUBSET S
    BY <2>1, FS_FiniteSubsetsOfFinite
  <2>. QED  BY <2>2, FS_StrictSubsetOrderingWellFounded
<1>2. T \subseteq SUBSET S /\ 0..u \in T
  OBVIOUS
<1>3. PICK X \in T : \A Y \in T : ~ (<<Y, X>> \in R)
  <2>. HIDE DEF T, R
  <2>. QED  BY <1>1, <1>2, WFMin
<1>4. PICK x \in U : x <= u /\ X = 0..x
  BY <1>3
<1>5. ASSUME NEW y \in U, y < x PROVE FALSE
  <2>1. 0..y \in T
    BY <1>4, <1>5
  <2>2. 0..y \subseteq 0..x /\ 0..y # 0..x
    BY <1>5
  <2>3. <<0..y, 0..x>> \in R
    BY <1>2, <1>4, <2>1, <2>2 DEF StrictSubsetOrdering
  <2>. QED  BY <1>3, <1>4, <2>1, <2>3
<1>. QED  BY <1>4, <1>5

LEMMA CountingUp ==
  ASSUME NEW n \in Nat, NEW T, 0 \in T, \A k \in 0..(n - 1) : k \in T => k + 1 \in T
  PROVE  \A k \in 0..n : k \in T
<1>. DEFINE U == { k \in 0..n : k \notin T }
<1>1. SUFFICES ASSUME NEW u \in U PROVE FALSE
  OBVIOUS
<1>2. PICK x \in U : \A y \in U : x <= y
  <2>1. U \in SUBSET Nat
    OBVIOUS
  <2>. HIDE DEF U
  <2>. QED  BY <1>1, <2>1, LeastNatural
<1>3. x \in 1..n
  BY <1>2
<1>4. x - 1 \in 0..(n - 1) /\ x - 1 \in 0..n /\ ~(x <= x - 1) /\ (x - 1) + 1 = x
  BY <1>3
<1>5. x - 1 \in T
  BY <1>2, <1>4
<1>. QED  BY <1>2, <1>4, <1>5

(* f starts at base and goes on by step up to n.                           *)
Recursive(f, n, base, step) == f[0] = base /\ \A k \in 1..n : f[k] = step[k][f[k - 1]]

LEMMA RecursionExists ==
  ASSUME NEW n \in Nat, NEW V, NEW base \in V, NEW step \in [1..n -> [V -> V]]
  PROVE  \E f \in [0..n -> V] : Recursive(f, n, base, step)
<1>. USE DEF Recursive
<1>. DEFINE Upto(m) == \E f \in [0..m -> V] :
                         f[0] = base /\ \A k \in 1..m : f[k] = step[k][f[k - 1]]
            T == { m \in 0..n : Upto(m) }
<1>1. 0 \in T
  <2>1. [i \in 0..0 |-> base] \in [0..0 -> V] /\ [i \in 0..0 |-> base][0] = base /\ 1..0 = {}
    OBVIOUS
  <2>2. Upto(0)
    BY <2>1
  <2>3. 0 \in 0..n
    OBVIOUS
  <2>. HIDE DEF Upto
  <2>. QED  BY <2>2, <2>3
<1>2. ASSUME NEW m \in 0..(n - 1), m \in T PROVE m + 1 \in T
  <2>1. PICK f \in [0..m -> V] : f[0] = base /\ \A k \in 1..m : f[k] = step[k][f[k - 1]]
    BY <1>2
  <2>2. m \in 0..m /\ m + 1 \in 1..n /\ m \in Nat
    <3>. HIDE DEF T
    <3>. QED  OBVIOUS
  <2>. DEFINE next == step[m + 1][f[m]]
              g == [k \in 0..(m + 1) |-> IF k = m + 1 THEN next ELSE f[k]]
  <2>3. next \in V
    BY <2>1, <2>2
  <2>. HIDE DEF next
  <2>4. \A k \in 0..(m + 1) : k # m + 1 => k \in 0..m
    BY <2>2
  <2>5. g \in [0..(m + 1) -> V]
    BY <2>1, <2>3, <2>4
  <2>6. g[0] = base /\ \A k \in 0..m : g[k] = f[k]
    <3>1. \A k \in 0..m : k \in 0..(m + 1) /\ k # m + 1
      BY <2>2
    <3>2. 0 \in 0..m
      BY <2>2
    <3>. QED  BY <2>1, <3>1, <3>2
  <2>7. g[m + 1] = next
    BY <2>2
  <2>. HIDE DEF g
  <2>8. ASSUME NEW k \in 1..(m + 1) PROVE g[k] = step[k][g[k - 1]]
    <3>1. CASE k = m + 1
      <4>1. k - 1 = m /\ g[m] = f[m]
        BY <2>2, <2>6, <3>1
      <4>. QED  BY <2>7, <3>1, <4>1 DEF next
    <3>2. CASE k # m + 1
      <4>1. k \in 1..m /\ k \in 0..m /\ k - 1 \in 0..m
        BY <2>2, <3>2
      <4>. QED  BY <2>1, <2>6, <4>1
    <3>. QED  BY <3>1, <3>2
  <2>9. Upto(m + 1)
    BY <2>5, <2>6, <2>8
  <2>10. m + 1 \in 0..n
    BY <2>2
  <2>. HIDE DEF Upto
  <2>. QED  BY <2>9, <2>10
<1>3. n \in T
  <2>. HIDE DEF T
  <2>1. \A k \in 0..n : k \in T
    BY <1>1, <1>2, CountingUp
  <2>2. n \in 0..n
    OBVIOUS
  <2>. QED  BY <2>1, <2>2
<1>. QED  BY <1>3

LEMMA Positions ==
  \A n \in Nat : \A m \in 0..n :
    /\ m \in Nat /\ 0 \in 0..m
    /\ \A k \in 0..(m - 1) : k + 1 \in 1..n /\ k + 1 \in 1..m /\ k + 1 \in 0..m /\ (k + 1) - 1 = k
OBVIOUS

-----------------------------------------------------------------------------
(* An element of a row, with those before it.                              *)
Left(s) == { [do |-> s[k], after |-> { s[j] : j \in 1..(k - 1) }] : k \in 1..Len(s) }
Elems(s) == { s[k] : k \in 1..Len(s) }

LEMMA LeftOf ==
  ASSUME NEW s, NEW l \in Left(s)
  PROVE  \E k \in 1..Len(s) : l.do = s[k] /\ l.after = { s[j] : j \in 1..(k - 1) }
BY DEF Left

LEMMA LeftNone == Left(<<>>) = {} /\ Elems(<<>>) = {}
BY DEF Left, Elems

LEMMA LeftOne ==
  ASSUME NEW o, NEW l \in Left(<<o>>)
  PROVE  l.do = o /\ l.after = {}
<1>1. PICK k \in 1..Len(<<o>>) : l.do = <<o>>[k] /\ l.after = { <<o>>[j] : j \in 1..(k - 1) }
  BY LeftOf
<1>2. k = 1 /\ 1..(k - 1) = {}
  OBVIOUS
<1>. QED  BY <1>1, <1>2

LEMMA ElemsOne == \A o : Elems(<<o>>) = {o}
BY DEF Elems

LEMMA ElemsConcat ==
  ASSUME NEW T, NEW s \in Seq(T), NEW t \in Seq(T)
  PROVE  Elems(s \o t) = Elems(s) \cup Elems(t)
<1>1. /\ Len(s) \in Nat /\ Len(t) \in Nat /\ Len(s \o t) = Len(s) + Len(t)
      /\ \A k \in 1..(Len(s) + Len(t)) :
           (s \o t)[k] = IF k <= Len(s) THEN s[k] ELSE t[k - Len(s)]
  BY ConcatProperties
<1>. DEFINE st == s \o t
<1>. HIDE DEF st
<1>2. ASSUME NEW k \in 1..Len(st) PROVE st[k] \in Elems(s) \cup Elems(t)
  <2>1. CASE k <= Len(s)
    <3>1. st[k] = s[k] /\ k \in 1..Len(s)
      BY <1>1, <2>1 DEF st
    <3>. QED  BY <3>1 DEF Elems
  <2>2. CASE ~(k <= Len(s))
    <3>1. st[k] = t[k - Len(s)] /\ k - Len(s) \in 1..Len(t)
      BY <1>1, <2>2 DEF st
    <3>. QED  BY <3>1 DEF Elems
  <2>. QED  BY <2>1, <2>2
<1>3. ASSUME NEW k \in 1..Len(s) PROVE s[k] \in Elems(st)
  <2>1. st[k] = s[k] /\ k \in 1..Len(st)
    BY <1>1 DEF st
  <2>. QED  BY <2>1 DEF Elems
<1>4. ASSUME NEW k \in 1..Len(t) PROVE t[k] \in Elems(st)
  <2>1. st[Len(s) + k] = t[k] /\ Len(s) + k \in 1..Len(st)
    BY <1>1 DEF st
  <2>. QED  BY <2>1 DEF Elems
<1>5. Elems(st) \subseteq Elems(s) \cup Elems(t)
  BY <1>2 DEF Elems
<1>6. Elems(s) \subseteq Elems(st) /\ Elems(t) \subseteq Elems(st)
  BY <1>3, <1>4 DEF Elems
<1>. QED  BY <1>5, <1>6 DEF st

LEMMA LeftConcat ==
  ASSUME NEW T, NEW s \in Seq(T), NEW t \in Seq(T), NEW l \in Left(s \o t)
  PROVE  l \in Left(s) \/ \E m \in Left(t) : l.do = m.do /\ l.after = Elems(s) \cup m.after
<1>. DEFINE st == s \o t
<1>1. /\ Len(s) \in Nat /\ Len(t) \in Nat /\ Len(st) = Len(s) + Len(t)
      /\ \A k \in 1..Len(s) : st[k] = s[k]
      /\ \A k \in 1..Len(t) : st[Len(s) + k] = t[k]
  BY ConcatProperties
<1>. HIDE DEF st
<1>2. PICK k \in 1..Len(st) : l = [do |-> st[k], after |-> { st[j] : j \in 1..(k - 1) }]
  BY DEF Left, st
<1>3. CASE k <= Len(s)
  <2>1. k \in 1..Len(s) /\ \A j \in 1..(k - 1) : j \in 1..Len(s)
    BY <1>1, <1>3
  <2>2. { st[j] : j \in 1..(k - 1) } = { s[j] : j \in 1..(k - 1) }
    BY <1>1, <2>1
  <2>3. l = [do |-> s[k], after |-> { s[j] : j \in 1..(k - 1) }]
    BY <1>1, <1>2, <2>1, <2>2
  <2>. QED  BY <2>1, <2>3 DEF Left
<1>4. CASE ~(k <= Len(s))
  <2>. DEFINE i == k - Len(s)
  <2>1. i \in 1..Len(t) /\ k = Len(s) + i
    BY <1>1, <1>4
  <2>2. 1..(k - 1) = 1..Len(s) \cup { Len(s) + j : j \in 1..(i - 1) }
    <3>1. ASSUME NEW n \in 1..(k - 1), ~(n \in 1..Len(s)) PROVE n - Len(s) \in 1..(i - 1) /\ n = Len(s) + (n - Len(s))
      BY <1>1, <2>1, <3>1
    <3>2. \A j \in 1..(i - 1) : Len(s) + j \in 1..(k - 1)
      BY <1>1, <2>1
    <3>3. \A j \in 1..Len(s) : j \in 1..(k - 1)
      BY <1>1, <2>1
    <3>. HIDE DEF i
    <3>. QED  BY <3>1, <3>2, <3>3
  <2>3. \A j \in 1..(i - 1) : j \in 1..Len(t)
    BY <1>1, <2>1
  <2>. HIDE DEF i
  <2>4. { st[j] : j \in 1..(k - 1) } = Elems(s) \cup { t[j] : j \in 1..(i - 1) }
    <3>1. ASSUME NEW n \in 1..(k - 1) PROVE st[n] \in Elems(s) \cup { t[j] : j \in 1..(i - 1) }
      BY <1>1, <2>2, <2>3 DEF Elems
    <3>2. ASSUME NEW j \in 1..Len(s) PROVE s[j] \in { st[n] : n \in 1..(k - 1) }
      BY <1>1, <2>2
    <3>3. ASSUME NEW j \in 1..(i - 1) PROVE t[j] \in { st[n] : n \in 1..(k - 1) }
      <4>1. st[Len(s) + j] = t[j] /\ Len(s) + j \in 1..(k - 1)
        BY <1>1, <2>2, <2>3
      <4>. QED  BY <4>1
    <3>. QED  BY <3>1, <3>2, <3>3 DEF Elems
  <2>. DEFINE m == [do |-> t[i], after |-> { t[j] : j \in 1..(i - 1) }]
  <2>5. m \in Left(t)
    BY <2>1 DEF Left
  <2>6. l.do = m.do /\ l.after = Elems(s) \cup m.after
    BY <1>1, <1>2, <2>1, <2>4
  <2>. QED  BY <2>5, <2>6
<1>. QED  BY <1>3, <1>4

LEMMA LeftTail ==
  ASSUME NEW T, NEW s \in Seq(T), s # <<>>, NEW l \in Left(Tail(s))
  PROVE  \E m \in Left(s) : m.do = l.do /\ m.after = {Head(s)} \cup l.after
<1>. DEFINE t == Tail(s)
<1>1. /\ Len(s) \in Nat /\ Len(s) > 0 /\ Len(t) = Len(s) - 1 /\ Head(s) = s[1]
      /\ \A k \in 1..Len(t) : t[k] = s[k + 1] /\ k + 1 \in 1..Len(s)
  BY EmptySeq
<1>. HIDE DEF t
<1>2. PICK k \in 1..Len(t) : l = [do |-> t[k], after |-> { t[j] : j \in 1..(k - 1) }]
  BY DEF Left, t
<1>3. \A j \in 1..(k - 1) : j \in 1..Len(t) /\ t[j] = s[j + 1]
  BY <1>1
<1>4. 1..((k + 1) - 1) = {1} \cup { j + 1 : j \in 1..(k - 1) }
  <2>1. ASSUME NEW n \in 1..((k + 1) - 1), n # 1 PROVE n - 1 \in 1..(k - 1) /\ n = (n - 1) + 1
    BY <1>1, <2>1
  <2>2. \A j \in 1..(k - 1) : j + 1 \in 1..((k + 1) - 1)
    BY <1>1
  <2>3. 1 \in 1..((k + 1) - 1)
    BY <1>1
  <2>. QED  BY <2>1, <2>2, <2>3
<1>5. { s[j] : j \in 1..((k + 1) - 1) } = {Head(s)} \cup { t[j] : j \in 1..(k - 1) }
  <2>1. ASSUME NEW n \in 1..((k + 1) - 1) PROVE s[n] \in {Head(s)} \cup { t[j] : j \in 1..(k - 1) }
    <3>1. n = 1 \/ \E j \in 1..(k - 1) : n = j + 1
      BY <1>4
    <3>. QED  BY <1>1, <1>3, <3>1
  <2>2. ASSUME NEW j \in 1..(k - 1) PROVE t[j] \in { s[n] : n \in 1..((k + 1) - 1) }
    <3>1. j + 1 \in 1..((k + 1) - 1) /\ t[j] = s[j + 1]
      BY <1>3, <1>4
    <3>. QED  BY <3>1
  <2>3. Head(s) \in { s[n] : n \in 1..((k + 1) - 1) }
    <3>1. 1 \in 1..((k + 1) - 1)
      BY <1>4
    <3>. QED  BY <1>1, <3>1
  <2>. QED  BY <2>1, <2>2, <2>3
<1>. DEFINE m == [do |-> s[k + 1], after |-> { s[j] : j \in 1..((k + 1) - 1) }]
<1>6. m \in Left(s)
  BY <1>1 DEF Left
<1>7. m.do = l.do /\ m.after = {Head(s)} \cup l.after
  BY <1>1, <1>2, <1>5
<1>. QED  BY <1>6, <1>7

LEMMA HeadLeft ==
  ASSUME NEW T, NEW s \in Seq(T), s # <<>>
  PROVE  \E l \in Left(s) : l.do = Head(s) /\ l.after = {}
<1>1. 1 \in 1..Len(s) /\ Head(s) = s[1] /\ 1..(1 - 1) = {}
  BY EmptySeq
<1>. DEFINE l == [do |-> s[1], after |-> { s[j] : j \in 1..(1 - 1) }]
<1>2. l \in Left(s) /\ l.do = Head(s) /\ l.after = {}
  BY <1>1 DEF Left
<1>. QED  BY <1>2
===============================================================================
