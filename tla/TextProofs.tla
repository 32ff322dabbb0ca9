------------------------------ MODULE TextProofs ------------------------------
(***************************************************************************)
(* Proofs about two programs over texts.                                   *)
(*                                                                         *)
(* The text of pax records: the length a record states is exact for every  *)
(* keyword and value; the loop of the parser never slices outside a        *)
(* record, and accepts a payload, any payload, exactly when it is records  *)
(* from end to end; and records written are read back.                     *)
(*                                                                         *)
(* The targets of links: a link that extraction has made never leads out   *)
(* of the destination, and the paths the resolutions of all links go       *)
(* through stay within the bytes that one extraction may spend.            *)
(***************************************************************************)
EXTENDS PaxRecordText, LinkTargetsClient, SequenceTheorems, SharedLemmas, TLAPS

WrittenRecord == [keyword : Seq(Byte), value : Seq(Byte), len : Nat]

TextType ==
  /\ payload \in Seq(Byte)
  /\ cursor \in Nat
  /\ written \in Seq(WrittenRecord)

-----------------------------------------------------------------------------

(* Powers of ten are numbers, and grow.                                    *)
LEMMA PowersGrow ==
  /\ \A k \in 0..MAX_DECIMAL_U64_BYTES : 10^k \in Nat /\ k < 10^k
  /\ \A k \in Exponent :
       /\ 10^k \in Nat /\ k < 10^k /\ 10^(k + 1) = 10 * 10^k
       /\ \A j \in Exponent : j < k => 10^(j + 1) <= 10^k
<1> DEFINE m == MAX_DECIMAL_U64_BYTES
           T == { k \in 0..m : 10^k \in Nat /\ k < 10^k }
           U == { k \in 0..m : \A j \in 0..(k - 1) : 10^(j + 1) <= 10^k }
<1>1. /\ m \in Nat \ {0} /\ Exponent = 0..(m - 1)
      /\ \A k \in Exponent : k \in Nat /\ k \in 0..m /\ k + 1 \in 0..m
  BY LengthAssumption DEF Exponent
<1>2. 10^0 = 1 /\ \A k \in Exponent : 10^(k + 1) = 10 * 10^k
  BY PowersOfTen
<1> HIDE DEF m
<1>3. \A k \in 0..m : k \in T
  <2>1. 0 \in T
    BY <1>1, <1>2
  <2>2. ASSUME NEW k \in 0..(m - 1), k \in T PROVE k + 1 \in T
    <3>1. 10^k \in Nat /\ k < 10^k /\ 10^(k + 1) = 10 * 10^k /\ k \in Nat /\ k + 1 \in 0..m
      BY <1>1, <1>2, <2>2
    <3> QED
      BY <3>1
  <2> HIDE DEF T
  <2> QED
    BY <1>1, <2>1, <2>2, CountingUp
<1>4. \A k \in 0..m : k \in U
  <2>1. 0 \in U
    BY <1>1
  <2>2. ASSUME NEW k \in 0..(m - 1), k \in U PROVE k + 1 \in U
    <3>1. 10^k \in Nat /\ 10^(k + 1) = 10 * 10^k /\ k \in Nat /\ k + 1 \in 0..m
      BY <1>1, <1>2, <1>3, <2>2
    <3>2. ASSUME NEW j \in 0..((k + 1) - 1) PROVE 10^(j + 1) <= 10^(k + 1)
      <4>1. CASE j = k
        BY <3>1, <4>1
      <4>2. CASE j # k
        <5>1. j \in 0..(k - 1) /\ j + 1 \in 0..m
          BY <1>1, <3>1, <4>2
        <5>2. 10^(j + 1) <= 10^k /\ 10^(j + 1) \in Nat
          BY <1>3, <2>2, <5>1
        <5> QED
          BY <3>1, <5>2
      <4> QED
        BY <4>1, <4>2
    <3> QED
      BY <3>1, <3>2
  <2> HIDE DEF U
  <2> QED
    BY <1>1, <2>1, <2>2, CountingUp
<1>5. ASSUME NEW k \in Exponent, NEW j \in Exponent, j < k PROVE 10^(j + 1) <= 10^k
  <2>1. k \in 0..m /\ j \in 0..(k - 1)
    BY <1>1, <1>5
  <2> QED
    BY <1>4, <2>1
<1> QED
  BY <1>1, <1>2, <1>3, <1>5 DEF m

(* Every number of the type lies between two powers of ten.                *)
LEMMA DecimalLength ==
  ASSUME NEW n \in 1..USIZE_MAX
  PROVE  \E k \in Exponent : 10^k <= n /\ n < 10^(k + 1)
<1> DEFINE m == MAX_DECIMAL_U64_BYTES
           U == { k \in 0..m : n < 10^k }
<1>1. m \in Nat \ {0} /\ Exponent = 0..(m - 1) /\ n \in Nat \ {0} /\ USIZE_MAX < 10^m
      /\ USIZE_MAX \in Nat /\ n <= USIZE_MAX
  BY LengthAssumption DEF Exponent
<1> HIDE DEF m
<1>2. \A k \in 0..m : 10^k \in Nat
  BY PowersGrow DEF m
<1>3. m \in U
  <2>1. m \in 0..m
    BY <1>1
  <2>2. 10^m \in Nat
    BY <1>2, <2>1
  <2> QED
    BY <1>1, <2>1, <2>2
<1>4. PICK k \in U : \A j \in U : k <= j
  <2>1. U \in SUBSET Nat
    OBVIOUS
  <2> HIDE DEF U
  <2> QED
    BY <1>3, <2>1, LeastNatural
<1>5. k # 0
  <2>1. n < 10^k
    BY <1>4
  <2>2. k = 0 => 10^k = 1
    BY PowersOfTen
  <2> QED
    BY <1>1, <2>1, <2>2
<1>6. k - 1 \in 0..m /\ k - 1 \in Exponent /\ (k - 1) + 1 = k /\ ~(k <= k - 1)
  BY <1>1, <1>4, <1>5
<1>7. 10^(k - 1) \in Nat /\ 10^k \in Nat
  BY <1>2, <1>4, <1>6
<1>8. 10^(k - 1) <= n
  BY <1>1, <1>4, <1>6, <1>7
<1> QED
  BY <1>4, <1>6, <1>8

(* Dividing in two steps.                                                  *)
LEMMA DivideTwice ==
  ASSUME NEW n \in Nat, NEW p \in Nat \ {0}
  PROVE  n \div p \in Nat /\ n \div p <= n /\ n \div p = (10 * (n \div (10 * p))) + ((n \div p) % 10)
<1> DEFINE q == n \div p
           r == n % p
           d == n \div (10 * p)
           c == n % (10 * p)
<1>1. q \in Int /\ r \in Int /\ n = p * q + r /\ 0 <= r /\ r < p
  OBVIOUS
<1>2. 10 * p \in Nat \ {0}
  OBVIOUS
<1>3. d \in Int /\ c \in Int /\ n = (10 * p) * d + c /\ 0 <= c /\ c < 10 * p
  BY <1>2
<1> HIDE DEF q, r, d, c
<1>4. p * (q - 10 * d) = c - r
  BY <1>1, <1>3
<1>5. q - 10 * d < 10
  BY <1>1, <1>3, <1>4
<1>6. q - 10 * d > -1
  BY <1>1, <1>3, <1>4
<1>7. q % 10 = q - 10 * d
  BY <1>1, <1>3, <1>5, <1>6
<1>8. q >= 0 /\ q <= n
  BY <1>1
<1> QED
  BY <1>1, <1>3, <1>7, <1>8 DEF q, d

(* ilog10 is the exponent of the largest power of ten not above n.         *)
LEMMA LogBounds ==
  ASSUME NEW n \in 1..USIZE_MAX
  PROVE  ilog10(n) \in Exponent /\ 10^ilog10(n) <= n /\ n < 10^(ilog10(n) + 1)
<1>1. \E k \in Exponent : 10^k <= n /\ n < 10^(k + 1)
  BY DecimalLength
<1> QED
  BY <1>1 DEF ilog10

(* ... and no other exponent is.                                           *)
LEMMA LogIsUnique ==
  ASSUME NEW n \in 1..USIZE_MAX, NEW k \in Exponent, 10^k <= n, n < 10^(k + 1)
  PROVE  ilog10(n) = k
<1> DEFINE l == ilog10(n)
<1>1. l \in Exponent /\ 10^l <= n /\ n < 10^(l + 1)
  BY LogBounds
<1> HIDE DEF l
<1>2. k \in Int /\ l \in Int /\ n \in Int
  BY <1>1, LengthAssumption DEF Exponent
<1>3. 10^k \in Nat /\ 10^l \in Nat /\ 10^(k + 1) \in Nat /\ 10^(l + 1) \in Nat
  <2>1. 10^k \in Nat /\ 10^l \in Nat /\ 10^(k + 1) = 10 * 10^k /\ 10^(l + 1) = 10 * 10^l
    BY <1>1, PowersGrow
  <2> QED
    BY <2>1
<1>4. ~(l < k)
  <2>1. l < k => 10^(l + 1) <= 10^k
    BY <1>1, PowersGrow
  <2> QED
    BY <2>1, <1>1, <1>2, <1>3
<1>5. ~(k < l)
  <2>1. k < l => 10^(k + 1) <= 10^l
    BY <1>1, PowersGrow
  <2> QED
    BY <2>1, <1>1, <1>2, <1>3
<1> QED
  BY <1>2, <1>4, <1>5 DEF l

(* Two counts of digits are enough: the second cannot carry again.         *)
LEMMA SecondCountIsFinal ==
  ASSUME NEW s \in 1..USIZE_MAX,
         s + Digits(s) \in 1..USIZE_MAX,
         s + Digits(s + Digits(s)) \in 1..USIZE_MAX
  PROVE  Digits(s + Digits(s + Digits(s))) = Digits(s + Digits(s))
<1> DEFINE k == ilog10(s)
           t == s + Digits(s)
           m == ilog10(t)
           f == s + Digits(t)
<1>1. s \in Int /\ s > 0 /\ USIZE_MAX \in Int
  BY LengthAssumption
<1>2. k \in Exponent /\ 10^k <= s /\ s < 10^(k + 1)
  BY LogBounds
<1>3. m \in Exponent /\ 10^m <= t /\ t < 10^(m + 1)
  BY LogBounds
<1>4. Digits(s) = k + 1 /\ Digits(t) = m + 1
  <2>1. t # 0
    OBVIOUS
  <2>2. Digits(s) = k + 1
    BY <1>1 DEF Digits
  <2>3. Digits(t) = m + 1
    BY <2>1 DEF Digits
  <2> QED
    BY <2>2, <2>3
<1>5. k \in Int /\ m \in Int /\ k >= 0 /\ m >= 0
  BY <1>2, <1>3, LengthAssumption DEF Exponent
<1>6. /\ 10^k \in Nat /\ 10^m \in Nat /\ m < 10^m
      /\ 10^(k + 1) = 10 * 10^k /\ 10^(m + 1) = 10 * 10^m
  BY <1>2, <1>3, PowersGrow
<1>7. k < m => 10^(k + 1) <= 10^m
  BY <1>2, <1>3, PowersGrow
<1>8. m < k => 10^(m + 1) <= 10^k
  BY <1>2, <1>3, PowersGrow
<1>t. t = s + k + 1 /\ f = s + m + 1
  BY <1>4, <1>1, <1>5
<1>r. t \in 1..USIZE_MAX /\ f \in 1..USIZE_MAX
  OBVIOUS
<1> HIDE DEF k, t, m, f
<1>9. m >= k
  BY <1>1, <1>2, <1>3, <1>5, <1>6, <1>8, <1>t
<1>10. 10^m <= f
  BY <1>1, <1>3, <1>5, <1>6, <1>9, <1>t
<1>11. f < 10^(m + 1)
  <2>1. CASE m = k
    BY <2>1, <1>3, <1>t
  <2>2. CASE m > k
    <3>1. s < 10^m
      BY <2>2, <1>1, <1>2, <1>5, <1>6, <1>7
    <3> QED
      BY <3>1, <1>1, <1>5, <1>6, <1>t
  <2> QED
    BY <2>1, <2>2, <1>5, <1>9
<1>12. ilog10(f) = m
  BY <1>3, <1>r, <1>10, <1>11, LogIsUnique
<1>13. Digits(f) = m + 1
  BY <1>12, <1>r, <1>1 DEF Digits
<1> QED
  BY <1>4, <1>13 DEF f, t

-----------------------------------------------------------------------------
(* The texts the model handles are sequences of bytes.                     *)

LEMMA KeywordsAreText ==
  ASSUME NEW keyword \in Keywords
  PROVE  KeywordText(keyword) \in Seq(Byte)
<1>1. keyword.namespace \in Seq(Byte) /\ keyword.name \in Seq(Seq(Byte))
  BY TextAssumption
<1>2. CASE keyword.name = <<>>
  BY <1>1, <1>2 DEF KeywordText
<1>3. CASE keyword.name # <<>>
  <2>1. keyword.name[1] \in Seq(Byte)
    BY <1>1, <1>3
  <2>2. <<Dot>> \in Seq(Byte)
    BY DEF Dot, Byte
  <2> QED
    BY <1>1, <1>3, <2>1, <2>2 DEF KeywordText
<1> QED
  BY <1>2, <1>3

LEMMA LengthsAreNumbers ==
  ASSUME NEW k \in Nat, NEW v \in Nat, LengthFits(k, v)
  PROVE  /\ suffix_len(k, v) \in 1..USIZE_MAX
         /\ tentative_len(k, v) \in 1..USIZE_MAX
         /\ record_len(k, v) \in Nat \ {0}
<1> DEFINE s == suffix_len(k, v)
           t == tentative_len(k, v)
<1>1. s <= USIZE_MAX /\ t <= USIZE_MAX /\ USIZE_MAX \in Nat
  BY LengthAssumption DEF LengthFits
<1>2. s \in 1..USIZE_MAX
  BY <1>1 DEF suffix_len
<1> HIDE DEF s
<1>3. Digits(s) \in Nat \ {0}
  <2>1. ilog10(s) \in Nat
    BY <1>2, LogBounds, LengthAssumption DEF Exponent
  <2> QED
    BY <2>1 DEF Digits
<1>4. t \in 1..USIZE_MAX
  <2>1. t = s + Digits(s)
    BY DEF tentative_len, s
  <2> QED
    BY <1>1, <1>2, <1>3, <2>1
<1> HIDE DEF t
<1>5. Digits(t) \in Nat \ {0}
  <2>1. ilog10(t) \in Nat
    BY <1>4, LogBounds, LengthAssumption DEF Exponent
  <2> QED
    BY <2>1 DEF Digits
<1>6. record_len(k, v) = s + Digits(t)
  BY DEF record_len, s, t
<1> QED
  BY <1>1, <1>2, <1>4, <1>5, <1>6 DEF s, t

LEMMA DecimalIsText ==
  ASSUME NEW n \in 1..USIZE_MAX
  PROVE  Decimal(n) \in Seq(Byte) /\ Len(Decimal(n)) = Digits(n)
<1> DEFINE d == Digits(n)
<1>1. d \in 1..MAX_DECIMAL_U64_BYTES
  <2>1. ilog10(n) \in Exponent
    BY LogBounds
  <2> QED
    BY <2>1, LengthAssumption DEF Digits, Exponent
<1>2. Decimal(n) = [i \in 1..d |-> (n \div 10^(d - i)) % 10]
  BY DEF Decimal
<1> HIDE DEF d
<1>3. ASSUME NEW i \in 1..d
      PROVE  (n \div 10^(d - i)) % 10 \in Byte
  <2>1. d - i \in Exponent
    BY <1>1, LengthAssumption DEF Exponent
  <2>2. 10^(d - i) \in Nat /\ 10^(d - i) > 0
    BY <2>1, PowersGrow DEF Exponent
  <2>3. n \div 10^(d - i) \in Int
    BY <2>2, LengthAssumption
  <2> QED
    BY <2>3 DEF Byte
<1>4. d \in Nat
  BY <1>1, LengthAssumption
<1> QED
  BY <1>2, <1>3, <1>4 DEF d

LEMMA RecordIsText ==
  ASSUME NEW keyword \in Keywords, NEW value \in Values, NEW len \in 1..USIZE_MAX
  PROVE  RecordText(keyword, value, len) \in Seq(Byte)
<1>1. Decimal(len) \in Seq(Byte) /\ KeywordText(keyword) \in Seq(Byte) /\ value \in Seq(Byte)
  BY DecimalIsText, KeywordsAreText, TextAssumption
<1>2. <<Space>> \in Seq(Byte) /\ <<Equals>> \in Seq(Byte) /\ <<Newline>> \in Seq(Byte)
  BY DEF Space, Equals, Newline, Byte
<1> QED
  BY <1>1, <1>2 DEF RecordText

-----------------------------------------------------------------------------

LEMMA TextTypeInitially == TextInit => TextType
<1> SUFFICES ASSUME TextInit
             PROVE  TextType
  OBVIOUS
<1>1. payload \in Seq(Byte)
  <2>1. <<>> \in Seq(Byte)
    OBVIOUS
  <2> QED
    BY <2>1, TextAssumption DEF TextInit
<1>2. written \in Seq(WrittenRecord)
  BY DEF TextInit
<1> QED
  BY <1>1, <1>2 DEF TextInit, TextType

LEMMA TextTypePreserved == TextType /\ [TextNext]_textVars => TextType'
<1> SUFFICES ASSUME TextType, [TextNext]_textVars
             PROVE  TextType'
  OBVIOUS
<1>1. ASSUME NEW keyword \in Keywords, NEW value \in Values, AppendPaxRecord(keyword, value)
      PROVE  TextType'
  <2> DEFINE k == Len(KeywordText(keyword))
             v == Len(value)
             len == record_len(k, v)
             item == [keyword |-> KeywordText(keyword), value |-> value, len |-> len]
  <2>1. /\ Len(payload) + len <= USIZE_MAX
        /\ payload' = payload \o RecordText(keyword, value, len)
        /\ written' = Append(written, item)
        /\ cursor' = cursor
        /\ LengthFits(k, v)
    BY <1>1 DEF AppendPaxRecord
  <2>k. k \in Nat /\ v \in Nat
    BY KeywordsAreText, TextAssumption
  <2>2. len \in Nat \ {0}
    <3> HIDE DEF k, v
    <3> QED
      BY <2>1, <2>k, LengthsAreNumbers
  <2> HIDE DEF len
  <2>3. len \in 1..USIZE_MAX
    BY <2>1, <2>2, LengthAssumption DEF TextType
  <2>4. payload' \in Seq(Byte)
    BY <2>1, <2>3, RecordIsText DEF TextType
  <2>5. item \in WrittenRecord
    BY <2>2, KeywordsAreText, TextAssumption DEF WrittenRecord
  <2> QED
    BY <2>1, <2>4, <2>5 DEF TextType
<1>2. CASE Damages
  BY SMTT(30), <1>2, TextAssumption DEF Damages, TextType
<1>3. CASE Arrives
  BY <1>3 DEF Arrives, TextType
<1>4. CASE ParseRecord
  <2>1. payload' = payload /\ written' = written
    BY <1>4 DEF ParseRecord
  <2>2. cursor' = cursor \/ (Framed /\ cursor' = RecordEnd)
    BY <1>4 DEF ParseRecord, Ends
  <2>3. Framed => RecordEnd \in Nat
    BY LengthAssumption DEF Framed, HasLength, RecordEnd, TextType
  <2> QED
    BY <2>1, <2>2, <2>3 DEF TextType
<1>5. CASE Parsed
  BY <1>5 DEF Parsed, TextType
<1>6. CASE UNCHANGED textVars
  BY <1>6 DEF textVars, TextType
<1> QED
  BY <1>1, <1>2, <1>3, <1>4, <1>5, <1>6 DEF TextNext

LEMMA TextTypeHolds == TextSpec => []TextType
<1> QED
  BY TextTypeInitially, TextTypePreserved, PTL DEF TextSpec

-----------------------------------------------------------------------------
(* The length written in front of a record counts every byte of it, its    *)
(* own digits included, at every power of ten.                             *)
LEMMA AppendedLengthIsExact ==
  ASSUME TextType, LengthsAreExact,
         NEW keyword \in Keywords, NEW value \in Values, AppendPaxRecord(keyword, value)
  PROVE  LengthsAreExact'
<1> DEFINE k == Len(KeywordText(keyword))
           v == Len(value)
           len == record_len(k, v)
           s == suffix_len(k, v)
           item == [keyword |-> KeywordText(keyword), value |-> value, len |-> len]
<1>1. /\ Len(payload) + len <= USIZE_MAX
      /\ written' = Append(written, item)
      /\ LengthFits(k, v)
  BY DEF AppendPaxRecord
<1>2. /\ s \in 1..USIZE_MAX
      /\ tentative_len(k, v) \in 1..USIZE_MAX
      /\ len \in Nat \ {0}
  <2>1. k \in Nat /\ v \in Nat
    BY KeywordsAreText, TextAssumption
  <2> HIDE DEF k, v
  <2> QED
    BY <1>1, <2>1, LengthsAreNumbers
<1>3. tentative_len(k, v) = s + Digits(s)
  BY DEF tentative_len
<1>4. len = s + Digits(s + Digits(s))
  BY DEF record_len, tentative_len
<1>5. len \in 1..USIZE_MAX
  <2> HIDE DEF len
  <2> QED
    BY <1>1, <1>2, LengthAssumption DEF TextType
<1>6. Digits(len) = Digits(s + Digits(s))
  <2> HIDE DEF s, len
  <2> QED
    BY <1>2, <1>3, <1>4, <1>5, SecondCountIsFinal
<1>7. Len(Decimal(len)) = Digits(len)
  BY <1>5, DecimalIsText
<1>8. /\ s = Len(KeywordText(keyword)) + Len(value) + 3
      /\ Len(KeywordText(keyword)) \in Nat /\ Len(value) \in Nat
  BY KeywordsAreText, TextAssumption DEF suffix_len
<1>9. Digits(len) \in Nat
  <2>1. ilog10(len) \in Nat
    BY <1>5, LogBounds, LengthAssumption DEF Exponent
  <2> QED
    BY <2>1 DEF Digits
<1> HIDE DEF len, s
<1>10. len = Len(Decimal(len)) + Len(KeywordText(keyword)) + Len(value) + 3
  BY <1>4, <1>6, <1>7, <1>8, <1>9
<1>11. item.keyword = KeywordText(keyword) /\ item.value = value /\ item.len = len
  OBVIOUS
<1> HIDE DEF item
<1> SUFFICES ASSUME NEW n \in 1..Len(written')
             PROVE  written'[n].len = Len(Decimal(written'[n].len))
                      + Len(written'[n].keyword) + Len(written'[n].value) + 3
  BY DEF LengthsAreExact
<1>12. CASE n = Len(written) + 1
  <2>1. written'[n] = item
    BY <1>1, <1>12 DEF TextType
  <2>2. item.len = Len(Decimal(item.len)) + Len(item.keyword) + Len(item.value) + 3
    BY <1>10, <1>11
  <2> QED
    BY <2>1, <2>2
<1>13. CASE n # Len(written) + 1
  <2>1. n \in 1..Len(written) /\ written'[n] = written[n]
    BY <1>1, <1>13 DEF TextType
  <2> QED
    BY <2>1 DEF LengthsAreExact
<1> QED
  BY <1>12, <1>13

(* Every record append_pax_record writes states its own length exactly,    *)
(* for any keyword and value the types can hold.                           *)
THEOREM RecordLengthsAreExact == TextSpec => []LengthsAreExact
<1>1. TextInit => LengthsAreExact
  BY DEF TextInit, LengthsAreExact
<1>2. TextType /\ LengthsAreExact /\ [TextNext]_textVars => LengthsAreExact'
  <2> SUFFICES ASSUME TextType, LengthsAreExact, [TextNext]_textVars
               PROVE  LengthsAreExact'
    OBVIOUS
  <2>1. (\E keyword \in Keywords, value \in Values : AppendPaxRecord(keyword, value))
        => LengthsAreExact'
    BY AppendedLengthIsExact
  <2>2. written' = written => LengthsAreExact'
    BY DEF LengthsAreExact, Decimal
  <2>3. Damages \/ Arrives \/ ParseRecord \/ Parsed \/ UNCHANGED textVars => written' = written
    BY DEF Damages, Arrives, ParseRecord, Parsed, textVars
  <2> QED
    BY <2>1, <2>2, <2>3 DEF TextNext
<1> QED
  BY <1>1, <1>2, TextTypeHolds, PTL DEF TextSpec

-----------------------------------------------------------------------------
(* The bytes up to the separator are digits and the separator itself, so   *)
(* the newline that must end a record is behind them.                      *)
LEMMA NewlineIsBehindTheLength == TextType => SlicesStayInside
<1> SUFFICES ASSUME TextType, Framed
             PROVE  LengthEnd <= RecordEnd - 1
  BY DEF SlicesStayInside
<1> DEFINE e == LengthEnd
           r == RecordEnd
<1>1. cursor \in Nat /\ payload \in Seq(Byte) /\ Len(payload) \in Nat
  BY DEF TextType
<1>2. /\ e # 0 /\ AllDigits(LengthText) /\ Number(LengthText) \in 0..USIZE_MAX
      /\ r <= Len(payload) /\ r > cursor /\ payload[r] = Newline
  BY DEF Framed, HasLength, NewlineTerminated
<1>3. r \in Int
  BY <1>1, <1>2, LengthAssumption DEF RecordEnd
<1>4. e \in (cursor + 1)..Len(payload) /\ payload[e] = Space
  <2>1. \E i \in (cursor + 1)..Len(payload) : IsFirst(Space, cursor + 1, i)
    BY <1>2 DEF LengthEnd, First
  <2>2. e \in (cursor + 1)..Len(payload) /\ IsFirst(Space, cursor + 1, e)
    BY <2>1 DEF LengthEnd, First
  <2> QED
    BY <2>2 DEF IsFirst
<1>5. ASSUME NEW i \in (cursor + 1)..(e - 1)
      PROVE  payload[i] \in Digit
  <2>1. LengthText = SubSeq(payload, cursor + 1, e - 1)
    BY DEF LengthText
  <2>2. i - cursor \in 1..Len(LengthText) /\ LengthText[i - cursor] = payload[i]
    <3> HIDE DEF e
    <3> QED
      BY <1>1, <1>4, <2>1
  <2> QED
    BY <1>2, <2>2 DEF AllDigits
<1> HIDE DEF e, r
<1>6. r # e
  BY <1>2, <1>4 DEF Newline, Space
<1>7. ~(r < e)
  BY <1>1, <1>2, <1>3, <1>4, <1>5 DEF Newline, Digit
<1> QED
  BY <1>1, <1>3, <1>4, <1>6, <1>7 DEF e, r

(* However short the length a record states, the slice of its keyword and  *)
(* value never ends before it starts.                                      *)
THEOREM RecordSlicesStayInside == TextSpec => []SlicesStayInside
  BY TextTypeHolds, NewlineIsBehindTheLength, PTL
-----------------------------------------------------------------------------
(* Reading what was written.                                               *)

(* The digits of a number say the number.                                  *)
LEMMA NumberOfDecimal ==
  ASSUME NEW n \in 1..USIZE_MAX
  PROVE  Number(Decimal(n)) = n
<1> DEFINE text == Decimal(n)
           d == Digits(n)
           value[i \in 0..Len(text)] ==
             IF i = 0 THEN 0
             ELSE LET more == 10 * value[i - 1] + (text[i] % Plus)
                  IN  IF more > USIZE_MAX THEN USIZE_MAX + 1 ELSE more
           f == [i \in 0..d |-> n \div 10^(d - i)]
<1>1. USIZE_MAX \in Nat /\ n \in Nat \ {0} /\ n <= USIZE_MAX
  BY LengthAssumption
<1>2. Len(text) = d /\ \A i \in 1..d : text[i] = (n \div 10^(d - i)) % 10
  <2>1. Len(text) = d
    BY DecimalIsText
  <2> QED
    BY <2>1 DEF Decimal
<1>3. d \in Nat \ {0} /\ d - 1 \in Exponent /\ n < 10^d
      /\ \A i \in 0..(d - 1) : i \in Exponent
  <2>1. ilog10(n) \in Exponent /\ n < 10^(ilog10(n) + 1) /\ d = ilog10(n) + 1
    BY LogBounds, <1>1 DEF Digits
  <2> HIDE DEF d
  <2> QED
    BY <2>1, LengthAssumption DEF Exponent
<1> HIDE DEF text, d
<1>4. \A i \in 0..d : 10^(d - i) \in Nat \ {0}
  <2>1. ASSUME NEW i \in 0..d PROVE d - i \in 0..MAX_DECIMAL_U64_BYTES
    BY <1>3, LengthAssumption DEF Exponent
  <2>2. \A k \in 0..MAX_DECIMAL_U64_BYTES : k >= 0 /\ 10^k \in Nat /\ k < 10^k
    BY PowersGrow, LengthAssumption
  <2>3. \A k \in 0..MAX_DECIMAL_U64_BYTES : 10^k \in Nat \ {0}
    BY <2>2, LengthAssumption
  <2> QED
    BY <2>1, <2>3
<1>5. f[0] = 0 /\ f[d] = n
  <2>1. f[0] = n \div 10^d
    BY <1>3
  <2>2. 10^d \in Nat \ {0}
    <3>1. 0 \in 0..d /\ d - 0 = d
      BY <1>3
    <3> QED
      BY <1>4, <3>1
  <2>3. n \div 10^d = 0
    BY <1>1, <1>3, <2>2
  <2>4. f[d] = n \div 10^0
    BY <1>3
  <2>5. n \div 1 = n
    BY <1>1
  <2> QED
    BY <2>1, <2>3, <2>4, <2>5, PowersOfTen
<1>6. ASSUME NEW i \in 1..d
      PROVE  f[i] \in Nat /\ f[i] <= n /\ f[i] = (10 * f[i - 1]) + (text[i] % Plus)
  <2> DEFINE p == 10^(d - i)
  <2>1. i \in 0..d /\ i - 1 \in 0..d /\ d - i \in Exponent /\ d - (i - 1) = (d - i) + 1
    BY <1>3
  <2>2. p \in Nat \ {0} /\ 10^(d - (i - 1)) = 10 * p
    BY <1>4, <2>1, PowersOfTen
  <2>3. f[i] = n \div p /\ f[i - 1] = n \div (10 * p) /\ text[i] = (n \div p) % 10
    BY <1>2, <2>1, <2>2
  <2> HIDE DEF p, f
  <2>4. n \div p \in Nat /\ n \div p <= n
        /\ n \div p = (10 * (n \div (10 * p))) + ((n \div p) % 10)
    BY <1>1, <2>2, DivideTwice
  <2>5. ((n \div p) % 10) % Plus = (n \div p) % 10
    BY <2>4 DEF Plus
  <2> QED
    BY <2>3, <2>4, <2>5
<1>7. f = [i \in 0..Len(text) |->
             IF i = 0 THEN 0
             ELSE LET more == 10 * f[i - 1] + (text[i] % Plus)
                  IN  IF more > USIZE_MAX THEN USIZE_MAX + 1 ELSE more]
  <2>1. f = [i \in 0..d |-> f[i]]
    OBVIOUS
  <2>2. ASSUME NEW i \in 0..d
        PROVE  f[i] = IF i = 0 THEN 0
                      ELSE LET more == 10 * f[i - 1] + (text[i] % Plus)
                           IN  IF more > USIZE_MAX THEN USIZE_MAX + 1 ELSE more
    <3> HIDE DEF f
    <3>1. CASE i = 0
      BY <1>5, <3>1
    <3>2. CASE i # 0
      <4>1. i \in 1..d
        BY <1>3, <3>2
      <4>2. ~(f[i] > USIZE_MAX)
        BY <1>1, <1>6, <4>1
      <4> QED
        BY <1>6, <3>2, <4>1, <4>2
    <3> QED
      BY <3>1, <3>2
  <2> QED
    BY <1>2, <2>1, <2>2, Zenon
<1>8. value = [i \in 0..Len(text) |->
                 IF i = 0 THEN 0
                 ELSE LET more == 10 * value[i - 1] + (text[i] % Plus)
                      IN  IF more > USIZE_MAX THEN USIZE_MAX + 1 ELSE more]
  <2> HIDE DEF f
  <2> QED
    BY <1>7, Zenon DEF value
<1> HIDE DEF value
<1> DEFINE T == { i \in 0..d : value[i] = f[i] }
<1>9. 0 \in T
  <2>1. 0 \in 0..Len(text)
    BY <1>2, <1>3
  <2> HIDE DEF f
  <2> QED
    BY <1>2, <1>5, <1>8, <2>1
<1>10. ASSUME NEW k \in 0..(d - 1), k \in T PROVE k + 1 \in T
  <2>1. k + 1 \in 1..d /\ k + 1 # 0 /\ (k + 1) - 1 = k /\ k + 1 \in 0..d
    BY <1>3
  <2> HIDE DEF f
  <2>2. value[k] = f[k] /\ f[k + 1] \in Nat /\ ~(f[k + 1] > USIZE_MAX)
        /\ f[k + 1] = (10 * f[k]) + (text[k + 1] % Plus)
    BY <1>1, <1>6, <1>10, <2>1
  <2>3. value[k + 1] = LET more == 10 * value[k] + (text[k + 1] % Plus)
                       IN  IF more > USIZE_MAX THEN USIZE_MAX + 1 ELSE more
    BY <1>2, <1>8, <2>1
  <2> QED
    BY <2>1, <2>2, <2>3
<1>11. value[d] = n
  <2>1. \A k \in 0..d : k \in T
    <3> HIDE DEF T
    <3> QED
      BY <1>3, <1>9, <1>10, CountingUp
  <2>2. d \in 0..d
    BY <1>3
  <2> QED
    BY <1>5, <2>1, <2>2
<1>12. value[Len(text)] = n
  BY <1>2, <1>11
<1> QED
  BY <1>12, Zenon DEF Number, value, text
-----------------------------------------------------------------------------
(* Where records go on to the end of the payload.                          *)

LEMMA FirstIs ==
  ASSUME NEW byte, NEW from \in Nat, NEW to \in Nat, NEW i \in from..to, IsFirst(byte, from, i)
  PROVE  First(byte, from, to) = i
<1>1. PICK k \in from..to : First(byte, from, to) = k /\ IsFirst(byte, from, k)
  BY DEF First
<1>2. ~(k < i)
  BY <1>1 DEF IsFirst
<1>3. ~(i < k)
  BY <1>1 DEF IsFirst
<1> QED
  BY <1>1, <1>2, <1>3

LEMMA FirstFound ==
  ASSUME NEW byte, NEW from \in Nat \ {0}, NEW to \in Nat, First(byte, from, to) # 0
  PROVE  First(byte, from, to) \in from..to /\ IsFirst(byte, from, First(byte, from, to))
BY DEF First

Closed(T) ==
  /\ Len(payload) + 1 \in T
  /\ \A i \in 1..Len(payload) :
       (\E j \in i..Len(payload) : IsRecord(i, j) /\ j + 1 \in T) => i \in T

Good ==
  { i \in 1..(Len(payload) + 1) :
      \A T \in SUBSET (1..(Len(payload) + 1)) : Closed(T) => i \in T }

LEMMA GoodIs ==
  ASSUME TextType, NEW i \in 1..(Len(payload) + 1)
  PROVE  i \in Good <=> \/ i = Len(payload) + 1
                        \/ \E j \in i..Len(payload) : IsRecord(i, j) /\ j + 1 \in Good
<1> DEFINE L == Len(payload)
<1>1. L \in Nat
  BY DEF TextType
<1>2. Closed(Good)
  <2>1. L + 1 \in Good
    BY <1>1 DEF Good, Closed
  <2>2. ASSUME NEW k \in 1..L, NEW j \in k..L, IsRecord(k, j), j + 1 \in Good
        PROVE  k \in Good
    <3>1. ASSUME NEW T \in SUBSET (1..(L + 1)), Closed(T) PROVE k \in T
      <4>1. j + 1 \in T
        BY <2>2, <3>1 DEF Good
      <4> QED
        BY <2>2, <3>1, <4>1 DEF Closed
    <3>2. k \in 1..(L + 1)
      BY <1>1
    <3> QED
      BY <3>1, <3>2 DEF Good
  <2> QED
    BY <2>1, <2>2 DEF Closed
<1>3. ASSUME i \in Good, i # L + 1
      PROVE  \E j \in i..L : IsRecord(i, j) /\ j + 1 \in Good
  <2> SUFFICES ASSUME ~ \E j \in i..L : IsRecord(i, j) /\ j + 1 \in Good
               PROVE  FALSE
    OBVIOUS
  <2> DEFINE T == Good \ {i}
  <2>1. T \in SUBSET (1..(L + 1)) /\ i \notin T
    BY DEF Good
  <2>2. Closed(T)
    <3>1. L + 1 \in T
      BY <1>2, <1>3 DEF Closed
    <3>2. ASSUME NEW k \in 1..L, NEW j \in k..L, IsRecord(k, j), j + 1 \in T
          PROVE  k \in T
      <4>1. k \in Good
        BY <1>2, <3>2 DEF Closed
      <4>2. k # i
        BY <3>2
      <4> QED
        BY <4>1, <4>2
    <3> QED
      BY <3>1, <3>2 DEF Closed
  <2> HIDE DEF T
  <2> QED
    BY <1>3, <2>1, <2>2 DEF Good
<1>4. ASSUME i = L + 1 \/ \E j \in i..L : IsRecord(i, j) /\ j + 1 \in Good
      PROVE  i \in Good
  <2>1. CASE i = L + 1
    BY <1>2, <2>1 DEF Closed
  <2>2. CASE i # L + 1
    <3>1. i \in 1..L
      BY <1>1, <2>2
    <3> QED
      BY <1>2, <1>4, <2>2, <3>1 DEF Closed
  <2> QED
    BY <2>1, <2>2
<1> QED
  BY <1>3, <1>4

(* It is what the recursion of the property finds.                         *)
LEMMA RecordsFromIs ==
  ASSUME TextType
  PROVE  LET RecordsFrom[i \in 1..(Len(payload) + 1)] ==
               \/ i = Len(payload) + 1
               \/ \E j \in i..Len(payload) : IsRecord(i, j) /\ RecordsFrom[j + 1]
         IN  RecordsFrom[1] <=> 1 \in Good
<1> DEFINE RecordsFrom[i \in 1..(Len(payload) + 1)] ==
             \/ i = Len(payload) + 1
             \/ \E j \in i..Len(payload) : IsRecord(i, j) /\ RecordsFrom[j + 1]
           f == [i \in 1..(Len(payload) + 1) |-> i \in Good]
           L == Len(payload)
<1>1. L \in Nat /\ 1 \in 1..(L + 1)
  BY DEF TextType
<1>2. f = [i \in 1..(Len(payload) + 1) |->
             \/ i = Len(payload) + 1
             \/ \E j \in i..Len(payload) : IsRecord(i, j) /\ f[j + 1]]
  <2>1. ASSUME NEW i \in 1..(Len(payload) + 1)
        PROVE  (i \in Good) = (\/ i = Len(payload) + 1
                               \/ \E j \in i..Len(payload) : IsRecord(i, j) /\ f[j + 1])
    <3>1. ASSUME NEW j \in i..Len(payload) PROVE f[j + 1] <=> j + 1 \in Good
      <4>1. j + 1 \in 1..(Len(payload) + 1)
        BY <1>1
      <4> QED
        BY <4>1
    <3>2. i \in Good <=> \/ i = Len(payload) + 1
                         \/ \E j \in i..Len(payload) : IsRecord(i, j) /\ j + 1 \in Good
      BY GoodIs
    <3> HIDE DEF f
    <3> DEFINE goesOn == \/ i = Len(payload) + 1
                         \/ \E j \in i..Len(payload) : IsRecord(i, j) /\ f[j + 1]
    <3>3. (i \in Good <=> goesOn) /\ goesOn \in BOOLEAN
      BY <3>1, <3>2
    <3> HIDE DEF goesOn
    <3>4. (i \in Good) = goesOn
      BY <3>3
    <3> QED
      BY <3>4, Zenon DEF goesOn
  <2> QED
    BY <2>1, Zenon
<1>3. RecordsFrom = [i \in 1..(Len(payload) + 1) |->
                       \/ i = Len(payload) + 1
                       \/ \E j \in i..Len(payload) : IsRecord(i, j) /\ RecordsFrom[j + 1]]
  <2> HIDE DEF f
  <2> QED
    BY <1>2, Zenon DEF RecordsFrom
<1> HIDE DEF RecordsFrom
<1>4. \A i \in 1..(L + 1) :
        RecordsFrom[i] = (\/ i = L + 1
                          \/ \E j \in i..L : IsRecord(i, j) /\ RecordsFrom[j + 1])
  BY <1>3, Zenon
<1> DEFINE U == { k \in 0..L : ~(RecordsFrom[L + 1 - k] <=> L + 1 - k \in Good) }
<1>5. U = {}
  <2> SUFFICES ASSUME U # {} PROVE FALSE
    OBVIOUS
  <2>1. PICK k \in U : \A m \in U : k <= m
    <3>1. U \in SUBSET Nat
      BY <1>1
    <3> HIDE DEF U
    <3>2. PICK u : u \in U
      OBVIOUS
    <3> QED
      BY <3>1, <3>2, LeastNatural
  <2> DEFINE i == L + 1 - k
  <2>2. i \in 1..(L + 1) /\ k \in 0..L /\ ~(RecordsFrom[i] <=> i \in Good)
    BY <1>1, <2>1
  <2>3. ASSUME NEW j \in i..L PROVE RecordsFrom[j + 1] <=> j + 1 \in Good
    <3>1. L - j \in 0..L /\ ~(k <= L - j) /\ L + 1 - (L - j) = j + 1
      BY <1>1, <2>2
    <3>2. L - j \notin U
      <4> HIDE DEF U
      <4> QED
        BY <2>1, <3>1
    <3> QED
      BY <3>1, <3>2
  <2> HIDE DEF i, U
  <2>4. i \in Good <=> i = L + 1 \/ \E j \in i..L : IsRecord(i, j) /\ j + 1 \in Good
    BY <2>2, GoodIs
  <2>5. RecordsFrom[i] <=> i = L + 1 \/ \E j \in i..L : IsRecord(i, j) /\ RecordsFrom[j + 1]
    BY <1>4, <2>2
  <2> QED
    BY <2>2, <2>3, <2>4, <2>5
<1>6. RecordsFrom[1] <=> 1 \in Good
  <2>1. L \in 0..L /\ L + 1 - L = 1 /\ L \notin U
    BY <1>1, <1>5
  <2> QED
    BY <2>1
<1> QED
  BY <1>6, Zenon DEF RecordsFrom
-----------------------------------------------------------------------------
(* One turn of the parser's loop takes exactly the record at the cursor.   *)

(* The length ends at the first byte that is no digit.                     *)
LEMMA LengthEndIs ==
  ASSUME TextType, NEW s \in (cursor + 1)..Len(payload), payload[s] = Space,
         \A i \in (cursor + 1)..(s - 1) : payload[i] \in Digit
  PROVE  LengthEnd = s
<1>1. cursor \in Nat /\ Len(payload) \in Nat
  BY DEF TextType
<1>2. \A j \in (cursor + 1)..(s - 1) : payload[j] # Space
  BY DEF Digit, Space
<1>3. IsFirst(Space, cursor + 1, s)
  BY <1>2 DEF IsFirst
<1> QED
  BY <1>1, <1>3, FirstIs DEF LengthEnd

(* What the slices of the parser hold.                                     *)
LEMMA LengthTextIs ==
  ASSUME TextType, LengthEnd \in (cursor + 1)..Len(payload)
  PROVE  /\ LengthText = SubSeq(payload, cursor + 1, LengthEnd - 1)
         /\ LengthText \in Seq(Byte) /\ Len(LengthText) = LengthEnd - 1 - cursor
         /\ \A i \in 1..(LengthEnd - 1 - cursor) : LengthText[i] = payload[cursor + i]
<1> DEFINE e == LengthEnd
<1>1. cursor \in Nat /\ payload \in Seq(Byte) /\ Len(payload) \in Nat
  BY DEF TextType
<1>2. LengthText = SubSeq(payload, cursor + 1, e - 1)
  BY DEF LengthText
<1>3. e \in (cursor + 1)..Len(payload)
  OBVIOUS
<1> HIDE DEF e
<1>4. \A i \in (cursor + 1)..(e - 1) : i \in 1..Len(payload) /\ payload[i] \in Byte
  BY <1>1, <1>3
<1>5. SubSeq(payload, cursor + 1, e - 1) \in Seq(Byte)
      /\ Len(SubSeq(payload, cursor + 1, e - 1)) = e - 1 - cursor
      /\ \A i \in 1..(e - 1 - cursor) : SubSeq(payload, cursor + 1, e - 1)[i] = payload[cursor + i]
  BY <1>1, <1>3, <1>4
<1> QED
  BY <1>2, <1>5 DEF e

LEMMA KeywordReadIs ==
  ASSUME TextType, LengthEnd \in (cursor + 1)..Len(payload),
         NEW e \in (LengthEnd + 2)..Len(payload), EqualsAt = e
  PROVE  /\ KeywordRead \in Seq(Byte) /\ Len(KeywordRead) = e - 1 - LengthEnd
         /\ \A i \in 1..(e - 1 - LengthEnd) : KeywordRead[i] = payload[LengthEnd + i]
<1> DEFINE l == LengthEnd
<1>1. cursor \in Nat /\ payload \in Seq(Byte) /\ Len(payload) \in Nat
  BY DEF TextType
<1>2. KeywordRead = SubSeq(payload, l + 1, e - 1)
  BY DEF KeywordRead
<1>3. l \in (cursor + 1)..Len(payload) /\ e \in (l + 2)..Len(payload)
  OBVIOUS
<1> HIDE DEF l
<1>4. \A i \in (l + 1)..(e - 1) : i \in 1..Len(payload) /\ payload[i] \in Byte
  BY <1>1, <1>3
<1>5. SubSeq(payload, l + 1, e - 1) \in Seq(Byte)
      /\ Len(SubSeq(payload, l + 1, e - 1)) = e - 1 - l
      /\ \A i \in 1..(e - 1 - l) : SubSeq(payload, l + 1, e - 1)[i] = payload[l + i]
  BY <1>1, <1>3, <1>4
<1> QED
  BY <1>2, <1>5 DEF l

Accepts == Framed /\ HasKeyword /\ ~Occurs(Raw, KeywordRead)

(* A record at the cursor is accepted, and there is no other there.        *)
LEMMA RecordIsAccepted ==
  ASSUME TextType, Len(payload) <= USIZE_MAX,
         NEW j \in (cursor + 1)..Len(payload), IsRecord(cursor + 1, j)
  PROVE  Accepts /\ RecordEnd = j
<1> DEFINE c == cursor
<1>1. c \in Nat /\ payload \in Seq(Byte) /\ Len(payload) \in Nat /\ USIZE_MAX \in Nat
      /\ j \in (c + 1)..Len(payload) /\ Len(payload) <= USIZE_MAX
  BY LengthAssumption DEF TextType
<1>2. PICK s \in (c + 1)..j :
        /\ payload[s] = Space
        /\ s > c + 1 /\ \A i \in (c + 1)..(s - 1) : payload[i] \in Digit
        /\ Number(SubSeq(payload, c + 1, s - 1)) = j - (c + 1) + 1
        /\ \E e \in (s + 2)..j :
             /\ payload[e] = Equals
             /\ \A i \in (s + 1)..(e - 1) : payload[i] \notin {Equals, Raw}
  BY DEF IsRecord
<1>3. PICK e \in (s + 2)..j :
        /\ payload[e] = Equals
        /\ \A i \in (s + 1)..(e - 1) : payload[i] \notin {Equals, Raw}
  BY <1>2
<1>4. payload[j] = Newline
  BY DEF IsRecord
<1>5. s \in (c + 1)..Len(payload) /\ LengthEnd = s
  <2>1. s \in (c + 1)..Len(payload)
    BY <1>1, <1>2
  <2> QED
    BY <1>2, <2>1, LengthEndIs
<1>6. /\ LengthText = SubSeq(payload, c + 1, s - 1)
      /\ LengthText \in Seq(Byte) /\ Len(LengthText) = s - 1 - c
      /\ \A i \in 1..(s - 1 - c) : LengthText[i] = payload[c + i]
  BY <1>5, LengthTextIs
<1> HIDE DEF c
<1>7. AllDigits(LengthText)
  <2>1. Len(LengthText) \in Nat \ {0}
    BY <1>1, <1>2, <1>5, <1>6
  <2>2. \A i \in 1..(s - 1 - c) : c + i \in (c + 1)..(s - 1)
    BY <1>1, <1>5
  <2> QED
    BY <1>2, <1>6, <2>1, <2>2 DEF AllDigits
<1>8. Number(LengthText) = j - c /\ j - c \in 0..USIZE_MAX
  BY <1>1, <1>2, <1>6
<1>9. HasLength /\ RecordEnd = j
  <2>1. LengthEnd # 0
    BY <1>1, <1>5
  <2>2. RecordEnd = c + Number(LengthText)
    BY DEF RecordEnd, c
  <2> QED
    BY <1>1, <1>7, <1>8, <2>1, <2>2 DEF HasLength
<1>10. Framed
  BY <1>1, <1>4, <1>9 DEF Framed, NewlineTerminated, c
<1>11. EqualsAt = e
  <2>1. e # j
    BY <1>3, <1>4 DEF Equals, Newline
  <2>2. e \in (s + 1)..(j - 1)
    BY <1>1, <1>5, <2>1
  <2>3. IsFirst(Equals, s + 1, e)
    BY <1>3 DEF IsFirst
  <2>4. s + 1 \in Nat /\ j - 1 \in Nat
    BY <1>1, <1>5
  <2> QED
    BY <1>5, <1>9, <2>2, <2>3, <2>4, FirstIs DEF EqualsAt
<1>12. HasKeyword
  BY <1>1, <1>5, <1>11 DEF HasKeyword
<1>13. ~Occurs(Raw, KeywordRead)
  <2>1. e \in (s + 2)..Len(payload)
    BY <1>1, <1>5
  <2>2. Len(KeywordRead) = e - 1 - s
        /\ \A i \in 1..(e - 1 - s) : KeywordRead[i] = payload[s + i]
    BY <1>5, <1>11, <2>1, KeywordReadIs DEF c
  <2>3. \A i \in 1..(e - 1 - s) : s + i \in (s + 1)..(e - 1)
    BY <1>1, <1>5, <2>1
  <2> QED
    BY <1>3, <2>2, <2>3 DEF Occurs
<1> QED
  BY <1>9, <1>10, <1>12, <1>13 DEF Accepts

(* What is accepted is a record.                                           *)
LEMMA AcceptedIsRecord ==
  ASSUME TextType, stage = "parsing", Accepts
  PROVE  RecordEnd \in (cursor + 1)..Len(payload) /\ IsRecord(cursor + 1, RecordEnd)
<1> DEFINE c == cursor
           s == LengthEnd
           r == RecordEnd
           e == EqualsAt
<1>1. c \in Nat /\ payload \in Seq(Byte) /\ Len(payload) \in Nat
  BY DEF TextType
<1>2. /\ s # 0 /\ AllDigits(LengthText) /\ Number(LengthText) \in 0..USIZE_MAX
      /\ r = c + Number(LengthText) /\ r <= Len(payload) /\ r > c /\ payload[r] = Newline
      /\ e > s + 1 /\ ~Occurs(Raw, KeywordRead)
  BY DEF Accepts, Framed, HasLength, NewlineTerminated, HasKeyword, RecordEnd
<1>3. r \in (c + 1)..Len(payload)
  <2> HIDE DEF r, c
  <2> QED
    BY <1>1, <1>2, LengthAssumption
<1>4. s \in (c + 1)..Len(payload) /\ payload[s] = Space
  <2>1. c + 1 \in Nat \ {0}
    BY <1>1
  <2> QED
    BY <1>1, <1>2, <2>1, FirstFound DEF LengthEnd, IsFirst
<1>5. /\ LengthText = SubSeq(payload, c + 1, s - 1)
      /\ LengthText \in Seq(Byte) /\ Len(LengthText) = s - 1 - c
      /\ \A i \in 1..(s - 1 - c) : LengthText[i] = payload[c + i]
  BY <1>4, LengthTextIs
<1>6. s <= r - 1
  BY NewlineIsBehindTheLength DEF SlicesStayInside, Accepts
<1>7. e \in (s + 1)..(r - 1) /\ IsFirst(Equals, s + 1, e)
  <2>1. e # 0
    <3> HIDE DEF c, s, e
    <3> QED
      BY <1>1, <1>2, <1>4
  <2>2. s + 1 \in Nat \ {0} /\ r - 1 \in Nat
    <3> HIDE DEF c, s, r
    <3> QED
      BY <1>1, <1>3, <1>4
  <2> QED
    BY <2>1, <2>2, FirstFound DEF EqualsAt
<1> HIDE DEF c, s, r, e
<1>8. s > c + 1
  <2>1. Len(LengthText) # 0
    BY <1>2, <1>5, EmptySeq DEF AllDigits
  <2> QED
    BY <1>1, <1>4, <1>5, <2>1
<1>9. \A i \in (c + 1)..(s - 1) : payload[i] \in Digit
  <2>1. ASSUME NEW i \in (c + 1)..(s - 1) PROVE payload[i] \in Digit
    <3>1. i - c \in 1..(s - 1 - c) /\ c + (i - c) = i
      BY <1>1, <1>4
    <3> QED
      BY <1>2, <1>5, <3>1 DEF AllDigits
  <2> QED
    BY <2>1
<1>10. e \in (s + 2)..r /\ e \in (s + 2)..Len(payload) /\ payload[e] = Equals
  BY <1>1, <1>2, <1>3, <1>4, <1>7 DEF IsFirst
<1>11. ASSUME NEW i \in (s + 1)..(e - 1) PROVE payload[i] \notin {Equals, Raw}
  <2>1. payload[i] # Equals
    BY <1>7 DEF IsFirst
  <2>2. Len(KeywordRead) = e - 1 - s
        /\ \A k \in 1..(e - 1 - s) : KeywordRead[k] = payload[s + k]
    BY <1>4, <1>10, KeywordReadIs DEF c, s, e
  <2>3. i - s \in 1..(e - 1 - s) /\ s + (i - s) = i
    BY <1>1, <1>4, <1>10
  <2>4. payload[i] # Raw
    BY <1>2, <2>2, <2>3 DEF Occurs
  <2> QED
    BY <2>1, <2>4
<1>12. Number(SubSeq(payload, c + 1, s - 1)) = r - (c + 1) + 1
  BY <1>1, <1>2, <1>3, <1>5, LengthAssumption
<1>13. s \in (c + 1)..r
  BY <1>1, <1>3, <1>4, <1>6
<1>14. IsRecord(c + 1, r)
  <2>1. \E k \in (s + 2)..r :
          /\ payload[k] = Equals
          /\ \A i \in (s + 1)..(k - 1) : payload[i] \notin {Equals, Raw}
    BY <1>10, <1>11
  <2> QED
    BY <1>2, <1>4, <1>8, <1>9, <1>12, <1>13, <2>1 DEF IsRecord
<1> QED
  BY <1>3, <1>14 DEF c, r
-----------------------------------------------------------------------------
(* A record that was written is read as it was.                            *)

(* It can be written, and nothing in its keyword stops the parser.         *)
Proper(w) ==
  /\ w \in WrittenRecord /\ w.len \in 1..USIZE_MAX
  /\ w.len = Len(Decimal(w.len)) + Len(w.keyword) + Len(w.value) + 3
  /\ w.keyword # <<>> /\ \A i \in 1..Len(w.keyword) : w.keyword[i] \notin {Equals, Raw}

(* It is in a text, behind the first c bytes.                              *)
Stands(text, c, w) ==
  LET digits == Decimal(w.len)
      d      == Len(Decimal(w.len))
      k      == Len(w.keyword)
  IN  /\ c + w.len <= Len(text)
      /\ \A i \in 1..d : text[c + i] = digits[i]
      /\ text[c + d + 1] = Space
      /\ \A i \in 1..k : text[c + d + 1 + i] = w.keyword[i]
      /\ text[c + d + k + 2] = Equals
      /\ \A i \in 1..Len(w.value) : text[c + d + k + 2 + i] = w.value[i]
      /\ text[c + w.len] = Newline

LEMMA ReadsRecord ==
  ASSUME TextType, Len(payload) <= USIZE_MAX, NEW w, Proper(w), Stands(payload, cursor, w)
  PROVE  RecordEnd = cursor + w.len /\ KeywordRead = w.keyword /\ ValueRead = w.value
<1> DEFINE c == cursor
           d == Len(Decimal(w.len))
           k == Len(w.keyword)
           v == Len(w.value)
           s == c + d + 1
           e == c + d + k + 2
           r == c + w.len
<1>1. c \in Nat /\ payload \in Seq(Byte) /\ Len(payload) \in Nat /\ USIZE_MAX \in Nat
  BY LengthAssumption DEF TextType
<1>2. /\ w.keyword \in Seq(Byte) /\ w.value \in Seq(Byte) /\ w.len \in 1..USIZE_MAX
      /\ k \in Nat \ {0} /\ v \in Nat /\ w.len = d + k + v + 3
      /\ \A i \in 1..k : w.keyword[i] \notin {Equals, Raw}
  BY EmptySeq DEF Proper, WrittenRecord
<1>3. Decimal(w.len) \in Seq(Byte) /\ d = Digits(w.len) /\ d \in Nat
  BY <1>2, DecimalIsText
<1>4. /\ r <= Len(payload) /\ \A i \in 1..d : payload[c + i] = Decimal(w.len)[i]
      /\ payload[s] = Space /\ \A i \in 1..k : payload[s + i] = w.keyword[i]
      /\ payload[e] = Equals /\ \A i \in 1..v : payload[e + i] = w.value[i]
      /\ payload[r] = Newline
  BY DEF Stands
<1> DEFINE n == w.len
<1> HIDE DEF c, d, k, v
<1>n. n \in Nat \ {0} /\ n = d + k + v + 3 /\ s = c + d + 1 /\ e = c + d + k + 2 /\ r = c + n
  <2>1. n \in 1..USIZE_MAX /\ n = d + k + v + 3
    BY <1>2
  <2> HIDE DEF n
  <2>2. n \in Nat \ {0}
    BY <1>1, <2>1
  <2> QED
    BY <2>1, <2>2 DEF n
<1> HIDE DEF s, e, r, n
<1>5. /\ s \in Nat /\ e \in Nat /\ r \in Nat
      /\ s - 1 - c = d /\ e = s + k + 1 /\ r = e + v + 1
      /\ s \in (c + 1)..Len(payload)
      /\ e \in (s + 2)..Len(payload) /\ e \in (s + 1)..(r - 1)
      /\ r \in 1..Len(payload)
  <2>1. r <= Len(payload) /\ k \in Nat \ {0} /\ v \in Nat /\ d \in Nat /\ c \in Nat
        /\ Len(payload) \in Nat
    BY <1>1, <1>2, <1>3, <1>4
  <2>2. s \in Nat /\ e \in Nat /\ r \in Nat /\ s - 1 - c = d /\ e = s + k + 1 /\ r = e + v + 1
    BY <1>n, <2>1
  <2> QED
    BY <2>1, <2>2
<1>6. \A i \in (c + 1)..(s - 1) : payload[i] \in Digit
  <2>1. ASSUME NEW i \in (c + 1)..(s - 1) PROVE payload[i] \in Digit
    <3>1. i - c \in 1..d /\ c + (i - c) = i
      BY <1>1, <1>3, <1>5
    <3>2. Decimal(w.len)[i - c] \in Digit
      <4> DEFINE j == i - c
                 p == 10^(Digits(w.len) - j)
      <4>1. j \in 1..Digits(w.len) /\ Decimal(w.len)[j] = (w.len \div p) % 10
        BY <1>3, <3>1 DEF Decimal
      <4>2. ilog10(w.len) \in Exponent /\ Digits(w.len) = ilog10(w.len) + 1
        BY <1>2, LogBounds DEF Digits
      <4>3. Digits(w.len) - j \in Exponent
        <5> HIDE DEF j
        <5> QED
          BY <4>1, <4>2, LengthAssumption DEF Exponent
      <4>4. p \in Nat \ {0}
        BY <4>3, PowersGrow, LengthAssumption DEF Exponent
      <4> HIDE DEF p, j
      <4>5. w.len \div p \in Nat
        BY <1>n, <4>4, DivideTwice DEF n
      <4>6. (w.len \div p) % 10 \in Digit
        BY <4>5 DEF Digit
      <4> QED
        BY <4>1, <4>6 DEF j
    <3> QED
      BY <1>4, <3>1, <3>2
  <2> QED
    BY <2>1
<1>7. LengthEnd = s
  BY <1>4, <1>5, <1>6, LengthEndIs DEF c
<1>8. LengthText = Decimal(w.len)
  <2>1. /\ LengthText \in Seq(Byte) /\ Len(LengthText) = d
        /\ \A i \in 1..d : LengthText[i] = payload[c + i]
    BY <1>5, <1>7, LengthTextIs DEF c
  <2>2. \A i \in 1..d : LengthText[i] = Decimal(w.len)[i]
    BY <1>4, <2>1
  <2>3. Len(Decimal(w.len)) = d
    BY DEF d
  <2> QED
    BY <1>3, <2>1, <2>2, <2>3, SeqEqual
<1>9. RecordEnd = r
  BY <1>2, <1>8, NumberOfDecimal DEF RecordEnd, c, r
<1>10. EqualsAt = e
  <2>1. \A i \in (s + 1)..(e - 1) : i - s \in 1..k /\ s + (i - s) = i
    BY <1>2, <1>5
  <2>2. ASSUME NEW i \in (s + 1)..(e - 1) PROVE payload[i] # Equals
    <3>1. i - s \in 1..k /\ s + (i - s) = i
      BY <2>1
    <3> QED
      BY <1>2, <1>4, <3>1
  <2>3. IsFirst(Equals, s + 1, e)
    BY <1>4, <2>2 DEF IsFirst
  <2>4. s + 1 \in Nat /\ r - 1 \in Nat
    BY <1>5
  <2> QED
    BY <1>5, <1>7, <1>9, <2>3, <2>4, FirstIs DEF EqualsAt
<1>11. KeywordRead = w.keyword
  <2>1. /\ KeywordRead \in Seq(Byte) /\ Len(KeywordRead) = e - 1 - s
        /\ \A i \in 1..(e - 1 - s) : KeywordRead[i] = payload[s + i]
    BY <1>5, <1>7, <1>10, KeywordReadIs DEF c
  <2>2. e - 1 - s = k
    <3>1. e = s + k + 1 /\ s \in Nat /\ k \in Nat
      BY <1>2, <1>5
    <3> QED
      BY <3>1
  <2>3. \A i \in 1..k : KeywordRead[i] = w.keyword[i]
    BY <1>4, <2>1, <2>2
  <2>4. /\ KeywordRead \in Seq(Byte) /\ w.keyword \in Seq(Byte)
        /\ Len(KeywordRead) = Len(w.keyword)
        /\ \A i \in 1..Len(KeywordRead) : KeywordRead[i] = w.keyword[i]
    BY <1>2, <2>1, <2>2, <2>3 DEF k
  <2> QED
    BY <2>4, SeqEqual
<1>12. ValueRead = w.value
  <2>1. ValueRead = SubSeq(payload, e + 1, r - 1)
    BY <1>9, <1>10 DEF ValueRead
  <2>2. r - 1 - e = v /\ \A i \in 1..v : e + i \in 1..Len(payload)
    <3>1. e \in Nat /\ v \in Nat /\ r = e + v + 1 /\ r \in 1..Len(payload) /\ Len(payload) \in Nat
      BY <1>1, <1>2, <1>5
    <3> QED
      BY <3>1
  <2>3. /\ SubSeq(payload, e + 1, r - 1) \in Seq(Byte) /\ Len(SubSeq(payload, e + 1, r - 1)) = v
        /\ \A i \in 1..v : SubSeq(payload, e + 1, r - 1)[i] = payload[e + i]
    BY <1>1, <1>2, <1>5, <2>2
  <2>4. \A i \in 1..v : ValueRead[i] = w.value[i]
    BY <1>4, <2>1, <2>3
  <2>5. Len(w.value) = v
    BY DEF v
  <2> QED
    BY <1>2, <2>1, <2>3, <2>4, <2>5, SeqEqual
<1> QED
  BY <1>9, <1>11, <1>12 DEF r, c
LEMMA Joined ==
  \A s \in Seq(Byte), t \in Seq(Byte) :
    /\ s \o t \in Seq(Byte) /\ Len(s \o t) = Len(s) + Len(t)
    /\ \A i \in 1..Len(s) : (s \o t)[i] = s[i]
    /\ \A i \in 1..Len(t) : (s \o t)[Len(s) + i] = t[i]
OBVIOUS

(* What is appended stands behind what was there.                          *)
Appended(after, before, digits, word, value) ==
  LET c == Len(before)
      d == Len(digits)
      k == Len(word)
      v == Len(value)
  IN  /\ after \in Seq(Byte) /\ Len(after) = c + d + k + v + 3
      /\ \A i \in 1..c : after[i] = before[i]
      /\ \A i \in 1..d : after[c + i] = digits[i]
      /\ after[c + d + 1] = Space
      /\ \A i \in 1..k : after[c + d + 1 + i] = word[i]
      /\ after[c + d + k + 2] = Equals
      /\ \A i \in 1..v : after[c + d + k + 2 + i] = value[i]
      /\ after[c + d + k + v + 3] = Newline

LEMMA RecordTextIs ==
  ASSUME NEW digits \in Seq(Byte), NEW word \in Seq(Byte), NEW value \in Seq(Byte),
         NEW before \in Seq(Byte)
  PROVE  Appended(before \o (digits \o <<Space>> \o word \o <<Equals>> \o value \o <<Newline>>),
                  before, digits, word, value)
<1> DEFINE a1 == digits \o <<Space>>
           a2 == a1 \o word
           a3 == a2 \o <<Equals>>
           a4 == a3 \o value
           a5 == a4 \o <<Newline>>
           a6 == before \o a5
           c  == Len(before)
           d  == Len(digits)
           k  == Len(word)
           v  == Len(value)
<1>1. <<Space>> \in Seq(Byte) /\ <<Equals>> \in Seq(Byte) /\ <<Newline>> \in Seq(Byte)
  BY DEF Space, Equals, Newline, Byte
<1>2. /\ c \in Nat /\ d \in Nat /\ k \in Nat /\ v \in Nat
      /\ Len(before) = c /\ Len(digits) = d /\ Len(word) = k /\ Len(value) = v
  OBVIOUS
<1>l. Len(<<Space>>) = 1 /\ Len(<<Equals>>) = 1 /\ Len(<<Newline>>) = 1
  OBVIOUS
<1> HIDE DEF c, d, k, v
<1>3. a1 \in Seq(Byte) /\ Len(a1) = d + 1
      /\ (\A i \in 1..d : a1[i] = digits[i]) /\ a1[d + 1] = Space
  <2>1. /\ a1 \in Seq(Byte) /\ Len(a1) = Len(digits) + Len(<<Space>>)
        /\ \A i \in 1..Len(digits) : a1[i] = digits[i]
        /\ \A i \in 1..Len(<<Space>>) : a1[Len(digits) + i] = <<Space>>[i]
    BY <1>1, Joined
  <2> HIDE DEF a1
  <2> QED
    BY <1>1, <1>2, <1>l, <2>1
<1> HIDE DEF a1
<1>4. a2 \in Seq(Byte) /\ Len(a2) = d + 1 + k
      /\ (\A i \in 1..(d + 1) : a2[i] = a1[i]) /\ \A i \in 1..k : a2[d + 1 + i] = word[i]
  <2>1. /\ a2 \in Seq(Byte) /\ Len(a2) = Len(a1) + Len(word)
        /\ \A i \in 1..Len(a1) : a2[i] = a1[i]
        /\ \A i \in 1..Len(word) : a2[Len(a1) + i] = word[i]
    BY <1>3, Joined
  <2> HIDE DEF a2
  <2> QED
    BY <1>3, <1>2, <1>l, <2>1
<1> HIDE DEF a2
<1>5. a3 \in Seq(Byte) /\ Len(a3) = d + k + 2
      /\ (\A i \in 1..(d + 1 + k) : a3[i] = a2[i]) /\ a3[d + k + 2] = Equals
  <2>1. /\ a3 \in Seq(Byte) /\ Len(a3) = Len(a2) + Len(<<Equals>>)
        /\ \A i \in 1..Len(a2) : a3[i] = a2[i]
        /\ \A i \in 1..Len(<<Equals>>) : a3[Len(a2) + i] = <<Equals>>[i]
    BY <1>1, <1>4, Joined
  <2> HIDE DEF a3
  <2> QED
    BY <1>1, <1>4, <1>2, <1>l, <2>1
<1> HIDE DEF a3
<1>6. a4 \in Seq(Byte) /\ Len(a4) = d + k + 2 + v
      /\ (\A i \in 1..(d + k + 2) : a4[i] = a3[i]) /\ \A i \in 1..v : a4[d + k + 2 + i] = value[i]
  <2>1. /\ a4 \in Seq(Byte) /\ Len(a4) = Len(a3) + Len(value)
        /\ \A i \in 1..Len(a3) : a4[i] = a3[i]
        /\ \A i \in 1..Len(value) : a4[Len(a3) + i] = value[i]
    BY <1>5, Joined
  <2> HIDE DEF a4
  <2> QED
    BY <1>5, <1>2, <1>l, <2>1
<1> HIDE DEF a4
<1>7. a5 \in Seq(Byte) /\ Len(a5) = d + k + v + 3
      /\ (\A i \in 1..(d + k + 2 + v) : a5[i] = a4[i]) /\ a5[d + k + v + 3] = Newline
  <2>1. /\ a5 \in Seq(Byte) /\ Len(a5) = Len(a4) + Len(<<Newline>>)
        /\ \A i \in 1..Len(a4) : a5[i] = a4[i]
        /\ \A i \in 1..Len(<<Newline>>) : a5[Len(a4) + i] = <<Newline>>[i]
    BY <1>1, <1>6, Joined
  <2> HIDE DEF a5
  <2> QED
    BY <1>1, <1>6, <1>2, <1>l, <2>1
<1> HIDE DEF a5
<1>8. a6 \in Seq(Byte) /\ Len(a6) = c + d + k + v + 3
      /\ (\A i \in 1..c : a6[i] = before[i]) /\ \A i \in 1..(d + k + v + 3) : a6[c + i] = a5[i]
  <2>1. /\ a6 \in Seq(Byte) /\ Len(a6) = Len(before) + Len(a5)
        /\ \A i \in 1..Len(before) : a6[i] = before[i]
        /\ \A i \in 1..Len(a5) : a6[Len(before) + i] = a5[i]
    BY <1>7, Joined
  <2> HIDE DEF a6
  <2> QED
    BY <1>7, <1>2, <1>l, <2>1
<1> HIDE DEF a6
<1>9. ASSUME NEW i \in 1..d PROVE a6[c + i] = digits[i]
  <2>1. i \in 1..(d + k + v + 3) /\ i \in 1..(d + k + 2 + v) /\ i \in 1..(d + k + 2)
        /\ i \in 1..(d + 1 + k) /\ i \in 1..(d + 1)
    BY <1>2
  <2> QED
    BY SMTT(30), <1>3, <1>4, <1>5, <1>6, <1>7, <1>8, <2>1
<1>10. a6[c + d + 1] = Space
  <2>1. d + 1 \in 1..(d + k + v + 3) /\ d + 1 \in 1..(d + k + 2 + v) /\ d + 1 \in 1..(d + k + 2)
        /\ d + 1 \in 1..(d + 1 + k) /\ d + 1 \in 1..(d + 1) /\ c + d + 1 = c + (d + 1)
    BY <1>2
  <2> QED
    BY SMTT(30), <1>3, <1>4, <1>5, <1>6, <1>7, <1>8, <2>1
<1>11. ASSUME NEW i \in 1..k PROVE a6[c + d + 1 + i] = word[i]
  <2> DEFINE m == d + 1 + i
  <2>1. m \in 1..(d + k + v + 3) /\ m \in 1..(d + k + 2 + v) /\ m \in 1..(d + k + 2)
        /\ m \in 1..(d + 1 + k) /\ c + d + 1 + i = c + m
    BY <1>2
  <2>2. a6[c + m] = a2[m]
    <3> HIDE DEF m
    <3> QED
      BY <1>5, <1>6, <1>7, <1>8, <2>1
  <2>3. a2[m] = word[i]
    BY <1>4
  <2> QED
    BY <2>1, <2>2, <2>3
<1>12. a6[c + d + k + 2] = Equals
  <2>1. d + k + 2 \in 1..(d + k + v + 3) /\ d + k + 2 \in 1..(d + k + 2 + v)
        /\ d + k + 2 \in 1..(d + k + 2) /\ c + d + k + 2 = c + (d + k + 2)
    BY <1>2
  <2> QED
    BY <1>5, <1>6, <1>7, <1>8, <2>1
<1>13. ASSUME NEW i \in 1..v PROVE a6[c + d + k + 2 + i] = value[i]
  <2> DEFINE m == d + k + 2 + i
  <2>1. m \in 1..(d + k + v + 3) /\ m \in 1..(d + k + 2 + v) /\ c + d + k + 2 + i = c + m
    BY <1>2
  <2>2. a6[c + m] = a4[m]
    <3> HIDE DEF m
    <3> QED
      BY <1>7, <1>8, <2>1
  <2>3. a4[m] = value[i]
    BY <1>6
  <2> QED
    BY <2>1, <2>2, <2>3
<1>14. a6[c + d + k + v + 3] = Newline
  <2>1. d + k + v + 3 \in 1..(d + k + v + 3) /\ c + d + k + v + 3 = c + (d + k + v + 3)
    BY <1>2
  <2> QED
    BY <1>7, <1>8, <2>1
<1> QED
  <2>1. Appended(a6, before, digits, word, value)
    BY <1>8, <1>9, <1>10, <1>11, <1>12, <1>13, <1>14 DEF c, d, k, v, Appended
  <2> QED
    BY <2>1, Zenon DEF a1, a2, a3, a4, a5, a6

-----------------------------------------------------------------------------
(* What the parser has taken of the payload, and how it goes on.           *)

ReadRecord == [keyword : Seq(Byte), value : Seq(Byte)]

ParseInv ==
  /\ Len(payload) <= USIZE_MAX /\ cursor <= Len(payload)
  /\ records \in Seq(ReadRecord) /\ damage \in Nat
  /\ stage = "writing" => cursor = 0 /\ records = <<>>
  /\ stage = "parsing" => payload # <<>> /\ (1 \in Good <=> cursor + 1 \in Good)
  /\ stage \notin {"writing", "parsing"} => (stage = "ok" <=> payload # <<>> /\ 1 \in Good)

(* The records written fill the payload, one after the other, and those    *)
(* parsed are the first of them.                                           *)
Laid(spot) ==
  /\ spot[0] = 0 /\ spot[Len(written)] = Len(payload)
  /\ \A n \in 1..Len(written) :
       spot[n] = spot[n - 1] + written[n].len /\ Stands(payload, spot[n - 1], written[n])
  /\ \A m, n \in 0..Len(written) : m < n => spot[m] < spot[n]

Taken(spot) ==
  /\ Len(records) <= Len(written) /\ cursor = spot[Len(records)]
  /\ \A n \in 1..Len(records) :
       records[n] = [keyword |-> written[n].keyword, value |-> written[n].value]

KeptInv ==
  /\ \A n \in 1..Len(written) : Proper(written[n])
  /\ damage = 0 /\ (written # <<>> \/ payload = <<>>) =>
       \E spot \in [0..Len(written) -> Nat] : Laid(spot) /\ Taken(spot)
  /\ stage = "ok" => cursor = Len(payload)

LEMMA KeywordsStopNothing ==
  ASSUME NEW keyword \in Keywords, IsKeyword(keyword)
  PROVE  /\ KeywordText(keyword) # <<>>
         /\ \A i \in 1..Len(KeywordText(keyword)) : KeywordText(keyword)[i] \notin {Equals, Raw}
<1> DEFINE space == keyword.namespace
<1>1. /\ space \in Seq(Byte \ {Raw}) /\ keyword.name \in Seq(Seq(Byte \ {Raw}))
      /\ space # <<>> /\ ~Occurs(Equals, space)
      /\ \A n \in 1..Len(keyword.name) : ~Occurs(Equals, keyword.name[n])
  BY TextAssumption DEF IsKeyword
<1>2. Len(space) \in Nat \ {0} /\ \A i \in 1..Len(space) : space[i] \notin {Equals, Raw}
  BY <1>1, EmptySeq DEF Occurs
<1>3. CASE keyword.name = <<>>
  BY <1>1, <1>2, <1>3 DEF KeywordText
<1>4. CASE keyword.name # <<>>
  <2> DEFINE name == keyword.name[1]
             front == space \o <<Dot>>
             T == Byte \ {Raw}
  <2>1. 1 \in 1..Len(keyword.name) /\ name \in Seq(T)
    BY <1>1, <1>4, EmptySeq
  <2>2. \A i \in 1..Len(name) : name[i] \notin {Equals, Raw}
    BY <1>1, <2>1 DEF Occurs
  <2>3. <<Dot>> \in Seq(T) /\ Len(<<Dot>>) = 1 /\ <<Dot>>[1] \notin {Equals, Raw}
    BY DEF Dot, Byte, Raw, Equals
  <2>4. KeywordText(keyword) = front \o name
    BY <1>4 DEF KeywordText
  <2> HIDE DEF name, space
  <2>5. /\ front \in Seq(T) /\ Len(front) = Len(space) + 1
        /\ \A i \in 1..Len(front) : front[i] \notin {Equals, Raw}
    <3>1. /\ front \in Seq(T) /\ Len(front) = Len(space) + Len(<<Dot>>)
          /\ \A i \in 1..(Len(space) + Len(<<Dot>>)) :
               front[i] = IF i <= Len(space) THEN space[i] ELSE <<Dot>>[i - Len(space)]
      BY <1>1, <2>3, ConcatProperties
    <3> HIDE DEF front
    <3>2. ASSUME NEW i \in 1..Len(front) PROVE front[i] \notin {Equals, Raw}
      <4>1. CASE i <= Len(space)
        <5>1. i \in 1..Len(space) /\ front[i] = space[i]
          BY <1>2, <2>3, <3>1, <4>1
        <5> QED
          BY <1>2, <5>1
      <4>2. CASE ~(i <= Len(space))
        <5>1. i - Len(space) = 1 /\ front[i] = <<Dot>>[i - Len(space)]
          BY <1>2, <2>3, <3>1, <4>2
        <5> QED
          BY <2>3, <5>1
      <4> QED
        BY <4>1, <4>2
    <3> QED
      BY <2>3, <3>1, <3>2
  <2> HIDE DEF front
  <2> DEFINE text == front \o name
  <2> HIDE DEF T
  <2>6. /\ Len(text) = Len(front) + Len(name) /\ Len(front) \in Nat \ {0} /\ Len(name) \in Nat
        /\ text \in Seq(T)
        /\ \A i \in 1..(Len(front) + Len(name)) :
             text[i] = IF i <= Len(front) THEN front[i] ELSE name[i - Len(front)]
    <3>1. front \in Seq(T) /\ name \in Seq(T)
      BY <2>1, <2>5
    <3>2. /\ Len(text) = Len(front) + Len(name) /\ text \in Seq(T)
          /\ \A i \in 1..(Len(front) + Len(name)) :
               text[i] = IF i <= Len(front) THEN front[i] ELSE name[i - Len(front)]
      BY <3>1, ConcatProperties
    <3>3. Len(front) \in Nat \ {0} /\ Len(name) \in Nat
      BY <1>2, <2>5, <3>1
    <3> QED
      BY <3>2, <3>3
  <2> HIDE DEF text
  <2>7. ASSUME NEW i \in 1..Len(text) PROVE text[i] \notin {Equals, Raw}
    <3>1. CASE i <= Len(front)
      <4>1. i \in 1..Len(front) /\ text[i] = front[i]
        BY <2>6, <3>1
      <4> QED
        BY <2>5, <4>1
    <3>2. CASE ~(i <= Len(front))
      <4>1. i - Len(front) \in 1..Len(name) /\ text[i] = name[i - Len(front)]
        BY <2>6, <3>2
      <4> QED
        BY <2>2, <4>1
    <3> QED
      BY <3>1, <3>2
  <2>8. text # <<>>
    BY <2>6, EmptySeq
  <2> QED
    BY <2>4, <2>7, <2>8 DEF text
<1> QED
  BY <1>3, <1>4

(* What append_pax_record adds.                                            *)
LEMMA AppendedText ==
  ASSUME TextType, LengthsAreExact, NEW keyword \in Keywords, NEW value \in Values,
         AppendPaxRecord(keyword, value)
  PROVE  LET w == written'[Len(written) + 1]
         IN  /\ Len(written') = Len(written) + 1
             /\ \A n \in 1..Len(written) : written'[n] = written[n]
             /\ Proper(w) /\ w.len = record_len(Len(KeywordText(keyword)), Len(value))
             /\ Len(payload') = Len(payload) + w.len
             /\ \A i \in 1..Len(payload) : payload'[i] = payload[i]
             /\ Stands(payload', Len(payload), w)
<1> DEFINE word == KeywordText(keyword)
           len == record_len(Len(word), Len(value))
           item == [keyword |-> word, value |-> value, len |-> len]
<1>1. /\ Len(payload) + len <= USIZE_MAX
      /\ payload' = payload \o RecordText(keyword, value, len)
      /\ written' = Append(written, item)
      /\ LengthFits(Len(word), Len(value)) /\ IsKeyword(keyword)
  BY DEF AppendPaxRecord
<1>2. /\ word \in Seq(Byte) /\ value \in Seq(Byte) /\ written \in Seq(WrittenRecord)
      /\ payload \in Seq(Byte) /\ Len(payload) \in Nat
      /\ word # <<>> /\ \A i \in 1..Len(word) : word[i] \notin {Equals, Raw}
  BY <1>1, KeywordsAreText, KeywordsStopNothing, TextAssumption DEF TextType
<1>3. RecordText(keyword, value, len) =
        Decimal(len) \o <<Space>> \o word \o <<Equals>> \o value \o <<Newline>>
  BY DEF RecordText
<1> HIDE DEF word
<1>4. len \in Nat \ {0}
  <2>1. Len(word) \in Nat /\ Len(value) \in Nat
    BY <1>2
  <2> QED
    BY <1>1, <2>1, LengthsAreNumbers
<1> HIDE DEF len
<1>5. len \in 1..USIZE_MAX
  BY <1>1, <1>2, <1>4, LengthAssumption
<1>6. LengthsAreExact'
  BY AppendedLengthIsExact
<1>7. item \in WrittenRecord /\ item.len = len /\ item.keyword = word /\ item.value = value
  BY <1>2, <1>4 DEF WrittenRecord
<1> HIDE DEF item
<1>8. /\ Len(written) \in Nat /\ Len(written') = Len(written) + 1
      /\ written'[Len(written) + 1] = item
      /\ \A n \in 1..Len(written) : written'[n] = written[n]
  BY <1>1, <1>2, <1>7
<1>9. len = Len(Decimal(len)) + Len(word) + Len(value) + 3
  <2>1. Len(written) + 1 \in 1..Len(written')
    BY <1>8
  <2>2. item.len = Len(Decimal(item.len)) + Len(item.keyword) + Len(item.value) + 3
    BY <1>6, <1>8, <2>1 DEF LengthsAreExact
  <2> QED
    BY <1>7, <2>2
<1>10. Decimal(len) \in Seq(Byte) /\ Len(Decimal(len)) \in Nat
  BY <1>5, DecimalIsText
<1>11. /\ Len(payload') = Len(payload) + Len(Decimal(len)) + Len(word) + Len(value) + 3
       /\ \A i \in 1..Len(payload) : payload'[i] = payload[i]
       /\ \A i \in 1..Len(Decimal(len)) : payload'[Len(payload) + i] = Decimal(len)[i]
       /\ payload'[Len(payload) + Len(Decimal(len)) + 1] = Space
       /\ \A i \in 1..Len(word) : payload'[Len(payload) + Len(Decimal(len)) + 1 + i] = word[i]
       /\ payload'[Len(payload) + Len(Decimal(len)) + Len(word) + 2] = Equals
       /\ \A i \in 1..Len(value) :
            payload'[Len(payload) + Len(Decimal(len)) + Len(word) + 2 + i] = value[i]
       /\ payload'[Len(payload) + Len(Decimal(len)) + Len(word) + Len(value) + 3] = Newline
  <2> DEFINE digits == Decimal(len)
             after == payload \o (digits \o <<Space>> \o word \o <<Equals>> \o value \o <<Newline>>)
  <2>1. digits \in Seq(Byte) /\ word \in Seq(Byte) /\ value \in Seq(Byte) /\ payload \in Seq(Byte)
    BY <1>2, <1>10
  <2>2. payload' = after
    BY <1>1, <1>3
  <2> HIDE DEF digits
  <2>3. Appended(after, payload, digits, word, value)
    BY <2>1, RecordTextIs
  <2> HIDE DEF after
  <2> QED
    BY <2>2, <2>3 DEF digits, Appended
<1>12. /\ Len(payload') = Len(payload) + len
       /\ payload'[Len(payload) + len] = Newline
  <2> DEFINE c == Len(payload)
             d == Len(Decimal(len))
             k == Len(word)
             v == Len(value)
  <2>1. c \in Nat /\ d \in Nat /\ k \in Nat /\ v \in Nat
    BY <1>2, <1>10
  <2>2. len = d + k + v + 3 /\ Len(payload') = c + d + k + v + 3
        /\ payload'[c + d + k + v + 3] = Newline
    BY <1>9, <1>11
  <2> HIDE DEF c, d, k, v
  <2>3. c + len = c + d + k + v + 3
    BY <2>1, <2>2
  <2> QED
    BY <2>2, <2>3 DEF c
<1>13. Proper(item)
  BY <1>2, <1>5, <1>7, <1>9 DEF Proper
<1>14. /\ Len(payload) + item.len <= Len(payload')
       /\ \A i \in 1..Len(Decimal(item.len)) : payload'[Len(payload) + i] = Decimal(item.len)[i]
       /\ payload'[Len(payload) + Len(Decimal(item.len)) + 1] = Space
       /\ \A i \in 1..Len(item.keyword) :
            payload'[Len(payload) + Len(Decimal(item.len)) + 1 + i] = item.keyword[i]
       /\ payload'[Len(payload) + Len(Decimal(item.len)) + Len(item.keyword) + 2] = Equals
       /\ \A i \in 1..Len(item.value) :
            payload'[Len(payload) + Len(Decimal(item.len)) + Len(item.keyword) + 2 + i] = item.value[i]
       /\ payload'[Len(payload) + item.len] = Newline
  <2>1. Len(payload) + len <= Len(payload')
    BY <1>2, <1>5, <1>12
  <2> QED
    BY <1>7, <1>11, <1>12, <2>1
<1> DEFINE w == written'[Len(written) + 1]
<1>15. w = item
  BY <1>8
<1>16. Stands(payload', Len(payload), item)
  BY <1>14 DEF Stands
<1>17. Len(payload') = Len(payload) + item.len
  BY <1>7, <1>12
<1>18. item.len = record_len(Len(KeywordText(keyword)), Len(value))
  BY <1>7 DEF len, word
<1> HIDE DEF w
<1> QED
  BY <1>8, <1>11, <1>13, <1>15, <1>16, <1>17, <1>18 DEF w

(* What is accepted is cut from the payload.                               *)
LEMMA AcceptedText ==
  ASSUME TextType, stage = "parsing", Accepts
  PROVE  KeywordRead \in Seq(Byte) /\ ValueRead \in Seq(Byte)
<1>1. /\ payload \in Seq(Byte) /\ cursor \in Nat /\ Len(payload) \in Nat
      /\ LengthEnd # 0 /\ EqualsAt > LengthEnd + 1 /\ RecordEnd <= Len(payload)
  BY DEF TextType, Accepts, Framed, HasLength, HasKeyword
<1>2. RecordEnd \in (cursor + 1)..Len(payload)
  BY AcceptedIsRecord
<1>3. LengthEnd \in (cursor + 1)..Len(payload)
  <2>1. cursor + 1 \in Nat \ {0}
    BY <1>1
  <2> QED
    BY <1>1, <2>1, FirstFound DEF LengthEnd
<1>4. EqualsAt \in (LengthEnd + 1)..(RecordEnd - 1)
  <2>1. LengthEnd + 1 \in Nat \ {0} /\ RecordEnd - 1 \in Nat
    BY <1>1, <1>2, <1>3
  <2>2. EqualsAt # 0
    <3>1. EqualsAt \in Int => EqualsAt > 0
      BY <1>1, <1>3
    <3> QED
      BY <1>1, <1>3
  <2> QED
    BY <2>1, <2>2, FirstFound DEF EqualsAt
<1> DEFINE l == LengthEnd
           e == EqualsAt
           r == RecordEnd
<1>5. KeywordRead = SubSeq(payload, l + 1, e - 1) /\ ValueRead = SubSeq(payload, e + 1, r - 1)
  BY DEF KeywordRead, ValueRead
<1>6. /\ l \in (cursor + 1)..Len(payload) /\ r \in (cursor + 1)..Len(payload)
      /\ e \in (l + 1)..(r - 1)
  BY <1>2, <1>3, <1>4
<1> HIDE DEF l, e, r
<1>7. /\ \A i \in (l + 1)..(e - 1) : i \in 1..Len(payload) /\ payload[i] \in Byte
      /\ \A i \in (e + 1)..(r - 1) : i \in 1..Len(payload) /\ payload[i] \in Byte
  BY <1>1, <1>6
<1>8. SubSeq(payload, l + 1, e - 1) \in Seq(Byte) /\ SubSeq(payload, e + 1, r - 1) \in Seq(Byte)
  BY <1>1, <1>6, <1>7
<1> QED
  BY <1>5, <1>8

LEMMA GoodStays ==
  ASSUME payload' = payload
  PROVE  Good' = Good
BY DEF Good, Closed, IsRecord

LEMMA ParseInitially == TextInit => ParseInv
<1> SUFFICES ASSUME TextInit PROVE ParseInv
  OBVIOUS
<1>1. Len(payload) <= USIZE_MAX /\ Len(payload) \in Nat
  <2>1. Len(<<>>) = 0 /\ <<>> \in Seq(Byte)
    OBVIOUS
  <2>2. payload \in Foreign \cup {<<>>}
    BY DEF TextInit
  <2> QED
    BY <2>1, <2>2, TextAssumption, LengthAssumption
<1>2. <<>> \in Seq(ReadRecord)
  OBVIOUS
<1> QED
  BY <1>1, <1>2 DEF TextInit, ParseInv

LEMMA ParsePreserved ==
  TextType /\ LengthsAreExact /\ ParseInv /\ [TextNext]_textVars => ParseInv'
<1> SUFFICES ASSUME TextType, LengthsAreExact, ParseInv, [TextNext]_textVars
             PROVE  ParseInv'
  OBVIOUS
<1>1. /\ payload \in Seq(Byte) /\ cursor \in Nat /\ Len(payload) \in Nat
      /\ payload' \in Seq(Byte) /\ Len(payload') \in Nat
  BY TextTypePreserved DEF TextType
<1>2. ASSUME NEW keyword \in Keywords, NEW value \in Values, AppendPaxRecord(keyword, value)
      PROVE  ParseInv'
  <2> DEFINE len == record_len(Len(KeywordText(keyword)), Len(value))
             text == RecordText(keyword, value, len)
  <2>1. /\ stage = "writing" /\ stage' = stage /\ Len(payload) + len <= USIZE_MAX
        /\ payload' = payload \o text /\ LengthFits(Len(KeywordText(keyword)), Len(value))
        /\ UNCHANGED <<cursor, records, damage>>
    BY <1>2 DEF AppendPaxRecord
  <2>2. len \in 1..USIZE_MAX /\ Len(payload') = Len(payload) + len
    <3> DEFINE w == written'[Len(written) + 1]
    <3>1. Proper(w) /\ w.len = len /\ Len(payload') = Len(payload) + w.len
      BY <1>2, AppendedText
    <3> HIDE DEF w, len
    <3> QED
      BY <3>1 DEF Proper
  <2> HIDE DEF len
  <2> QED
    BY <1>1, <2>1, <2>2, LengthAssumption DEF ParseInv
<1>3. CASE Damages
  <2>1. /\ stage = "writing" /\ stage' = stage /\ damage' = damage + 1
        /\ UNCHANGED <<cursor, records>> /\ Len(payload') <= Len(payload)
    <3>1. CASE payload' = SubSeq(payload, 1, Len(payload) - 1)
      <4>1. Len(payload) \in Nat \ {0}
        BY <1>1, <1>3 DEF Damages
      <4> QED
        BY <1>1, <1>3, <3>1, <4>1 DEF Damages
    <3>2. CASE \E i \in 1..Len(payload), byte \in Noise : payload' = [payload EXCEPT ![i] = byte]
      <4>1. Len(payload') = Len(payload)
        BY <1>1, <3>2
      <4> QED
        BY <1>1, <1>3, <4>1 DEF Damages
    <3> QED
      BY <1>3, <3>1, <3>2 DEF Damages
  <2> QED
    BY <1>1, <2>1, LengthAssumption DEF ParseInv
<1>4. CASE Arrives
  BY <1>1, <1>4, GoodStays DEF Arrives, ParseInv
<1>5. CASE ParseRecord
  <2>1. /\ stage = "parsing" /\ cursor < Len(payload) /\ UNCHANGED <<payload, damage>>
        /\ Good' = Good /\ Len(payload) <= USIZE_MAX
    BY <1>5, GoodStays DEF ParseRecord, ParseInv
  <2>2. cursor + 1 \in 1..(Len(payload) + 1) /\ cursor + 1 # Len(payload) + 1
    BY <1>1, <2>1
  <2>3. CASE Accepts
    <3>1. RecordEnd \in (cursor + 1)..Len(payload) /\ IsRecord(cursor + 1, RecordEnd)
      BY <2>1, <2>3, AcceptedIsRecord
    <3>2. ASSUME NEW j \in (cursor + 1)..Len(payload), IsRecord(cursor + 1, j)
          PROVE  j = RecordEnd
      BY <2>1, <3>2, RecordIsAccepted
    <3>3. cursor + 1 \in Good <=> RecordEnd + 1 \in Good
      BY <2>2, <3>1, <3>2, GoodIs
    <3>4. /\ stage' = stage /\ cursor' = RecordEnd
          /\ records' = Append(records, [keyword |-> KeywordRead, value |-> ValueRead])
      <4>1. ~(RecordEnd > USIZE_MAX)
        BY <1>1, <2>1, <3>1, LengthAssumption
      <4> QED
        BY <1>5, <2>3, <4>1 DEF ParseRecord, Accepts
    <3>5. records' \in Seq(ReadRecord)
      <4>1. KeywordRead \in Seq(Byte) /\ ValueRead \in Seq(Byte)
        BY <2>1, <2>3, AcceptedText
      <4> QED
        BY <3>4, <4>1 DEF ParseInv, ReadRecord
    <3> QED
      BY <1>1, <2>1, <3>1, <3>3, <3>4, <3>5 DEF ParseInv
  <2>4. CASE ~Accepts
    <3>1. stage' \notin {"writing", "parsing", "ok"} /\ UNCHANGED <<cursor, records>>
      BY <1>5, <2>4 DEF ParseRecord, Accepts, Ends
    <3>2. \A j \in (cursor + 1)..Len(payload) : ~IsRecord(cursor + 1, j)
      BY <2>1, <2>4, RecordIsAccepted
    <3>3. cursor + 1 \notin Good
      BY <2>2, <3>2, GoodIs
    <3> QED
      BY <2>1, <3>1, <3>3 DEF ParseInv
  <2> QED
    BY <2>3, <2>4
<1>6. CASE Parsed
  <2>1. /\ stage = "parsing" /\ stage' = "ok" /\ cursor = Len(payload)
        /\ UNCHANGED <<payload, cursor, records, damage>> /\ Good' = Good
    BY <1>6, GoodStays DEF Parsed
  <2>2. cursor + 1 \in Good
    <3>1. cursor + 1 \in 1..(Len(payload) + 1)
      BY <1>1, <2>1
    <3> QED
      BY <2>1, <3>1, GoodIs
  <2> QED
    BY <2>1, <2>2 DEF ParseInv
<1>7. CASE UNCHANGED textVars
  BY <1>7, GoodStays DEF textVars, ParseInv
<1> QED
  BY <1>2, <1>3, <1>4, <1>5, <1>6, <1>7 DEF TextNext

LEMMA StandsStays ==
  ASSUME NEW before \in Seq(Byte), NEW after \in Seq(Byte), Len(before) <= Len(after),
         \A i \in 1..Len(before) : after[i] = before[i],
         NEW c \in Nat, NEW w, Proper(w), Stands(before, c, w)
  PROVE  Stands(after, c, w)
<1> DEFINE d == Len(Decimal(w.len))
           k == Len(w.keyword)
           v == Len(w.value)
           m == c + w.len
<1>1. /\ k \in Nat /\ v \in Nat /\ w.len \in 1..USIZE_MAX /\ w.len = d + k + v + 3
      /\ Len(before) \in Nat /\ Len(after) \in Nat
  BY DEF Proper, WrittenRecord
<1>2. d \in Nat
  BY <1>1, DecimalIsText
<1>3. m <= Len(before)
  BY DEF Stands
<1>4. w.len \in Nat /\ m \in Nat /\ m = c + d + k + v + 3
  <2>1. w.len \in Nat
    BY <1>1, LengthAssumption
  <2> HIDE DEF d, k, v
  <2> QED
    BY <1>1, <1>2, <2>1
<1> HIDE DEF d, k, v, m
<1>5. m <= Len(after)
  BY <1>1, <1>3, <1>4
<1>6. /\ \A i \in 1..d : c + i \in 1..Len(before)
      /\ c + d + 1 \in 1..Len(before)
      /\ \A i \in 1..k : c + d + 1 + i \in 1..Len(before)
      /\ c + d + k + 2 \in 1..Len(before)
      /\ \A i \in 1..v : c + d + k + 2 + i \in 1..Len(before)
      /\ m \in 1..Len(before)
  BY <1>1, <1>2, <1>3, <1>4
<1>7. /\ \A i \in 1..d : before[c + i] = Decimal(w.len)[i]
      /\ before[c + d + 1] = Space
      /\ \A i \in 1..k : before[c + d + 1 + i] = w.keyword[i]
      /\ before[c + d + k + 2] = Equals
      /\ \A i \in 1..v : before[c + d + k + 2 + i] = w.value[i]
      /\ before[m] = Newline
  BY DEF Stands, d, k, v, m
<1>8. /\ \A i \in 1..d : after[c + i] = Decimal(w.len)[i]
      /\ after[c + d + 1] = Space
      /\ \A i \in 1..k : after[c + d + 1 + i] = w.keyword[i]
      /\ after[c + d + k + 2] = Equals
      /\ \A i \in 1..v : after[c + d + k + 2 + i] = w.value[i]
      /\ after[m] = Newline
  BY <1>6, <1>7
<1> QED
  BY <1>5, <1>8 DEF Stands, d, k, v, m

LEMMA KeptInitially == TextInit => KeptInv
<1> SUFFICES ASSUME TextInit PROVE KeptInv
  OBVIOUS
<1>1. /\ written = <<>> /\ records = <<>> /\ cursor = 0 /\ stage = "writing"
      /\ Len(<<>>) = 0 /\ 1..0 = {} /\ 0..0 = {0}
  BY DEF TextInit
<1>2. ASSUME payload = <<>>
      PROVE  \E spot \in [0..Len(written) -> Nat] : Laid(spot) /\ Taken(spot)
  <2> DEFINE spot == [n \in 0..0 |-> 0]
  <2>1. spot \in [0..Len(written) -> Nat] /\ spot[0] = 0
    BY <1>1
  <2> HIDE DEF spot
  <2>2. Laid(spot) /\ Taken(spot)
    BY <1>1, <1>2, <2>1 DEF Laid, Taken
  <2> QED
    BY <2>1, <2>2
<1> QED
  BY <1>1, <1>2 DEF KeptInv

(* The record appended is laid behind the others.                          *)
LEMMA AppendKeeps ==
  ASSUME TextType, LengthsAreExact, ParseInv, KeptInv,
         NEW keyword \in Keywords, NEW value \in Values, AppendPaxRecord(keyword, value)
  PROVE  KeptInv'
<1> DEFINE l == Len(written)
           c == Len(payload)
           w == written'[l + 1]
<1>1. /\ Len(written') = l + 1 /\ \A n \in 1..l : written'[n] = written[n]
      /\ Proper(w) /\ Len(payload') = c + w.len
      /\ \A i \in 1..c : payload'[i] = payload[i]
      /\ Stands(payload', c, w)
  BY AppendedText
<1>2. /\ stage = "writing" /\ stage' = stage /\ UNCHANGED <<cursor, records, damage>>
      /\ damage = 0 /\ (written # <<>> \/ payload = <<>>)
  BY DEF AppendPaxRecord
<1>3. /\ l \in Nat /\ c \in Nat /\ payload \in Seq(Byte) /\ payload' \in Seq(Byte)
      /\ cursor = 0 /\ records = <<>>
  BY <1>2, TextTypePreserved DEF TextType, ParseInv, TextNext
<1>4. w.len \in Nat \ {0}
  BY <1>1, LengthAssumption DEF Proper
<1>5. PICK spot \in [0..l -> Nat] : Laid(spot) /\ Taken(spot)
  BY <1>2 DEF KeptInv
<1>grown. PICK new : new = [n \in 0..(l + 1) |-> IF n = l + 1 THEN c + w.len ELSE spot[n]]
  OBVIOUS
<1>6. \A n \in 1..l : Proper(written[n])
  BY DEF KeptInv
<1>7. /\ spot[0] = 0 /\ spot[l] = c
      /\ \A n \in 1..l : spot[n] = spot[n - 1] + written[n].len /\ Stands(payload, spot[n - 1], written[n])
      /\ \A m, n \in 0..l : m < n => spot[m] < spot[n]
  BY <1>5 DEF Laid
<1> HIDE DEF w, l, c
<1>8. /\ new \in [0..(l + 1) -> Nat] /\ new[l + 1] = c + w.len
      /\ \A n \in 0..l : new[n] = spot[n] /\ spot[n] \in Nat
  <2>1. \A n \in 0..l : n \in 0..(l + 1) /\ n # l + 1 /\ spot[n] \in Nat
    BY <1>3, <1>5
  <2>2. \A n \in 0..(l + 1) : n # l + 1 => n \in 0..l
    BY <1>3
  <2>3. l + 1 \in 0..(l + 1) /\ c + w.len \in Nat
    BY <1>3, <1>4
  <2> HIDE DEF c
  <2> QED
    BY <1>5, <1>grown, <2>1, <2>2, <2>3
<1>9. new[0] = 0 /\ new[l] = c /\ 0 \in 0..l /\ l \in 0..l
  <2>1. 0 \in 0..l /\ l \in 0..l
    BY <1>3
  <2>2. new[0] = spot[0] /\ new[l] = spot[l]
    BY <1>8, <2>1
  <2> QED
    BY <1>7, <2>1, <2>2
<1>10. ASSUME NEW n \in 1..(l + 1)
       PROVE  new[n] = new[n - 1] + written'[n].len /\ Stands(payload', new[n - 1], written'[n])
  <2>1. CASE n = l + 1
    <3>1. n - 1 = l /\ written'[n] = w
      BY <1>3, <2>1 DEF w
    <3> QED
      BY <1>1, <1>8, <1>9, <2>1, <3>1
  <2>2. CASE n # l + 1
    <3>1. n \in 1..l /\ n \in 0..l /\ n - 1 \in 0..l
      BY <1>3, <2>2
    <3>2. new[n] = spot[n] /\ new[n - 1] = spot[n - 1] /\ spot[n - 1] \in Nat /\ written'[n] = written[n]
      BY <1>1, <1>8, <3>1
    <3>3. Len(payload) <= Len(payload')
      BY <1>1, <1>3, <1>4 DEF c
    <3>4. \A i \in 1..Len(payload) : payload'[i] = payload[i]
      BY <1>1 DEF c
    <3>5. Stands(payload', spot[n - 1], written[n])
      BY <1>3, <1>6, <1>7, <3>1, <3>2, <3>3, <3>4, StandsStays
    <3> QED
      BY <1>7, <3>1, <3>2, <3>5
  <2> QED
    BY <2>1, <2>2
<1>11. ASSUME NEW m \in 0..(l + 1), NEW n \in 0..(l + 1), m < n
       PROVE  new[m] < new[n]
  <2>1. m \in 0..l /\ new[m] = spot[m] /\ spot[m] \in Nat
    BY <1>3, <1>8, <1>11
  <2>2. CASE n = l + 1
    <3>1. spot[m] <= c
      <4>1. m = l \/ m < l
        BY <1>3, <2>1
      <4>2. m < l => spot[m] < spot[l]
        BY <1>7, <1>9, <2>1
      <4> QED
        BY <1>3, <1>7, <2>1, <4>1, <4>2
    <3> QED
      BY <1>3, <1>4, <1>8, <2>1, <2>2, <3>1
  <2>3. CASE n # l + 1
    <3>1. n \in 0..l
      BY <1>3, <2>3
    <3> QED
      BY <1>7, <1>8, <1>11, <2>1, <3>1
  <2> QED
    BY <2>2, <2>3
<1>12. Laid(new)' /\ Taken(new)'
  BY <1>1, <1>2, <1>3, <1>8, <1>9, <1>10, <1>11 DEF Laid, Taken
<1>13. \A n \in 1..Len(written') : Proper(written'[n])
  <2>1. ASSUME NEW n \in 1..(l + 1) PROVE Proper(written'[n])
    <3>1. n \in 1..l \/ n = l + 1
      BY <1>3
    <3> QED
      BY <1>1, <1>6, <3>1 DEF w
  <2> QED
    BY <1>1, <2>1
<1> QED
  BY <1>1, <1>2, <1>8, <1>12, <1>13 DEF KeptInv

(* What is parsed is the record that was laid there.                       *)
LEMMA ParseKeeps ==
  ASSUME TextType, ParseInv, KeptInv, ParseRecord
  PROVE  KeptInv'
<1>1. /\ stage = "parsing" /\ cursor < Len(payload)
      /\ UNCHANGED <<payload, written, damage>> /\ stage' # "ok"
  BY DEF ParseRecord, Ends
<1>2. \A n \in 1..Len(written) : Proper(written[n])
  BY DEF KeptInv
<1>3. ASSUME damage = 0, written # <<>> \/ payload = <<>>
      PROVE  \E spot \in [0..Len(written) -> Nat] : (Laid(spot) /\ Taken(spot))'
  <2> DEFINE m == Len(records)
             l == Len(written)
             w == written[m + 1]
  <2>1. PICK spot \in [0..l -> Nat] : Laid(spot) /\ Taken(spot)
    BY <1>3 DEF KeptInv
  <2>2. /\ m \in Nat /\ l \in Nat /\ m <= l /\ cursor = spot[m] /\ spot[l] = Len(payload)
        /\ \A n \in 1..m : records[n] = [keyword |-> written[n].keyword, value |-> written[n].value]
    BY <2>1 DEF TextType, ParseInv, Laid, Taken
  <2>3. Laid(spot)'
    BY <1>1, <2>1 DEF Laid
  <2>4. CASE UNCHANGED <<cursor, records>>
    <3>1. Taken(spot)'
      BY <1>1, <2>1, <2>4 DEF Taken
    <3> QED
      BY <1>1, <2>3, <3>1
  <2>5. CASE /\ records' = Append(records, [keyword |-> KeywordRead, value |-> ValueRead])
             /\ cursor' = RecordEnd
    <3>1. m # l
      BY <1>1, <2>2 DEF TextType
    <3>2. m + 1 \in 1..l /\ (m + 1) - 1 = m
      BY <2>2, <3>1
    <3>3. Proper(w) /\ spot[m + 1] = cursor + w.len /\ Stands(payload, cursor, w)
      BY <1>2, <2>1, <2>2, <3>2 DEF Laid
    <3>4. RecordEnd = cursor + w.len /\ KeywordRead = w.keyword /\ ValueRead = w.value
      <4> HIDE DEF w
      <4> QED
        BY <3>3, ReadsRecord DEF ParseInv
    <3>5. /\ Len(records') = m + 1 /\ \A n \in 1..m : records'[n] = records[n]
          /\ records'[m + 1] = [keyword |-> w.keyword, value |-> w.value]
      <4> HIDE DEF w
      <4>1. records \in Seq(ReadRecord)
        BY DEF ParseInv
      <4> QED
        BY <2>5, <3>4, <4>1
    <3>6. ASSUME NEW n \in 1..(m + 1)
          PROVE  records'[n] = [keyword |-> written[n].keyword, value |-> written[n].value]
      <4>1. n \in 1..m \/ n = m + 1
        BY <2>2
      <4> QED
        BY <2>2, <3>5, <4>1
    <3>7. cursor' = spot[m + 1] /\ m + 1 <= l
      BY <2>2, <2>5, <3>2, <3>3, <3>4
    <3> HIDE DEF m
    <3>8. Taken(spot)'
      BY <1>1, <3>5, <3>6, <3>7 DEF Taken
    <3> QED
      BY <1>1, <2>3, <3>8
  <2> QED
    BY <2>4, <2>5 DEF ParseRecord, Ends
<1> QED
  BY <1>1, <1>2, <1>3 DEF KeptInv

LEMMA KeptPreserved ==
  TextType /\ LengthsAreExact /\ ParseInv /\ KeptInv /\ [TextNext]_textVars => KeptInv'
<1> SUFFICES ASSUME TextType, LengthsAreExact, ParseInv, KeptInv, [TextNext]_textVars
             PROVE  KeptInv'
  OBVIOUS
<1>1. (\E keyword \in Keywords, value \in Values : AppendPaxRecord(keyword, value)) => KeptInv'
  BY AppendKeeps
<1>2. CASE Damages
  <2>1. written' = written /\ damage' # 0 /\ stage' # "ok"
    BY <1>2 DEF Damages, ParseInv
  <2> QED
    BY <2>1 DEF KeptInv
<1>3. ParseRecord => KeptInv'
  BY ParseKeeps
<1>4. CASE Arrives \/ Parsed \/ UNCHANGED textVars
  <2>1. /\ UNCHANGED <<payload, cursor, records, written, damage>>
        /\ stage' = "ok" => cursor = Len(payload)
    BY <1>4 DEF Arrives, Parsed, textVars, KeptInv
  <2> QED
    BY <2>1 DEF KeptInv, Laid, Taken
<1> QED
  BY <1>1, <1>2, <1>3, <1>4 DEF TextNext

(* A payload is accepted exactly when it is records from end to end, for   *)
(* any payload; and what append_pax_record wrote, of any keywords and      *)
(* values, is read back as it was.                                         *)
THEOREM PayloadsReadBack == TextSpec => []ParsesExactlyRecords
<1> DEFINE I == TextType /\ LengthsAreExact /\ ParseInv /\ KeptInv
<1>1. TextInit => ParseInv /\ KeptInv
  BY ParseInitially, KeptInitially
<1>2. I /\ [TextNext]_textVars => ParseInv' /\ KeptInv'
  BY ParsePreserved, KeptPreserved
<1>3. I => ParsesExactlyRecords
  <2> SUFFICES ASSUME I PROVE ParsesExactlyRecords
    OBVIOUS
  <2>1. stage \notin {"writing", "parsing"} => (stage = "ok" <=> payload # <<>> /\ 1 \in Good)
    BY DEF ParseInv
  <2>2. ASSUME stage = "ok", written # <<>>, damage = 0
        PROVE  records = [n \in 1..Len(written) |->
                            [keyword |-> written[n].keyword, value |-> written[n].value]]
    <3>1. PICK spot \in [0..Len(written) -> Nat] : Laid(spot) /\ Taken(spot)
      BY <2>2 DEF KeptInv
    <3>2. /\ Len(records) \in Nat /\ Len(written) \in Nat /\ Len(records) <= Len(written)
          /\ spot[Len(records)] = spot[Len(written)]
      BY <2>2, <3>1 DEF Laid, Taken, KeptInv, ParseInv, TextType
    <3>3. Len(records) = Len(written)
      <4>1. /\ Len(records) \in 0..Len(written) /\ Len(written) \in 0..Len(written)
            /\ spot[Len(written)] \in Nat
        BY <3>1, <3>2
      <4>2. Len(records) < Len(written) => spot[Len(records)] < spot[Len(written)]
        BY <3>1, <4>1 DEF Laid
      <4> QED
        BY <3>2, <4>1, <4>2
    <3>4. records = [n \in 1..Len(records) |-> records[n]]
      BY DEF ParseInv
    <3> QED
      BY <3>1, <3>3, <3>4 DEF Taken
  <2>3. TextType
    OBVIOUS
  <2> HIDE DEF I
  <2> QED
    BY <2>1, <2>2, <2>3, RecordsFromIs, Zenon DEF ParsesExactlyRecords
<1>4. TextSpec => [](TextType /\ LengthsAreExact)
  BY TextTypeHolds, RecordLengthsAreExact, PTL
<1> QED
  BY <1>1, <1>2, <1>3, <1>4, PTL DEF TextSpec

-----------------------------------------------------------------------------
(* Totals.                                                                 *)

(* What a total is: a running sum.                                         *)
LEMMA TotalIs ==
  ASSUME NEW s \in Seq(Int)
  PROVE  \E sum \in [0..Len(s) -> Int] :
           /\ sum[0] = 0 /\ Total(s) = sum[Len(s)]
           /\ \A k \in 1..Len(s) : sum[k] = sum[k - 1] + s[k]
<1>. DEFINE n == Len(s)
            step == [k \in 1..n |-> [m \in Int |-> m + s[k]]]
            sum[k \in 0..n] == IF k = 0 THEN 0 ELSE sum[k - 1] + s[k]
<1>1. n \in Nat /\ step \in [1..n -> [Int -> Int]] /\ n \in 0..n /\ 0 \in Int
  OBVIOUS
<1>2. PICK h \in [0..n -> Int] : Recursive(h, n, 0, step)
  <2>. HIDE DEF step, n
  <2>. QED  BY <1>1, RecursionExists
<1>3. h = [k \in 0..n |-> IF k = 0 THEN 0 ELSE h[k - 1] + s[k]]
  <2>1. ASSUME NEW k \in 0..n PROVE h[k] = IF k = 0 THEN 0 ELSE h[k - 1] + s[k]
    <3>1. k = 0 \/ (k \in 1..n /\ k - 1 \in 0..n)
      OBVIOUS
    <3>. QED  BY <1>2, <3>1 DEF Recursive
  <2>. HIDE DEF n
  <2>. QED  BY <1>2, <2>1
<1>4. sum = [k \in 0..n |-> IF k = 0 THEN 0 ELSE sum[k - 1] + s[k]]
  BY <1>3, Zenon DEF sum
<1>. HIDE DEF sum, step
<1>5. Total(s) = sum[n]
  BY Zenon DEF Total, sum, n
<1>. DEFINE T == { k \in 0..n : sum[k] \in Int }
<1>6. 0 \in T
  BY <1>1, <1>4
<1>7. ASSUME NEW k \in 0..(n - 1), k \in T PROVE k + 1 \in T
  <2>1. k + 1 \in 0..n /\ k + 1 # 0 /\ (k + 1) - 1 = k /\ k + 1 \in 1..n
    BY <1>1
  <2>2. sum[k + 1] = sum[k] + s[k + 1] /\ s[k + 1] \in Int
    BY <1>4, <2>1
  <2>. QED  BY <1>7, <2>1, <2>2
<1>8. \A k \in 0..n : k \in T
  <2>. HIDE DEF T, n
  <2>. QED  BY <1>1, <1>6, <1>7, CountingUp
<1>9. sum \in [0..n -> Int]
  <2>1. \A k \in 0..n : sum[k] \in Int
    BY <1>8
  <2>. QED  BY <1>4, <2>1
<1>10. sum[0] = 0 /\ \A k \in 1..n : sum[k] = sum[k - 1] + s[k]
  <2>1. 0 \in 0..n /\ \A k \in 1..n : k \in 0..n /\ k # 0
    OBVIOUS
  <2>. QED  BY <1>4, <2>1
<1>. QED  BY <1>5, <1>9, <1>10

LEMMA TotalOfNaturals ==
  ASSUME NEW s \in Seq(Nat)
  PROVE  Total(s) \in Nat /\ \A i \in 1..Len(s) : s[i] <= Total(s)
<1>. DEFINE n == Len(s)
<1>1. s \in Seq(Int) /\ n \in Nat /\ \A k \in 1..n : s[k] \in Nat
  OBVIOUS
<1>2. PICK sum \in [0..n -> Int] :
        sum[0] = 0 /\ Total(s) = sum[n] /\ \A k \in 1..n : sum[k] = sum[k - 1] + s[k]
  BY <1>1, TotalIs
<1>. HIDE DEF n
<1>. DEFINE T == { k \in 0..n : sum[k] \in Nat /\ \A j \in 1..k : s[j] <= sum[k] }
<1>3. 0 \in T
  BY <1>1, <1>2
<1>4. ASSUME NEW k \in 0..(n - 1), k \in T PROVE k + 1 \in T
  <2>1. k + 1 \in 0..n /\ k + 1 \in 1..n /\ (k + 1) - 1 = k
    BY <1>1
  <2>2. sum[k + 1] = sum[k] + s[k + 1] /\ s[k + 1] \in Nat /\ sum[k] \in Nat
    BY <1>1, <1>2, <1>4, <2>1
  <2>3. ASSUME NEW j \in 1..(k + 1) PROVE s[j] <= sum[k + 1]
    <3>1. CASE j = k + 1
      BY <2>2, <3>1
    <3>2. CASE j # k + 1
      <4>1. j \in 1..k /\ j \in 1..n
        BY <1>1, <3>2
      <4>2. s[j] <= sum[k] /\ s[j] \in Nat
        BY <1>1, <1>4, <4>1
      <4>. QED  BY <2>2, <4>2
    <3>. QED  BY <3>1, <3>2
  <2>4. sum[k + 1] \in Nat
    BY <2>2
  <2>. QED  BY <2>1, <2>3, <2>4
<1>5. \A k \in 0..n : k \in T
  <2>. HIDE DEF T
  <2>. QED  BY <1>1, <1>3, <1>4, CountingUp
<1>6. n \in T
  BY <1>1, <1>5
<1>. QED  BY <1>2, <1>6 DEF n

LEMMA TotalAppended ==
  ASSUME NEW s \in Seq(Int), NEW x \in Int
  PROVE  Total(s) \in Int /\ Total(Append(s, x)) = Total(s) + x
<1>. DEFINE n == Len(s)
            t == Append(s, x)
<1>1. /\ n \in Nat /\ t \in Seq(Int) /\ Len(t) = n + 1 /\ t[n + 1] = x
      /\ \A k \in 1..n : t[k] = s[k] /\ s[k] \in Int
  BY AppendProperties
<1>2. PICK sum \in [0..n -> Int] :
        sum[0] = 0 /\ Total(s) = sum[n] /\ \A k \in 1..n : sum[k] = sum[k - 1] + s[k]
  BY <1>1, TotalIs
<1>. HIDE DEF t, n
<1>3. PICK more \in [0..(n + 1) -> Int] :
        more[0] = 0 /\ Total(t) = more[n + 1] /\ \A k \in 1..(n + 1) : more[k] = more[k - 1] + t[k]
  <2>1. \E more \in [0..Len(t) -> Int] :
          /\ more[0] = 0 /\ Total(t) = more[Len(t)]
          /\ \A k \in 1..Len(t) : more[k] = more[k - 1] + t[k]
    BY <1>1, TotalIs
  <2>2. Len(t) = n + 1
    BY <1>1
  <2>. QED  BY <2>1, <2>2, Zenon
<1>. DEFINE T == { k \in 0..n : more[k] = sum[k] }
<1>4. 0 \in T
  BY <1>1, <1>2, <1>3
<1>5. ASSUME NEW k \in 0..(n - 1), k \in T PROVE k + 1 \in T
  <2>1. k + 1 \in 0..n /\ k + 1 \in 1..n /\ k + 1 \in 1..(n + 1) /\ (k + 1) - 1 = k
    BY <1>1
  <2>. QED  BY <1>1, <1>2, <1>3, <1>5, <2>1
<1>6. \A k \in 0..n : k \in T
  <2>. HIDE DEF T
  <2>. QED  BY <1>1, <1>4, <1>5, CountingUp
<1>7. more[n] = sum[n] /\ sum[n] \in Int /\ more[n + 1] = more[n] + t[n + 1]
  <2>1. n \in 0..n /\ n + 1 \in 1..(n + 1) /\ (n + 1) - 1 = n
    BY <1>1
  <2>. QED  BY <1>2, <1>3, <1>6, <2>1
<1>. QED  BY <1>1, <1>2, <1>3, <1>7 DEF t, n

-----------------------------------------------------------------------------
(* Texts.                                                                  *)

(* At most d of the pieces lead up: f counts those still to come.          *)
Fits(d, s) ==
  \E f \in [0..Len(s) -> Nat] :
    /\ f[0] <= d
    /\ \A i \in 1..Len(s) : f[i] <= f[i - 1] /\ (s[i] = ".." => f[i] < f[i - 1])

LEMMA NamesAreNames ==
  ASSUME NEW s \in Seq(Piece), ~Contains(s, Backslash)
  PROVE  Names(s) \in Seq(Name)
<1>. DEFINE n == Len(s)
            S == Seq(Name)
            next(k, r) == IF IsName(s[k]) THEN Append(r, s[k]) ELSE r
            step == [k \in 1..n |-> [r \in S |-> next(k, r)]]
            names[k \in 0..n] == IF k = 0 THEN <<>>
                                 ELSE IF IsName(s[k]) THEN Append(names[k - 1], s[k]) ELSE names[k - 1]
<1>1. n \in Nat /\ <<>> \in S /\ n \in 0..n
  OBVIOUS
<1>2. ASSUME NEW k \in 1..n, NEW r \in S PROVE next(k, r) \in S
  <2>1. s[k] \in Piece /\ s[k] # Backslash
    BY DEF Contains
  <2>2. IsName(s[k]) => s[k] \in Name
    BY <2>1 DEF Piece, IsName
  <2>. QED  BY <2>2
<1>. HIDE DEF S, n
<1>3. step \in [1..n -> [S -> S]]
  <2>. HIDE DEF next
  <2>. QED  BY <1>2
<1>4. PICK h \in [0..n -> S] : Recursive(h, n, <<>>, step)
  <2>. HIDE DEF step
  <2>. QED  BY <1>1, <1>3, RecursionExists
<1>5. h = [k \in 0..n |-> IF k = 0 THEN <<>>
                          ELSE IF IsName(s[k]) THEN Append(h[k - 1], s[k]) ELSE h[k - 1]]
  <2>1. ASSUME NEW k \in 0..n
        PROVE h[k] = IF k = 0 THEN <<>>
                     ELSE IF IsName(s[k]) THEN Append(h[k - 1], s[k]) ELSE h[k - 1]
    <3>1. k = 0 \/ (k \in 1..n /\ k - 1 \in 0..n)
      BY <1>1
    <3>. QED  BY <1>4, <3>1 DEF Recursive
  <2>. QED  BY <1>4, <2>1
<1>6. names = [k \in 0..n |-> IF k = 0 THEN <<>>
                              ELSE IF IsName(s[k]) THEN Append(names[k - 1], s[k]) ELSE names[k - 1]]
  BY <1>5, Zenon DEF names
<1>. HIDE DEF step
<1>. HIDE DEF names
<1>7. Names(s) = names[n]
  BY Zenon DEF Names, names, n
<1>. DEFINE T == { k \in 0..n : names[k] \in S }
<1>8. 0 \in T
  BY <1>1, <1>6
<1>9. ASSUME NEW k \in 0..(n - 1), k \in T PROVE k + 1 \in T
  <2>1. k + 1 \in 0..n /\ k + 1 # 0 /\ (k + 1) - 1 = k /\ k + 1 \in 1..n
    BY <1>1
  <2>2. names[k + 1] = next(k + 1, names[k])
    BY <1>6, <2>1
  <2>3. names[k] \in S
    BY <1>9
  <2>. HIDE DEF next
  <2>. QED  BY <1>2, <2>1, <2>2, <2>3
<1>10. \A k \in 0..n : k \in T
  <2>. HIDE DEF T
  <2>. QED  BY <1>1, <1>8, <1>9, CountingUp
<1>. QED  BY <1>1, <1>7, <1>10 DEF S

LEMMA AscentsFit ==
  ASSUME NEW s \in Seq(Piece)
  PROVE  Ascents(s) \in Nat /\ \A d \in Nat : Ascents(s) <= d => Fits(d, s)
<1>. DEFINE n == Len(s)
            Up(k) == { i \in (k + 1)..n : s[i] = ".." }
            f == [k \in 0..n |-> Cardinality(Up(k))]
<1>1. n \in Nat
  OBVIOUS
<1>2. ASSUME NEW k \in 0..n PROVE IsFiniteSet(Up(k)) /\ Cardinality(Up(k)) \in Nat
  <2>1. IsFiniteSet(1..n) /\ Up(k) \subseteq 1..n
    BY <1>1, FS_Interval
  <2>. HIDE DEF Up
  <2>. QED  BY <2>1, FS_Subset, FS_CardinalityType
<1>3. ASSUME NEW k \in 1..n
      PROVE  f[k] <= f[k - 1] /\ (s[k] = ".." => f[k] < f[k - 1])
  <2>1. k \in 0..n /\ k - 1 \in 0..n /\ k \notin Up(k)
    BY <1>1
  <2>2. Up(k - 1) = IF s[k] = ".." THEN Up(k) \cup {k} ELSE Up(k)
    BY <1>1
  <2>. HIDE DEF Up
  <2>3. Cardinality(Up(k) \cup {k}) = Cardinality(Up(k)) + 1
    BY <1>2, <2>1, FS_AddElement
  <2>. QED  BY <1>2, <2>1, <2>2, <2>3
<1>4. Ascents(s) = f[0]
  <2>1. { i \in 1..Len(s) : s[i] = ".." } = Up(0) /\ 0 \in 0..n
    BY <1>1
  <2>. HIDE DEF Up
  <2>. QED  BY <2>1 DEF Ascents
<1>5. f \in [0..n -> Nat] /\ 0 \in 0..n
  <2>. HIDE DEF Up
  <2>. QED  BY <1>1, <1>2
<1>. HIDE DEF f
<1>. QED  BY <1>3, <1>4, <1>5 DEF Fits

LEMMA FitsTail ==
  ASSUME NEW d \in Nat, NEW s \in Seq(Piece), s # <<>>, Fits(d, s)
  PROVE  Fits(d, Tail(s)) /\ (Head(s) = ".." => d > 0 /\ Fits(d - 1, Tail(s)))
<1>. DEFINE n == Len(s)
            t == Tail(s)
<1>1. PICK f \in [0..n -> Nat] :
        f[0] <= d /\ \A i \in 1..n : f[i] <= f[i - 1] /\ (s[i] = ".." => f[i] < f[i - 1])
  BY DEF Fits
<1>2. /\ n \in Nat \ {0} /\ t \in Seq(Piece) /\ Len(t) = n - 1 /\ s[1] = Head(s)
      /\ \A i \in 1..(n - 1) : t[i] = s[i + 1] /\ i + 1 \in 1..n
  BY EmptySeq
<1>. DEFINE g == [i \in 0..(n - 1) |-> f[i + 1]]
<1>. HIDE DEF n, t
<1>3. g \in [0..(n - 1) -> Nat] /\ g[0] = f[1]
  BY <1>1, <1>2
<1>4. ASSUME NEW i \in 1..(n - 1) PROVE g[i] <= g[i - 1] /\ (t[i] = ".." => g[i] < g[i - 1])
  <2>1. i \in 0..(n - 1) /\ i - 1 \in 0..(n - 1) /\ i + 1 \in 1..n /\ (i - 1) + 1 = i /\ (i + 1) - 1 = i
    BY <1>2
  <2>2. g[i] = f[i + 1] /\ g[i - 1] = f[i]
    BY <2>1
  <2>. HIDE DEF g
  <2>. QED  BY <1>1, <1>2, <2>1, <2>2
<1>5. 1 \in 1..n /\ f[1] \in Nat /\ f[0] \in Nat /\ f[1] <= f[0] /\ (s[1] = ".." => f[1] < f[0])
  <2>1. 1 \in 1..n /\ 1 \in 0..n /\ 0 \in 0..n /\ 1 - 1 = 0
    BY <1>2
  <2>. QED  BY <1>1, <2>1
<1>. HIDE DEF g
<1>6. \A e \in Nat : f[1] <= e => Fits(e, t)
  BY <1>2, <1>3, <1>4 DEF Fits
<1>7. f[1] <= d /\ (Head(s) = ".." => d - 1 \in Nat /\ f[1] <= d - 1 /\ d > 0)
  BY <1>1, <1>2, <1>5
<1>. QED  BY <1>6, <1>7 DEF t

LEMMA FitsConcat ==
  ASSUME NEW d \in Nat, NEW s \in Seq(Piece), NEW t \in Seq(Piece), Fits(d, s),
         \A i \in 1..Len(t) : t[i] # ".."
  PROVE  Fits(d, s \o t)
<1>. DEFINE n == Len(s)
            m == Len(t)
            st == s \o t
<1>1. PICK f \in [0..n -> Nat] :
        f[0] <= d /\ \A i \in 1..n : f[i] <= f[i - 1] /\ (s[i] = ".." => f[i] < f[i - 1])
  BY DEF Fits
<1>2. /\ n \in Nat /\ m \in Nat /\ st \in Seq(Piece) /\ Len(st) = n + m
      /\ \A i \in 1..(n + m) : st[i] = IF i <= n THEN s[i] ELSE t[i - n]
  BY ConcatProperties
<1>. DEFINE g == [i \in 0..(n + m) |-> IF i <= n THEN f[i] ELSE 0]
<1>. HIDE DEF n, m, st
<1>3. g \in [0..(n + m) -> Nat] /\ g[0] <= d
  BY <1>1, <1>2
<1>4. ASSUME NEW i \in 1..(n + m) PROVE g[i] <= g[i - 1] /\ (st[i] = ".." => g[i] < g[i - 1])
  <2>1. i \in 0..(n + m) /\ i - 1 \in 0..(n + m)
    BY <1>2
  <2>2. CASE i <= n
    <3>1. i \in 1..n /\ i \in 0..n /\ i - 1 \in 0..n /\ i - 1 <= n /\ st[i] = s[i]
      BY <1>2, <2>2
    <3>2. g[i] = f[i] /\ g[i - 1] = f[i - 1]
      BY <2>1, <2>2, <3>1
    <3>. HIDE DEF g
    <3>. QED  BY <1>1, <3>1, <3>2
  <2>3. CASE ~(i <= n)
    <3>1. i - n \in 1..m /\ st[i] = t[i - n]
      BY <1>2, <2>3
    <3>2. g[i] = 0 /\ g[i - 1] \in Nat
      BY <1>3, <2>1, <2>3
    <3>. HIDE DEF g
    <3>. QED  BY <3>1, <3>2 DEF m
  <2>. QED  BY <2>2, <2>3
<1>. HIDE DEF g
<1>5. Len(st) = n + m
  BY <1>2
<1>. QED  BY <1>3, <1>4, <1>5 DEF Fits, st

NoAscent(s) == \A i \in 1..Len(s) : s[i] # ".."

LEMMA PlainTail ==
  ASSUME NEW s \in Seq(Piece), s # <<>>, ~IsAmbiguous(s)
  PROVE  ~IsAmbiguous(Tail(s)) /\ (IsName(Head(s)) => NoAscent(Tail(s)))
<1>1. /\ Len(s) \in Nat \ {0} /\ Len(Tail(s)) = Len(s) - 1 /\ s[1] = Head(s)
      /\ \A i \in 1..(Len(s) - 1) : Tail(s)[i] = s[i + 1] /\ i + 1 \in 1..Len(s) /\ 1 < i + 1
      /\ 1 \in 1..Len(s)
  BY EmptySeq
<1>2. \A i, j \in 1..(Len(s) - 1) : i < j => i + 1 < j + 1
  BY <1>1
<1>. QED  BY <1>1, <1>2 DEF IsAmbiguous, NoAscent

LEMMA PlainConcat ==
  ASSUME NEW s \in Seq(Piece), NEW t \in Seq(Piece), ~IsAmbiguous(s), NoAscent(t)
  PROVE  ~IsAmbiguous(s \o t)
<1>1. /\ s \o t \in Seq(Piece) /\ Len(s \o t) = Len(s) + Len(t) /\ Len(s) \in Nat /\ Len(t) \in Nat
      /\ \A i \in 1..(Len(s) + Len(t)) : (s \o t)[i] = IF i <= Len(s) THEN s[i] ELSE t[i - Len(s)]
  BY ConcatProperties
<1>2. ASSUME NEW i \in 1..(Len(s) + Len(t)), NEW j \in 1..(Len(s) + Len(t)), i < j,
             IsName((s \o t)[i]), (s \o t)[j] = ".."
      PROVE  FALSE
  <2>1. CASE j <= Len(s)
    <3>1. i \in 1..Len(s) /\ j \in 1..Len(s)
      BY <1>1, <1>2, <2>1
    <3>2. IsName(s[i]) /\ s[j] = ".."
      BY <1>1, <1>2, <2>1, <3>1
    <3>. QED  BY <1>2, <3>1, <3>2 DEF IsAmbiguous
  <2>2. CASE ~(j <= Len(s))
    <3>1. j - Len(s) \in 1..Len(t)
      BY <1>1, <2>2
    <3>. QED  BY <1>1, <1>2, <2>2, <3>1 DEF NoAscent
  <2>. QED  BY <2>1, <2>2
<1>. QED  BY <1>1, <1>2 DEF IsAmbiguous

-----------------------------------------------------------------------------
(* The invariant of an extraction, in named parts.                         *)

Place == Seq(Name) \ {<<>>}

LinkType ==
  [path : Place, target : Seq(Piece), resolved_target : Seq(Name), requires_directory : BOOLEAN]

(* The target of a link at the path is within reach of it.                 *)
Sound(path, target) ==
  ~IsAbsolute(target) /\ ~IsAmbiguous(target) /\ Fits(Len(path) - 1, target)

LinksInv ==
  /\ symlinks \in Seq(LinkType)
  /\ \A i \in 1..Len(symlinks) : Sound(symlinks[i].path, symlinks[i].target)

EntriesInv ==
  /\ DOMAIN entries \subseteq Place
  /\ \A p \in DOMAIN entries :
       entries[p].kind = "Symlink" => entries[p].index \in 1..Len(symlinks)

NodeType == [type : {"Directory", "File", "Link"}, target : Seq(Piece)]

DiskInv ==
  /\ disk \in [DOMAIN disk -> NodeType] /\ DOMAIN disk \subseteq Place
  /\ \A p \in LinksIn(disk) : Sound(p, disk[p].target)

JudgedInv ==
  /\ at \in Nat \ {0}
  /\ judged \in Seq([link : Nat, kind : {"Directory", "File", "Link", "Dangling"}])
  /\ \A i \in 1..Len(judged) : judged[i].link \in 1..Len(symlinks)
  /\ phase = "Members" => judged = <<>>

TargetsInv == LinksInv /\ EntriesInv /\ DiskInv /\ JudgedInv

LEMMA DecodedPath ==
  ASSUME NEW m \in Members, decode_member(m).error = "None"
  PROVE  /\ decode_member(m).path \in Seq(Name)
         /\ m.kind # "Directory" => decode_member(m).path \in Place
         /\ m.target \in Seq(Piece)
<1>1. m.path \in Seq(Piece) /\ m.target \in Seq(Piece)
  BY LinkTargetsAssumption
<1>. DEFINE decoded == normalize_member_path(m.path)
<1>2. decode_member(m).path = decoded.path /\ decoded.ok
      /\ (m.kind # "Directory" => decoded.path # root)
  <2>. HIDE DEF decoded
  <2>. QED  BY DEF decode_member, decoded
<1>3. ~Contains(m.path, Backslash) /\ decoded.path = Names(m.path)
  BY <1>2 DEF normalize_member_path, validate_extraction_path, Refused, Decoded
<1>4. decoded.path \in Seq(Name)
  BY <1>1, <1>3, NamesAreNames
<1>. HIDE DEF decoded
<1>. QED  BY <1>1, <1>2, <1>4 DEF root, Place

LEMMA ParentIs ==
  ASSUME NEW S, NEW s \in Seq(S), s # <<>>
  PROVE  /\ Len(s) \in Nat \ {0} /\ parent(s) \in Seq(S) /\ Len(parent(s)) = Len(s) - 1
         /\ \A k \in 1..(Len(s) - 1) : parent(s)[k] = s[k]
<1>. DEFINE n == Len(s) - 1
<1>1. Len(s) \in Nat \ {0}
  BY EmptySeq
<1>2. n \in Nat /\ n <= Len(s)
  BY <1>1
<1>. HIDE DEF n
<1>3. SubSeq(s, 1, n) \in Seq(S) /\ Len(SubSeq(s, 1, n)) = n
      /\ \A k \in 1..n : SubSeq(s, 1, n)[k] = s[k]
  BY <1>2
<1>. QED  BY <1>1, <1>3 DEF parent, Front, n

LEMMA PrefixPlaces ==
  ASSUME NEW p \in Place
  PROVE  StrictPrefixes(p) \subseteq Place
<1>. QED  BY DEF StrictPrefixes, Place

LEMMA SettleKeeps ==
  ASSUME TargetsInv, NEW path \in Place, NEW state, NEW nodes, Settle(path, state, nodes),
         symlinks' \in Seq(LinkType), Len(symlinks) <= Len(symlinks'),
         state.kind = "Symlink" => state.index \in 1..Len(symlinks'),
         nodes \in { Node(path, File), Node(path, Directory), [p \in {} |-> File] }
  PROVE  EntriesInv' /\ DiskInv'
<1>. DEFINE new == StrictPrefixes(path) \ DOMAIN entries
<1>1. new \subseteq Place
  BY PrefixPlaces
<1>. HIDE DEF new
<1>2. /\ entries' = [p \in DOMAIN entries \cup new \cup {path} |->
                       IF p = path THEN state
                       ELSE IF p \in new THEN State("CreatedDirectory") ELSE entries[p]]
      /\ disk' = [p \in (DOMAIN disk \ {path}) \cup new \cup DOMAIN nodes |->
                    IF p \in DOMAIN nodes THEN nodes[p]
                    ELSE IF p \in new THEN Directory ELSE disk[p]]
  BY DEF Settle, new
<1>3. Len(symlinks) \in Nat /\ Len(symlinks') \in Nat
  BY DEF TargetsInv, LinksInv
<1>4. EntriesInv'
  <2>1. \A i \in 1..Len(symlinks) : i \in 1..Len(symlinks')
    BY <1>3
  <2>2. DOMAIN entries' \subseteq Place
    BY <1>1, <1>2 DEF TargetsInv, EntriesInv
  <2>3. ASSUME NEW p \in DOMAIN entries', entries'[p].kind = "Symlink"
        PROVE  entries'[p].index \in 1..Len(symlinks')
    <3>1. CASE p = path
      BY <1>2, <2>3, <3>1
    <3>2. CASE p # path /\ p \in new
      BY <1>2, <2>3, <3>2 DEF State
    <3>3. CASE p # path /\ p \notin new
      <4>1. p \in DOMAIN entries /\ entries'[p] = entries[p]
        BY <1>2, <3>3
      <4>. QED  BY <2>1, <2>3, <4>1 DEF TargetsInv, EntriesInv
    <3>. QED  BY <3>1, <3>2, <3>3
  <2>. QED  BY <2>2, <2>3 DEF EntriesInv
<1>5. /\ DOMAIN nodes \subseteq {path}
      /\ \A p \in DOMAIN nodes : nodes[p] \in NodeType /\ nodes[p].type # "Link"
  <2>1. \A n \in {File, Directory} : n \in NodeType /\ n.type # "Link"
    <3>1. <<>> \in Seq(Piece)
      OBVIOUS
    <3>2. File \in NodeType /\ File.type # "Link"
      BY <3>1 DEF NodeType, File
    <3>3. Directory \in NodeType /\ Directory.type # "Link"
      BY <3>1 DEF NodeType, Directory
    <3>. QED  BY <3>2, <3>3
  <2>2. CASE nodes = [p \in {} |-> File]
    BY <2>2
  <2>3. ASSUME NEW n \in {File, Directory}, nodes = [p \in {path} |-> n]
        PROVE  /\ DOMAIN nodes \subseteq {path}
               /\ \A p \in DOMAIN nodes : nodes[p] \in NodeType /\ nodes[p].type # "Link"
    BY <2>1, <2>3
  <2>. QED  BY <2>2, <2>3 DEF Node
<1>6. Directory \in NodeType /\ Directory.type # "Link"
  BY DEF NodeType, Directory
<1>7. DiskInv'
  <2>1. DOMAIN disk' \subseteq Place
    BY <1>1, <1>2, <1>5 DEF TargetsInv, DiskInv
  <2>2. ASSUME NEW p \in DOMAIN disk'
        PROVE  /\ disk'[p] \in NodeType
               /\ disk'[p].type = "Link" => p \in LinksIn(disk) /\ disk'[p] = disk[p]
    <3>1. CASE p \in DOMAIN nodes
      BY <1>2, <1>5, <3>1
    <3>2. CASE p \notin DOMAIN nodes /\ p \in new
      BY <1>2, <1>6, <3>2
    <3>3. CASE p \notin DOMAIN nodes /\ p \notin new
      <4>1. p \in DOMAIN disk /\ disk'[p] = disk[p]
        BY <1>2, <3>3
      <4>. QED  BY <4>1 DEF TargetsInv, DiskInv, LinksIn
    <3>. QED  BY <3>1, <3>2, <3>3
  <2>3. disk' \in [DOMAIN disk' -> NodeType]
    <3>1. disk' = [p \in DOMAIN disk' |-> disk'[p]]
      BY <1>2
    <3>. QED  BY <2>2, <3>1
  <2>4. \A p \in DOMAIN disk' : disk'[p].type = "Link" => Sound(p, disk'[p].target)
    BY <2>2 DEF TargetsInv, DiskInv
  <2>. QED  BY <2>1, <2>3, <2>4 DEF DiskInv, LinksIn
<1>. QED  BY <1>4, <1>7

LEMMA TargetsInit == Init => TargetsInv
<1>. SUFFICES ASSUME Init PROVE TargetsInv
  OBVIOUS
<1>1. /\ DOMAIN entries = {} /\ DOMAIN disk = {} /\ symlinks = <<>> /\ judged = <<>> /\ at = 1
      /\ disk = [p \in {} |-> Directory]
  BY DEF Init, NoEntries
<1>2. disk \in [DOMAIN disk -> NodeType]
  BY <1>1
<1>. QED  BY <1>1, <1>2 DEF TargetsInv, LinksInv, EntriesInv, DiskInv, JudgedInv, LinksIn

LEMMA FailKeeps ==
  ASSUME TargetsInv, phase = "Members", NEW error, Fail(error)
  PROVE  TargetsInv'
BY DEF Fail, TargetsInv, LinksInv, EntriesInv, DiskInv, JudgedInv, LinksIn

(* A member that is no link, or one that is refused.                       *)
LEMMA ExtractedKeeps ==
  ASSUME TargetsInv, phase = "Members", NEW path \in Place, NEW kind, NEW state, NEW nodes,
         Extracted(path, kind, state, nodes), UNCHANGED symlinks,
         state \in { State("File"), State("CreatedDirectory") },
         nodes \in { Node(path, File), Node(path, Directory) }
  PROVE  TargetsInv'
<1>1. CASE Collides(path, kind)
  BY <1>1, FailKeeps DEF Extracted
<1>2. CASE ~Collides(path, kind)
  <2>1. Settle(path, state, nodes) /\ at' = at + 1 /\ UNCHANGED <<phase, judged>>
    BY <1>2 DEF Extracted
  <2>2. Len(symlinks) <= Len(symlinks')
    BY DEF TargetsInv, LinksInv
  <2>3. EntriesInv' /\ DiskInv'
    BY <2>1, <2>2, SettleKeeps DEF State, TargetsInv, LinksInv
  <2>4. LinksInv' /\ JudgedInv'
    BY <2>1 DEF TargetsInv, LinksInv, JudgedInv
  <2>. QED  BY <2>3, <2>4 DEF TargetsInv
<1>. QED  BY <1>1, <1>2

LEMMA ExtractFileKeeps ==
  ASSUME TargetsInv, phase = "Members", NEW path \in Place, ExtractFile(path)
  PROVE  TargetsInv'
BY ExtractedKeeps DEF ExtractFile

LEMMA ExtractDirectoryKeeps ==
  ASSUME TargetsInv, phase = "Members", NEW path \in Seq(Name), ExtractDirectory(path)
  PROVE  TargetsInv'
<1>1. CASE path = root
  BY <1>1 DEF ExtractDirectory, TargetsInv, LinksInv, EntriesInv, DiskInv, JudgedInv, LinksIn
<1>2. CASE path # root
  <2>1. path \in Place
    BY <1>2 DEF Place, root
  <2>. QED  BY <1>2, <2>1, ExtractedKeeps DEF ExtractDirectory
<1>. QED  BY <1>1, <1>2

LEMMA ReserveSymlinkKeeps ==
  ASSUME TargetsInv, phase = "Members", NEW path \in Place, NEW value \in Seq(Piece),
         ReserveSymlink(path, value)
  PROVE  TargetsInv'
<1>. DEFINE target == validate_symlink_target(path, value)
            link   == [path |-> path, target |-> value, resolved_target |-> target.path,
                       requires_directory |-> requires_directory(value)]
<1>1. CASE ~target.ok
  <2>1. Fail("UnsafePath")
    BY <1>1 DEF ReserveSymlink
  <2>. QED  BY <2>1, FailKeeps
<1>2. CASE target.ok /\ Collides(path, "SymbolicLink")
  <2>1. Fail("PathCollision")
    BY <1>2 DEF ReserveSymlink
  <2>. QED  BY <2>1, FailKeeps
<1>3. CASE target.ok /\ ~Collides(path, "SymbolicLink")
  <2>1. /\ Settle(path, Symlink(Len(symlinks) + 1), [p \in {} |-> File])
        /\ symlinks' = Append(symlinks, link)
        /\ at' = at + 1 /\ UNCHANGED <<phase, judged>>
    <3>. HIDE DEF target
    <3>. QED  BY <1>3 DEF ReserveSymlink, target
  <2>2. /\ parent(path) \in Seq(Name) /\ Len(parent(path)) = Len(path) - 1
        /\ Len(path) \in Nat \ {0}
    <3>1. path \in Seq(Name) /\ path # <<>>
      BY DEF Place
    <3>. QED  BY <3>1, ParentIs
  <2>3. /\ ~Contains(value, Backslash) /\ ~IsAmbiguous(value) /\ Ascents(value) <= Len(parent(path))
        /\ target.path = SubSeq(parent(path), 1, Len(parent(path)) - Ascents(value)) \o Names(value)
    <3>1. /\ validate_extraction_path(value) /\ ~IsAmbiguous(value)
          /\ ~(Ascents(value) > Len(parent(path)))
          /\ target = Decoded(SubSeq(parent(path), 1, Len(parent(path)) - Ascents(value)) \o Names(value))
      BY <1>3, Zenon DEF validate_symlink_target, Refused
    <3>2. Ascents(value) \in Nat /\ Len(parent(path)) \in Nat
      BY <2>2, AscentsFit
    <3>. HIDE DEF target
    <3>3. target.path = SubSeq(parent(path), 1, Len(parent(path)) - Ascents(value)) \o Names(value)
      BY <3>1 DEF Decoded
    <3>4. ~Contains(value, Backslash)
      BY <3>1, Zenon DEF validate_extraction_path
    <3>5. Ascents(value) <= Len(parent(path))
      BY <3>1, <3>2
    <3>. QED  BY <3>1, <3>3, <3>4, <3>5
  <2>. HIDE DEF target
  <2>4. target.path \in Seq(Name)
    <3>1. Names(value) \in Seq(Name) /\ Ascents(value) \in Nat
      BY <2>3, NamesAreNames, AscentsFit
    <3>2. SubSeq(parent(path), 1, Len(parent(path)) - Ascents(value)) \in Seq(Name)
      BY <2>2, <2>3, <3>1
    <3>. QED  BY <2>3, <3>1, <3>2
  <2>5. link \in LinkType
    <3>1. requires_directory(value) \in BOOLEAN
      BY DEF requires_directory
    <3>. QED  BY <2>4, <3>1 DEF LinkType
  <2>6. Sound(path, value)
    <3>1. Len(path) - 1 \in Nat /\ Ascents(value) <= Len(path) - 1
      BY <2>2, <2>3
    <3>2. ~(Len(value) > 1 /\ value[1] = "")
      BY <1>3, Zenon DEF target, validate_symlink_target, validate_extraction_path, Refused
    <3>3. ~IsAbsolute(value)
      <4>1. Len(value) > 1 => Head(value) = value[1]
        OBVIOUS
      <4>. QED  BY <3>2, <4>1 DEF IsAbsolute
    <3>. QED  BY <2>3, <3>1, <3>3, AscentsFit DEF Sound
  <2>7. link.path = path /\ link.target = value
    OBVIOUS
  <2>. HIDE DEF link
  <2>8. /\ symlinks' \in Seq(LinkType) /\ Len(symlinks') = Len(symlinks) + 1 /\ Len(symlinks) \in Nat
        /\ \A i \in 1..Len(symlinks) : symlinks'[i] = symlinks[i]
        /\ symlinks'[Len(symlinks) + 1] = link
    BY <2>1, <2>5, AppendProperties DEF TargetsInv, LinksInv
  <2>9. LinksInv'
    <3>1. ASSUME NEW i \in 1..Len(symlinks') PROVE Sound(symlinks'[i].path, symlinks'[i].target)
      <4>1. i \in 1..Len(symlinks) \/ i = Len(symlinks) + 1
        BY <2>8
      <4>. QED  BY <2>6, <2>7, <2>8, <4>1 DEF TargetsInv, LinksInv
    <3>. QED  BY <2>8, <3>1 DEF LinksInv
  <2>10. EntriesInv' /\ DiskInv'
    <3>1. Symlink(Len(symlinks) + 1).index \in 1..Len(symlinks')
      BY <2>8 DEF Symlink
    <3>2. Len(symlinks) <= Len(symlinks')
      BY <2>8
    <3>. QED  BY <2>1, <2>8, <3>1, <3>2, SettleKeeps
  <2>11. JudgedInv'
    BY <2>1 DEF TargetsInv, JudgedInv
  <2>. QED  BY <2>9, <2>10, <2>11 DEF TargetsInv
<1>. QED  BY <1>1, <1>2, <1>3

LEMMA ReadMemberKeeps ==
  ASSUME TargetsInv, ReadMember
  PROVE  TargetsInv'
<1>1. phase = "Members"
  BY DEF ReadMember
<1>2. PICK member \in Members :
        LET decoded == decode_member(member)
        IN  \/ decoded.error # "None" /\ Fail(decoded.error)
            \/ decoded.error = "None" /\ member.kind = "File" /\ ExtractFile(decoded.path)
            \/ decoded.error = "None" /\ member.kind = "Directory"
               /\ ExtractDirectory(decoded.path)
            \/ decoded.error = "None" /\ member.kind = "SymbolicLink"
               /\ ReserveSymlink(decoded.path, member.target)
            \/ decoded.error = "None" /\ member.kind = "HardLink"
               /\ ExtractHardLink(decoded.path, member.target)
  BY DEF ReadMember
<1>. DEFINE decoded == decode_member(member)
<1>3. decoded.error = "None" =>
        /\ decoded.path \in Seq(Name) /\ member.target \in Seq(Piece)
        /\ member.kind # "Directory" => decoded.path \in Place
  BY DecodedPath
<1>. HIDE DEF decoded
<1>4. CASE decoded.error # "None"
  BY <1>1, <1>2, <1>4, FailKeeps DEF decoded
<1>5. CASE decoded.error = "None" /\ member.kind = "File" /\ ExtractFile(decoded.path)
  BY <1>1, <1>3, <1>5, ExtractFileKeeps
<1>6. CASE decoded.error = "None" /\ member.kind = "Directory" /\ ExtractDirectory(decoded.path)
  BY <1>1, <1>3, <1>6, ExtractDirectoryKeeps
<1>7. CASE decoded.error = "None" /\ member.kind = "SymbolicLink"
           /\ ReserveSymlink(decoded.path, member.target)
  BY <1>1, <1>3, <1>7, ReserveSymlinkKeeps
<1>8. CASE decoded.error = "None" /\ member.kind = "HardLink"
           /\ ExtractHardLink(decoded.path, member.target)
  <2>1. \/ \E error : Fail(error)
        \/ ExtractFile(decoded.path)
    BY <1>8 DEF ExtractHardLink
  <2>. QED  BY <1>1, <1>3, <1>8, <2>1, ExtractFileKeeps, FailKeeps
<1>. QED  BY <1>2, <1>4, <1>5, <1>6, <1>7, <1>8 DEF decoded

-----------------------------------------------------------------------------
(* The judgement of links: the paths a resolution goes through, and what   *)
(* they cost.                                                              *)

LEMMA LengthIs ==
  ASSUME NEW path \in Seq(Name)
  PROVE  Length(path) \in Nat
<1>1. [n \in 1..Len(path) |-> NameBytes[path[n]] + 1] \in Seq(Nat)
  <2>1. \A n \in 1..Len(path) : NameBytes[path[n]] \in Nat
    BY LinkTargetsAssumption
  <2>2. \A n \in 1..Len(path) : NameBytes[path[n]] + 1 \in Nat
    BY <2>1
  <2>. QED  BY <2>2
<1>. QED  BY <1>1, TotalOfNaturals DEF Length

(* A prefix of a path.                                                     *)
LEMMA FrontIs ==
  ASSUME NEW S, NEW s \in Seq(S), NEW n \in 0..Len(s)
  PROVE  SubSeq(s, 1, n) \in Seq(S) /\ Len(SubSeq(s, 1, n)) = n
<1>. QED  OBVIOUS

LEMMA WorkCovers ==
  ASSUME NEW path \in Seq(Name)
  PROVE  /\ WorkBytes(path) \in Nat /\ BytesAt(path) \in Int
         /\ BytesAt(path) <= WorkBytes(path)
<1>. DEFINE looked == [n \in 1..Len(path) |-> Length(SubSeq(path, 1, n))]
            stop   == IF Stops(path) = {} THEN Len(path) ELSE Min(Stops(path))
<1>1. looked \in Seq(Nat) /\ Len(looked) = Len(path)
      /\ \A n \in 1..Len(path) : looked[n] = Length(SubSeq(path, 1, n))
  <2>1. ASSUME NEW n \in 1..Len(path) PROVE Length(SubSeq(path, 1, n)) \in Nat
    <3>1. n \in 0..Len(path)
      OBVIOUS
    <3>2. SubSeq(path, 1, n) \in Seq(Name)
      BY <3>1, FrontIs
    <3>. QED  BY <3>2, LengthIs
  <2>. QED  BY <2>1
<1>2. stop \in 0..Len(path) /\ (stop = 0 => path = <<>>)
  <2>1. CASE Stops(path) = {}
    BY <2>1, EmptySeq
  <2>2. CASE Stops(path) # {}
    <3>1. Stops(path) \subseteq 1..Len(path)
      BY DEF Stops
    <3>2. PICK x \in Stops(path) : \A y \in Stops(path) : x <= y
      <4>1. Stops(path) \in SUBSET Nat
        BY <3>1
      <4>. QED  BY <2>2, <4>1, LeastNatural
    <3>3. Min(Stops(path)) \in Stops(path)
      BY <3>2 DEF Min
    <3>. QED  BY <2>2, <3>1, <3>3
  <2>. QED  BY <2>1, <2>2
<1>3. Bytes(path) \in Int /\ 0 <= Bytes(path)
  <2>1. CASE path = root
    BY <2>1 DEF Bytes
  <2>2. CASE path # root
    <3>. DEFINE lengths == [n \in 1..Len(path) |-> NameBytes[path[n]] + 1]
    <3>1. Len(path) \in Nat \ {0} /\ 1 \in 1..Len(path)
      BY <2>2, EmptySeq DEF root
    <3>2. lengths \in Seq(Nat) /\ Len(lengths) = Len(path) /\ lengths[1] >= 1
      <4>1. \A n \in 1..Len(path) : NameBytes[path[n]] \in Nat
        BY LinkTargetsAssumption
      <4>2. \A n \in 1..Len(path) : NameBytes[path[n]] + 1 \in Nat /\ NameBytes[path[n]] + 1 >= 1
        BY <4>1
      <4>. QED  BY <3>1, <4>2
    <3>. HIDE DEF lengths
    <3>3. Total(lengths) \in Nat /\ lengths[1] <= Total(lengths) /\ lengths[1] \in Nat
      BY <3>1, <3>2, TotalOfNaturals
    <3>4. Length(path) = Total(lengths)
      BY DEF Length, lengths
    <3>. QED  BY <2>2, <3>2, <3>3, <3>4 DEF Bytes
  <2>. QED  BY <2>1, <2>2
<1>. HIDE DEF looked, stop
<1>4. Length(SubSeq(path, 1, stop)) \in Nat /\ Length(SubSeq(path, 1, stop)) <= Total(looked)
      /\ Total(looked) \in Nat
  <2>0. Total(looked) \in Nat /\ \A n \in 1..Len(path) : looked[n] <= Total(looked)
    BY <1>1, TotalOfNaturals
  <2>1. CASE stop \in 1..Len(path)
    <3>1. Length(SubSeq(path, 1, stop)) = looked[stop] /\ looked[stop] \in Nat
      BY <1>1, <2>1
    <3>. QED  BY <2>0, <2>1, <3>1
  <2>2. CASE stop = 0
    <3>1. SubSeq(path, 1, stop) = <<>>
      BY <1>2, <2>2
    <3>2. [n \in 1..Len(<<>>) |-> NameBytes[<<>>[n]] + 1] = <<>>
      OBVIOUS
    <3>3. Total(<<>>) = 0
      <4>1. <<>> \in Seq(Int) /\ Len(<<>>) = 0
        OBVIOUS
      <4>. QED  BY <4>1, TotalIs
    <3>4. Length(<<>>) = 0
      BY <3>2, <3>3 DEF Length
    <3>5. Length(SubSeq(path, 1, stop)) = 0
      BY <3>1, <3>4, Zenon
    <3>. QED  BY <2>0, <3>5
  <2>. QED  BY <1>2, <2>1, <2>2
<1>5. WorkBytes(path) = 2 * Bytes(path) + Total(looked)
  BY DEF WorkBytes, looked
<1>6. BytesAt(path) = 2 * Bytes(path) + Length(SubSeq(path, 1, stop)) - stop
  BY DEF BytesAt, stop
<1>. QED  BY <1>2, <1>3, <1>4, <1>5, <1>6

Judgeable == {"Directory", "File", "Unowned", "Dangling"}

WalkType ==
  [path : Seq(Name), work : Nat, visited : SUBSET Seq(Name),
   end : Judgeable \cup {"Going", "Limit", "Cycle"}]

(* What is behind a link is a path again.                                  *)
LEMMA BehindIs ==
  ASSUME TargetsInv, NEW path \in Seq(Name), Stops(path) # {}
  PROVE  /\ StateOf(SubSeq(path, 1, Min(Stops(path)))).kind \in {"Symlink", "File"}
         /\ StopsAtLink(path) => Behind(path) \in Seq(Name)
<1>. DEFINE stop == Min(Stops(path))
            state == StateOf(SubSeq(path, 1, stop))
<1>1. stop \in Stops(path) /\ stop \in 1..Len(path)
  <2>1. Stops(path) \subseteq 1..Len(path)
    BY DEF Stops
  <2>2. PICK x \in Stops(path) : \A y \in Stops(path) : x <= y
    <3>1. Stops(path) \in SUBSET Nat
      BY <2>1
    <3>. QED  BY <3>1, LeastNatural
  <2>3. Min(Stops(path)) \in Stops(path)
    BY <2>2 DEF Min
  <2>. QED  BY <2>1, <2>3
<1>2. state.kind \in {"Symlink", "File"}
  <2>. HIDE DEF stop
  <2>. QED  BY <1>1 DEF Stops
<1>3. ASSUME state.kind = "Symlink" PROVE Behind(path) \in Seq(Name)
  <2>1. SubSeq(path, 1, stop) \in DOMAIN entries
    <3>. HIDE DEF stop
    <3>. QED  BY <1>3 DEF StateOf, State
  <2>2. state = entries[SubSeq(path, 1, stop)]
    BY <2>1 DEF StateOf
  <2>. HIDE DEF stop
  <2>3. state.index \in 1..Len(symlinks)
    BY <1>3, <2>1, <2>2 DEF TargetsInv, EntriesInv
  <2>4. symlinks[state.index].resolved_target \in Seq(Name)
    <3>1. symlinks \in Seq(LinkType)
      BY DEF TargetsInv, LinksInv
    <3>. HIDE DEF state
    <3>2. symlinks[state.index] \in LinkType
      BY <2>3, <3>1
    <3>. QED  BY <3>2 DEF LinkType
  <2>5. SubSeq(path, stop + 1, Len(path)) \in Seq(Name)
    BY <1>1
  <2>6. symlinks[state.index].resolved_target \o SubSeq(path, stop + 1, Len(path)) \in Seq(Name)
    BY <2>4, <2>5
  <2>. QED  BY <2>6 DEF Behind, stop
<1>. QED  BY <1>2, <1>3 DEF StopsAtLink

MaxWork == MAX_SYMLINK_RESOLUTION_WORK_BYTES

(* One expansion: it is charged in full, and either ends the resolution or *)
(* goes on behind the link.                                                *)
LEMMA ExpansionIs ==
  ASSUME TargetsInv, NEW walk \in WalkType, walk.end = "Going", walk.work <= MaxWork
  PROVE  LET next == Expansion(walk) IN
         /\ next \in WalkType /\ next.work <= MaxWork
         /\ \/ next.end \in {"Limit", "Cycle"} /\ walk.work <= next.work
            \/ /\ next.end \in Judgeable /\ ~StopsAtLink(walk.path)
               /\ next.work = walk.work + WorkBytes(walk.path)
            \/ /\ next.end = "Going" /\ StopsAtLink(walk.path) /\ next.path = Behind(walk.path)
               /\ next.work = walk.work + WorkBytes(walk.path)
<1>. DEFINE path  == walk.path
            spent == walk.work + WorkBytes(path)
            state == StateOf(SubSeq(path, 1, Min(Stops(path))))
            next  == [walk EXCEPT !.work = spent, !.visited = @ \cup {path}]
<1>1. path \in Seq(Name) /\ WorkBytes(path) \in Nat /\ spent \in Nat /\ walk.work \in Nat
      /\ MaxWork \in Nat /\ walk.work <= spent
  <2>1. path \in Seq(Name) /\ walk.work \in Nat
    BY DEF WalkType
  <2>. HIDE DEF path
  <2>. QED  BY <2>1, WorkCovers, LinkTargetsAssumption DEF MaxWork
<1>2. Stops(path) # {} =>
        state.kind \in {"Symlink", "File"} /\ (StopsAtLink(path) => Behind(path) \in Seq(Name))
  BY <1>1, BehindIs
<1>3. Terminal(path) \in Judgeable
  BY DEF Terminal, Judgeable
<1>4. Expansion(walk) =
        IF spent > MaxWork THEN [walk EXCEPT !.end = "Limit"]
        ELSE IF path \in walk.visited THEN [next EXCEPT !.end = "Cycle"]
        ELSE IF Stops(path) = {} THEN [next EXCEPT !.end = Terminal(path)]
        ELSE IF state.kind = "File" THEN [next EXCEPT !.end = "Dangling"]
        ELSE [next EXCEPT !.path = Behind(path)]
  BY Zenon DEF Expansion, MaxWork, Behind
<1>5. walk = [path |-> path, work |-> walk.work, visited |-> walk.visited, end |-> "Going"]
      /\ walk.visited \in SUBSET Seq(Name)
  BY DEF WalkType
<1>6. next \in WalkType /\ next.work = spent /\ next.path = path /\ next.end = "Going"
  <2>. DEFINE seen == walk.visited \cup {path}
  <2>1. next = [walk EXCEPT !.work = spent, !.visited = seen]
    OBVIOUS
  <2>2. seen \in SUBSET Seq(Name)
    BY <1>1, <1>5
  <2>3. walk.path = path
    OBVIOUS
  <2>. HIDE DEF next, spent, seen, path
  <2>. QED  BY <1>1, <2>1, <2>2, <2>3 DEF WalkType
<1>7. \A end : end \in Judgeable \cup {"Limit", "Cycle"} =>
        LET done == [next EXCEPT !.end = end]
        IN  done \in WalkType /\ done.work = spent /\ done.end = end
  <2>. HIDE DEF next, path, spent
  <2>. QED  BY <1>6 DEF WalkType, Judgeable
<1>. HIDE DEF next, spent, state
<1>8. CASE spent > MaxWork
  <2>1. Expansion(walk) = [walk EXCEPT !.end = "Limit"]
    BY <1>4, <1>8
  <2>2. Expansion(walk) \in WalkType /\ Expansion(walk).end = "Limit"
        /\ Expansion(walk).work = walk.work
    BY <2>1 DEF WalkType
  <2>. QED  BY <1>1, <2>2
<1>. HIDE DEF path
<1>9. CASE ~(spent > MaxWork) /\ path \in walk.visited
  <2>1. Expansion(walk) = [next EXCEPT !.end = "Cycle"]
    BY <1>4, <1>9
  <2>2. /\ Expansion(walk) \in WalkType /\ Expansion(walk).work = spent
        /\ Expansion(walk).end = "Cycle"
    BY <1>7, <2>1
  <2>. QED  BY <1>1, <1>9, <2>2
<1>10. CASE ~(spent > MaxWork) /\ path \notin walk.visited /\ Stops(path) = {}
  <2>1. Expansion(walk) = [next EXCEPT !.end = Terminal(path)]
    BY <1>4, <1>10
  <2>2. /\ Expansion(walk) \in WalkType /\ Expansion(walk).work = spent
        /\ Expansion(walk).end \in Judgeable
    BY <1>3, <1>7, <2>1
  <2>3. ~StopsAtLink(path)
    BY <1>10 DEF StopsAtLink
  <2>. QED  BY <1>1, <1>10, <2>2, <2>3 DEF path, spent
<1>11. CASE ~(spent > MaxWork) /\ path \notin walk.visited /\ Stops(path) # {} /\ state.kind = "File"
  <2>1. Expansion(walk) = [next EXCEPT !.end = "Dangling"]
    BY <1>4, <1>11
  <2>2. /\ Expansion(walk) \in WalkType /\ Expansion(walk).work = spent
        /\ Expansion(walk).end \in Judgeable
    BY <1>7, <2>1 DEF Judgeable
  <2>3. ~StopsAtLink(path)
    BY <1>11 DEF StopsAtLink, state
  <2>. QED  BY <1>1, <1>11, <2>2, <2>3 DEF path, spent
<1>12. CASE ~(spent > MaxWork) /\ path \notin walk.visited /\ Stops(path) # {} /\ state.kind # "File"
  <2>1. Expansion(walk) = [next EXCEPT !.path = Behind(path)]
    BY <1>4, <1>12
  <2>2. StopsAtLink(path) /\ Behind(path) \in Seq(Name)
    BY <1>2, <1>12 DEF StopsAtLink, state
  <2>3. /\ Expansion(walk) \in WalkType /\ Expansion(walk).work = spent
        /\ Expansion(walk).end = "Going" /\ Expansion(walk).path = Behind(path)
    BY <1>6, <2>1, <2>2 DEF WalkType
  <2>. QED  BY <1>1, <1>12, <2>2, <2>3 DEF path, spent
<1>. QED  BY <1>8, <1>9, <1>10, <1>11, <1>12

(* A walk of n steps over the values of a set.                             *)
Climbs(h, n, start, step) == h[0] = start /\ \A k \in 1..n : h[k] = step[h[k - 1]]

LEMMA Ladder ==
  ASSUME NEW n \in Nat, NEW V, NEW start \in V, NEW step \in [V -> V]
  PROVE  \E h \in [0..n -> V] : Climbs(h, n, start, step)
<1>. DEFINE steps == [k \in 1..n |-> step]
<1>1. steps \in [1..n -> [V -> V]]
  OBVIOUS
<1>2. \A k \in 1..n : steps[k] = step
  OBVIOUS
<1>. HIDE DEF steps
<1>3. PICK h \in [0..n -> V] : Recursive(h, n, start, steps)
  BY <1>1, RecursionExists
<1>. QED  BY <1>2, <1>3 DEF Recursive, Climbs

(* The walk whose bytes are counted.                                       *)
Onward(b) ==
  IF ~StopsAtLink(b.path) THEN b
  ELSE [path |-> Behind(b.path), bytes |-> b.bytes + BytesAt(Behind(b.path))]

WalkedBy(path, b) ==
  /\ b \in [0..(MAX_SYMLINK_EXPANSIONS + 1) -> [path : Seq(Name), bytes : Int]]
  /\ b[0] = [path |-> path, bytes |-> BytesAt(path)]
  /\ \A n \in 1..(MAX_SYMLINK_EXPANSIONS + 1) : b[n] = Onward(b[n - 1])
  /\ BytesWalked(path) = b[MAX_SYMLINK_EXPANSIONS + 1].bytes

LEMMA BytesWalkedIs == TargetsInv => \A p \in Seq(Name) : \E walk : WalkedBy(p, walk)
<1>. SUFFICES ASSUME TargetsInv, NEW path \in Seq(Name) PROVE \E b : WalkedBy(path, b)
  OBVIOUS
<1>. DEFINE M == MAX_SYMLINK_EXPANSIONS + 1
            B == [path : Seq(Name), bytes : Int]
            more(b) == IF ~StopsAtLink(b.path) THEN b
                       ELSE [path |-> Behind(b.path), bytes |-> b.bytes + BytesAt(Behind(b.path))]
            bytes[n \in 0..M] ==
              IF n = 0 THEN [path |-> path, bytes |-> BytesAt(path)]
              ELSE LET last == bytes[n - 1]
                   IN  IF ~StopsAtLink(last.path) THEN last
                       ELSE [path |-> Behind(last.path),
                             bytes |-> last.bytes + BytesAt(Behind(last.path))]
            add == [b \in B |-> more(b)]
<1>1. M \in Nat /\ M >= 1 /\ 0 \in 0..M /\ M \in 0..M
  BY LinkTargetsAssumption
<1>4. [path |-> path, bytes |-> BytesAt(path)] \in B
  BY WorkCovers
<1>5. ASSUME NEW b \in B PROVE more(b) \in B
  <2>1. CASE StopsAtLink(b.path)
    <3>1. b.path \in Seq(Name) /\ b.bytes \in Int
      OBVIOUS
    <3>2. Behind(b.path) \in Seq(Name)
      BY <2>1, <3>1, BehindIs DEF StopsAtLink
    <3>3. BytesAt(Behind(b.path)) \in Int
      BY <3>2, WorkCovers
    <3>. QED  BY <2>1, <3>1, <3>2, <3>3
  <2>. QED  BY <2>1
<1>. HIDE DEF M
<1>7. bytes \in [0..M -> B] /\ bytes[0] = [path |-> path, bytes |-> BytesAt(path)]
      /\ \A n \in 1..M : bytes[n] = more(bytes[n - 1])
  <2>1. add \in [B -> B] /\ \A b \in B : add[b] = more(b)
    <3>. HIDE DEF B, more
    <3>. QED  BY <1>5
  <2>. HIDE DEF B, add
  <2>2. PICK h \in [0..M -> B] :
          h[0] = [path |-> path, bytes |-> BytesAt(path)] /\ \A k \in 1..M : h[k] = add[h[k - 1]]
    <3>1. PICK start \in B : start = [path |-> path, bytes |-> BytesAt(path)]
      BY <1>4
    <3>2. PICK step \in [B -> B] : step = add
      BY <2>1
    <3>3. \E h \in [0..M -> B] : Climbs(h, M, start, step)
      BY <1>1, <3>1, <3>2, Ladder
    <3>. QED  BY <3>1, <3>2, <3>3 DEF Climbs
  <2>3. ASSUME NEW k \in 0..M
        PROVE  h[k] = IF k = 0 THEN [path |-> path, bytes |-> BytesAt(path)] ELSE more(h[k - 1])
    <3>1. k = 0 \/ (k \in 1..M /\ k - 1 \in 0..M)
      BY <1>1
    <3>2. k # 0 => h[k - 1] \in B
      BY <2>2, <3>1
    <3>. HIDE DEF more
    <3>. QED  BY <2>1, <2>2, <3>1, <3>2
  <2>4. h = [k \in 0..M |-> IF k = 0 THEN [path |-> path, bytes |-> BytesAt(path)] ELSE more(h[k - 1])]
    <3>. HIDE DEF more
    <3>. QED  BY <2>2, <2>3
  <2>5. bytes = [k \in 0..M |-> IF k = 0 THEN [path |-> path, bytes |-> BytesAt(path)]
                                ELSE more(bytes[k - 1])]
    BY <2>4, Zenon DEF bytes
  <2>. HIDE DEF bytes, more
  <2>6. \A k \in 0..M : bytes[k] \in B
    <3>. DEFINE T == { k \in 0..M : bytes[k] \in B }
    <3>1. 0 \in T
      BY <1>1, <1>4, <2>5
    <3>2. ASSUME NEW k \in 0..(M - 1), k \in T PROVE k + 1 \in T
      <4>1. k + 1 \in 0..M /\ k + 1 # 0 /\ (k + 1) - 1 = k
        BY <1>1
      <4>. QED  BY <1>5, <2>5, <3>2, <4>1
    <3>3. \A k \in 0..M : k \in T
      <4>. HIDE DEF T
      <4>. QED  BY <1>1, <3>1, <3>2, CountingUp
    <3>. QED  BY <3>3
  <2>7. \A n \in 1..M : n \in 0..M /\ n # 0
    OBVIOUS
  <2>. QED  BY <1>1, <2>5, <2>6, <2>7
<1>8. BytesWalked(path) = bytes[M].bytes
  BY Zenon DEF BytesWalked, bytes, M
<1>. QED  BY <1>7, <1>8, Zenon DEF WalkedBy, Onward, M

LEMMA BytesWalkedNext ==
  (TargetsInv => \A p \in Seq(Name) : \E walk : WalkedBy(p, walk))'
BY BytesWalkedIs, PTL

(* It stays the same while entries and links do.                           *)
LEMMA WalkStays ==
  ASSUME TargetsInv, TargetsInv', UNCHANGED <<entries, symlinks>>, NEW path \in Seq(Name)
  PROVE  BytesWalked(path)' = BytesWalked(path)
<1>. DEFINE M == MAX_SYMLINK_EXPANSIONS + 1
<1>1. M \in Nat /\ 0 \in 0..M /\ M \in 0..M
  BY LinkTargetsAssumption
<1>2. PICK b : WalkedBy(path, b)
  BY BytesWalkedIs
<1>3. PICK c : WalkedBy(path, c)'
  BY BytesWalkedNext
<1>4. \A x : StateOf(x)' = StateOf(x)
  BY DEF StateOf
<1>5. \A x : Stops(x)' = Stops(x)
  BY <1>4 DEF Stops
<1>6. \A x : /\ BytesAt(x)' = BytesAt(x) /\ Behind(x)' = Behind(x)
             /\ StopsAtLink(x)' = StopsAtLink(x)
  BY <1>4, <1>5 DEF BytesAt, Behind, StopsAtLink
<1>7. \A x : Onward(x)' = Onward(x)
  BY <1>6 DEF Onward
<1>. HIDE DEF M
<1>8. /\ b[0] = c[0]
      /\ \A n \in 1..M : b[n] = Onward(b[n - 1]) /\ c[n] = Onward(c[n - 1])
      /\ BytesWalked(path) = b[M].bytes /\ BytesWalked(path)' = c[M].bytes
  BY <1>2, <1>3, <1>6, <1>7, Zenon DEF WalkedBy, M
<1>. DEFINE T == { n \in 0..M : b[n] = c[n] }
<1>9. 0 \in T
  BY <1>1, <1>8
<1>10. ASSUME NEW k \in 0..(M - 1), k \in T PROVE k + 1 \in T
  <2>1. k + 1 \in 1..M /\ k + 1 \in 0..M /\ (k + 1) - 1 = k
    BY <1>1
  <2>. QED  BY <1>8, <1>10, <2>1
<1>11. \A k \in 0..M : k \in T
  <2>. HIDE DEF T
  <2>. QED  BY <1>1, <1>9, <1>10, CountingUp
<1>. QED  BY <1>1, <1>8, <1>11

(* What was charged for a resolution covers the paths it went through.     *)
LEMMA ResolutionIs ==
  ASSUME TargetsInv, NEW path \in Seq(Name), work \in Nat, work <= MaxWork
  PROVE  LET last == ResolveTerminal(path) IN
         /\ last \in WalkType /\ last.end # "Going"
         /\ last.work <= MaxWork /\ work <= last.work
         /\ BytesWalked(path) \in Int
         /\ last.end \in Judgeable => work + BytesWalked(path) <= last.work
<1>. DEFINE M == MAX_SYMLINK_EXPANSIONS + 1
            V == { w \in WalkType : w.work <= MaxWork }
            B == [path : Seq(Name), bytes : Int]
            next(w) == IF w.end = "Going" THEN Expansion(w) ELSE w
            more(b) == IF ~StopsAtLink(b.path) THEN b
                       ELSE [path |-> Behind(b.path), bytes |-> b.bytes + BytesAt(Behind(b.path))]
            walk[n \in 0..M] ==
              IF n = 0 THEN StartOf(path, work)
              ELSE LET last == walk[n - 1]
                   IN  IF last.end = "Going" THEN Expansion(last) ELSE last
            go  == [w \in V |-> next(w)]
<1>1. M \in Nat /\ M >= 1 /\ 0 \in 0..M /\ M \in 0..M
  BY LinkTargetsAssumption
<1>2. StartOf(path, work) \in V
  BY DEF StartOf, WalkType
<1>3. ASSUME NEW w \in V PROVE next(w) \in V
  BY <1>3, ExpansionIs
<1>. HIDE DEF M
<1>6. walk \in [0..M -> V] /\ walk[0] = StartOf(path, work)
      /\ \A n \in 1..M : walk[n] = next(walk[n - 1])
  <2>1. go \in [V -> V] /\ \A w \in V : go[w] = next(w)
    <3>. HIDE DEF V, next
    <3>. QED  BY <1>3
  <2>. HIDE DEF V, go
  <2>2. PICK h \in [0..M -> V] :
          h[0] = StartOf(path, work) /\ \A k \in 1..M : h[k] = go[h[k - 1]]
    <3>1. PICK start \in V : start = StartOf(path, work)
      BY <1>2
    <3>2. PICK step \in [V -> V] : step = go
      BY <2>1
    <3>3. \E h \in [0..M -> V] : Climbs(h, M, start, step)
      BY <1>1, <3>1, <3>2, Ladder
    <3>. QED  BY <3>1, <3>2, <3>3 DEF Climbs
  <2>3. ASSUME NEW k \in 0..M
        PROVE  h[k] = IF k = 0 THEN StartOf(path, work) ELSE next(h[k - 1])
    <3>1. k = 0 \/ (k \in 1..M /\ k - 1 \in 0..M)
      BY <1>1
    <3>2. k # 0 => h[k - 1] \in V
      BY <2>2, <3>1
    <3>. HIDE DEF next
    <3>. QED  BY <2>1, <2>2, <3>1, <3>2
  <2>4. h = [k \in 0..M |-> IF k = 0 THEN StartOf(path, work) ELSE next(h[k - 1])]
    <3>. HIDE DEF next
    <3>. QED  BY <2>2, <2>3
  <2>5. walk = [k \in 0..M |-> IF k = 0 THEN StartOf(path, work) ELSE next(walk[k - 1])]
    BY <2>4, Zenon DEF walk
  <2>6. \A k \in 0..M : walk[k] \in V
    <3>. HIDE DEF walk, next, V
    <3>. DEFINE T == { k \in 0..M : walk[k] \in V }
    <3>1. 0 \in T
      BY <1>1, <1>2, <2>5
    <3>2. ASSUME NEW k \in 0..(M - 1), k \in T PROVE k + 1 \in T
      <4>1. k + 1 \in 0..M /\ k + 1 # 0 /\ (k + 1) - 1 = k
        BY <1>1
      <4>. QED  BY <1>3, <2>5, <3>2, <4>1
    <3>3. \A k \in 0..M : k \in T
      <4>. HIDE DEF T
      <4>. QED  BY <1>1, <3>1, <3>2, CountingUp
    <3>. QED  BY <3>3
  <2>7. \A n \in 1..M : n \in 0..M /\ n # 0
    OBVIOUS
  <2>. HIDE DEF walk, next, V
  <2>. QED  BY <1>1, <2>5, <2>6, <2>7
<1>7. PICK bytes : WalkedBy(path, bytes)
  BY BytesWalkedIs
<1>8. /\ bytes \in [0..M -> B] /\ bytes[0] = [path |-> path, bytes |-> BytesAt(path)]
      /\ \A n \in 1..M : bytes[n] = more(bytes[n - 1])
      /\ BytesWalked(path) = bytes[M].bytes
  BY <1>7, Zenon DEF WalkedBy, Onward, M
<1>9. ResolveTerminal(path) =
        IF walk[M].end = "Going" THEN [walk[M] EXCEPT !.end = "Limit"] ELSE walk[M]
  BY Zenon DEF ResolveTerminal, walk, M
<1>. HIDE DEF walk
(* Side by side: what is left to charge is the path each stands at.        *)
<1>. DEFINE Abreast(n) ==
       /\ work <= walk[n].work
       /\ walk[n].end = "Going" =>
            /\ bytes[n].path = walk[n].path
            /\ work + bytes[n].bytes - BytesAt(walk[n].path) <= walk[n].work
       /\ walk[n].end \in Judgeable =>
            ~StopsAtLink(bytes[n].path) /\ work + bytes[n].bytes <= walk[n].work
<1>10. Abreast(0)
  <2>1. BytesAt(path) \in Int
    BY WorkCovers
  <2>. QED  BY <1>6, <1>8, <2>1 DEF StartOf, Judgeable
<1>11. ASSUME NEW n \in 1..M, Abreast(n - 1) PROVE Abreast(n)
  <2>. DEFINE w == walk[n - 1]
              b == bytes[n - 1]
  <2>1. /\ w \in V /\ b \in B /\ walk[n] = next(w) /\ bytes[n] = more(b) /\ n - 1 \in 0..M
        /\ walk[n] \in V /\ bytes[n] \in B
    <3>1. n - 1 \in 0..M /\ n \in 0..M
      BY <1>1
    <3>. HIDE DEF V, B, next, more
    <3>. QED  BY <1>6, <1>8, <3>1
  <2>2. /\ work <= w.work
        /\ w.end = "Going" => b.path = w.path /\ work + b.bytes - BytesAt(w.path) <= w.work
        /\ w.end \in Judgeable => ~StopsAtLink(b.path) /\ work + b.bytes <= w.work
    BY <1>11
  <2>. HIDE DEF w, b
  <2>3. CASE w.end # "Going"
    <3>1. walk[n] = w
      BY <2>1, <2>3
    <3>2. w.end \in Judgeable => bytes[n] = b
      BY <2>1, <2>2
    <3>. QED  BY <2>2, <2>3, <3>1, <3>2
  <2>4. CASE w.end = "Going"
    <3>. DEFINE e == Expansion(w)
    <3>1. /\ w \in WalkType /\ w.work <= MaxWork /\ w.work \in Nat /\ w.path \in Seq(Name)
          /\ b.bytes \in Int
      BY <2>1 DEF WalkType
    <3>2. /\ walk[n] = e
          /\ e \in WalkType
          /\ \/ e.end \in {"Limit", "Cycle"} /\ w.work <= e.work
             \/ /\ e.end \in Judgeable /\ ~StopsAtLink(w.path) /\ e.work = w.work + WorkBytes(w.path)
             \/ /\ e.end = "Going" /\ StopsAtLink(w.path) /\ e.path = Behind(w.path)
                /\ e.work = w.work + WorkBytes(w.path)
      BY <2>1, <2>4, <3>1, ExpansionIs
    <3>3. /\ WorkBytes(w.path) \in Nat /\ BytesAt(w.path) \in Int
          /\ BytesAt(w.path) <= WorkBytes(w.path)
      BY <3>1, WorkCovers
    <3>4. b.path = w.path /\ work + b.bytes <= w.work + WorkBytes(w.path)
      BY <2>2, <2>4, <3>1, <3>3
    <3>5. e.work \in Nat
      BY <3>2 DEF WalkType
    <3>. HIDE DEF e
    <3>6. CASE e.end \in {"Limit", "Cycle"} /\ w.work <= e.work
      <4>1. work <= e.work
        BY <2>2, <3>1, <3>5, <3>6
      <4>. QED  BY <3>2, <3>6, <4>1 DEF Judgeable
    <3>7. CASE e.end \in Judgeable /\ ~StopsAtLink(w.path) /\ e.work = w.work + WorkBytes(w.path)
      <4>1. bytes[n] = b
        BY <2>1, <3>4, <3>7
      <4>2. work <= e.work
        BY <2>2, <3>1, <3>3, <3>7
      <4>. QED  BY <3>2, <3>4, <3>7, <4>1, <4>2 DEF Judgeable
    <3>8. CASE e.end = "Going" /\ StopsAtLink(w.path) /\ e.path = Behind(w.path)
               /\ e.work = w.work + WorkBytes(w.path)
      <4>1. bytes[n] = [path |-> Behind(b.path), bytes |-> b.bytes + BytesAt(Behind(b.path))]
        BY <2>1, <3>4, <3>8
      <4>2. bytes[n].path = e.path /\ bytes[n].bytes = b.bytes + BytesAt(e.path)
        BY <3>4, <3>8, <4>1
      <4>3. BytesAt(e.path) \in Int
        <5>1. e.path \in Seq(Name)
          BY <3>2 DEF WalkType
        <5>. QED  BY <5>1, WorkCovers
      <4>4. work <= e.work
        BY <2>2, <3>1, <3>3, <3>8
      <4>. QED  BY <3>1, <3>2, <3>4, <3>8, <4>2, <4>3, <4>4 DEF Judgeable
    <3>. QED  BY <3>2, <3>6, <3>7, <3>8
  <2>. QED  BY <2>3, <2>4
<1>12. Abreast(M)
  <2>. DEFINE T == { n \in 0..M : Abreast(n) }
  <2>. HIDE DEF Abreast
  <2>1. 0 \in T
    BY <1>1, <1>10
  <2>2. ASSUME NEW k \in 0..(M - 1), k \in T PROVE k + 1 \in T
    <3>1. k + 1 \in 1..M /\ k + 1 \in 0..M /\ (k + 1) - 1 = k
      BY <1>1
    <3>. QED  BY <1>11, <2>2, <3>1
  <2>3. \A k \in 0..M : k \in T
    <3>1. PICK T0 : T0 = T
      OBVIOUS
    <3>. HIDE DEF T
    <3>. QED  BY <1>1, <2>1, <2>2, <3>1, CountingUp
  <2>. QED  BY <1>1, <2>3
<1>13. /\ walk[M] \in WalkType /\ walk[M].work <= MaxWork /\ bytes[M].bytes \in Int
  <2>1. walk[M] \in V /\ bytes[M] \in B
    <3>. HIDE DEF V, B
    <3>. QED  BY <1>1, <1>6, <1>8
  <2>. QED  BY <2>1
<1>14. CASE walk[M].end # "Going"
  BY <1>8, <1>9, <1>12, <1>13, <1>14
<1>15. CASE walk[M].end = "Going"
  <2>1. ResolveTerminal(path) = [walk[M] EXCEPT !.end = "Limit"]
    BY <1>9, <1>15
  <2>2. /\ ResolveTerminal(path) \in WalkType /\ ResolveTerminal(path).end = "Limit"
        /\ ResolveTerminal(path).work = walk[M].work
    BY <1>13, <2>1 DEF WalkType
  <2>. QED  BY <1>8, <1>12, <1>13, <2>2 DEF Judgeable
<1>. QED  BY <1>14, <1>15

-----------------------------------------------------------------------------
(* The links that are judged and created.                                  *)

Walked == [i \in 1..Len(judged) |-> BytesWalked(symlinks[judged[i].link].resolved_target)]

SpentInv ==
  /\ work \in Nat /\ work <= MaxWork
  /\ Walked \in Seq(Int) /\ Total(Walked) <= work

LEMMA VerdictIs ==
  ASSUME DiskInv, NEW link, NEW walk \in WalkType, walk.end # "Going",
         Verdict(link, walk) # "Refused"
  PROVE  /\ Verdict(link, walk) \in {"Directory", "File", "Link", "Dangling"}
         /\ walk.end \in Judgeable
<1>. DEFINE kind == IF walk.end = "Unowned" THEN AmbientKind(walk.path) ELSE walk.end
<1>1. Verdict(link, walk) = kind /\ walk.end \notin {"Limit", "Cycle"}
  BY Zenon DEF Verdict
<1>2. walk.end \in Judgeable
  BY <1>1 DEF WalkType
<1>3. AmbientKind(walk.path) \in {"Directory", "File", "Link", "Dangling"}
  <2>1. \A p \in DOMAIN disk : disk[p] \in NodeType
    BY DEF DiskInv
  <2>. QED  BY <2>1 DEF AmbientKind, NodeType
<1>. QED  BY <1>1, <1>2, <1>3 DEF Judgeable

(* What the resolutions of the links judged so far went through.           *)
LEMMA WalkedAppended ==
  ASSUME TargetsInv, SpentInv, TargetsInv', UNCHANGED <<entries, symlinks>>,
         NEW link \in 1..Len(symlinks), NEW kind,
         judged' = Append(judged, [link |-> link, kind |-> kind])
  PROVE  /\ Walked' \in Seq(Int)
         /\ Total(Walked') = Total(Walked) + BytesWalked(symlinks[link].resolved_target)
         /\ Total(Walked) \in Int
<1>1. symlinks \in Seq(LinkType)
  BY DEF TargetsInv, LinksInv
<1>2. \A l \in 1..Len(symlinks) : symlinks[l].resolved_target \in Seq(Name)
  <2>1. \A l \in 1..Len(symlinks) : symlinks[l] \in LinkType
    BY <1>1
  <2>. QED  BY <2>1 DEF LinkType
<1>3. \A p \in Seq(Name) : BytesWalked(p)' = BytesWalked(p)
  BY WalkStays
<1>4. /\ Len(judged') = Len(judged) + 1 /\ Len(judged) \in Nat
      /\ \A i \in 1..Len(judged) : judged'[i] = judged[i] /\ judged[i].link \in 1..Len(symlinks)
      /\ judged'[Len(judged) + 1] = [link |-> link, kind |-> kind]
  BY AppendProperties DEF TargetsInv, JudgedInv
<1>. DEFINE x == BytesWalked(symlinks[link].resolved_target)
            n == Len(judged)
<1>5. x \in Int
  <2>1. symlinks[link].resolved_target \in Seq(Name)
    BY <1>2
  <2>. HIDE DEF x
  <2>2. PICK b : WalkedBy(symlinks[link].resolved_target, b)
    BY <2>1, BytesWalkedIs
  <2>3. MAX_SYMLINK_EXPANSIONS + 1 \in 0..(MAX_SYMLINK_EXPANSIONS + 1)
    BY LinkTargetsAssumption
  <2>. QED  BY <2>2, <2>3 DEF WalkedBy, x
<1>6. Walked \in Seq(Int) /\ Len(Walked) = n
      /\ \A i \in 1..n : Walked[i] = BytesWalked(symlinks[judged[i].link].resolved_target)
  <2>1. Walked \in Seq(Int)
    BY DEF SpentInv
  <2>. QED  BY <1>4, <2>1 DEF Walked
<1>7. Walked' = Append(Walked, x)
  <2>. DEFINE later(i) == BytesWalked(symlinks[judged'[i].link].resolved_target)
  <2>1. Walked' = [i \in 1..(n + 1) |-> BytesWalked(symlinks[judged[i].link].resolved_target)']
    BY <1>4 DEF Walked
  <2>2. ASSUME NEW i \in 1..(n + 1)
        PROVE  BytesWalked(symlinks[judged[i].link].resolved_target)' = later(i)
    <3>1. judged'[i].link \in 1..Len(symlinks)
      <4>1. i \in 1..n \/ i = n + 1
        BY <1>4
      <4>. QED  BY <1>4, <4>1
    <3>2. symlinks[judged'[i].link].resolved_target \in Seq(Name)
      BY <1>2, <3>1
    <3>. QED  BY <1>3, <3>2
  <2>3. Walked' = [i \in 1..(n + 1) |-> later(i)]
    BY <2>1, <2>2, Zenon
  <2>4. ASSUME NEW i \in 1..n PROVE later(i) = Walked[i]
    BY <1>4, <1>6
  <2>5. later(n + 1) = x
    BY <1>4
  <2>6. /\ Append(Walked, x) = [i \in 1..(n + 1) |-> IF i = n + 1 THEN x ELSE Walked[i]]
    BY <1>4, <1>6
  <2>7. ASSUME NEW i \in 1..(n + 1) PROVE later(i) = IF i = n + 1 THEN x ELSE Walked[i]
    <3>1. i \in 1..n \/ i = n + 1
      BY <1>4
    <3>. HIDE DEF later, x
    <3>. QED  BY <1>4, <2>4, <2>5, <3>1
  <2>. HIDE DEF later, x
  <2>. QED  BY <2>3, <2>6, <2>7
<1>. HIDE DEF x
<1>8. Total(Append(Walked, x)) = Total(Walked) + x /\ Append(Walked, x) \in Seq(Int)
      /\ Total(Walked) \in Int
  <2>1. PICK v \in Seq(Int) : v = Walked
    BY <1>6
  <2>2. PICK y \in Int : y = x
    BY <1>5
  <2>3. Total(v) \in Int /\ Total(Append(v, y)) = Total(v) + y /\ Append(v, y) \in Seq(Int)
    BY TotalAppended
  <2>. QED  BY <2>1, <2>2, <2>3
<1>. QED  BY <1>7, <1>8 DEF x

LEMMA WalkedKept ==
  ASSUME TargetsInv, SpentInv, TargetsInv', UNCHANGED <<entries, symlinks, judged>>,
         work' \in Nat, work' <= MaxWork, work <= work'
  PROVE  SpentInv'
<1>1. symlinks \in Seq(LinkType)
  BY DEF TargetsInv, LinksInv
<1>2. \A i \in 1..Len(judged) : symlinks[judged[i].link].resolved_target \in Seq(Name)
  <2>1. \A l \in 1..Len(symlinks) : symlinks[l] \in LinkType
    BY <1>1
  <2>. QED  BY <2>1 DEF LinkType, TargetsInv, JudgedInv
<1>3. \A p \in Seq(Name) : BytesWalked(p)' = BytesWalked(p)
  BY WalkStays
<1>4. ASSUME NEW i \in 1..Len(judged)
      PROVE  BytesWalked(symlinks[judged[i].link].resolved_target)'
               = BytesWalked(symlinks[judged[i].link].resolved_target)
  BY <1>2, <1>3
<1>5. Walked' = Walked
  BY <1>4 DEF Walked
<1>6. Total(Walked)' = Total(Walked) /\ Total(Walked) \in Int
  <2>1. PICK v \in Seq(Int) : v = Walked
    BY DEF SpentInv
  <2>2. Total(v) \in Int
    <3>1. 0 \in Int
      OBVIOUS
    <3>. QED  BY <3>1, TotalAppended
  <2>. QED  BY <1>5, <2>1, <2>2
<1>. QED  BY <1>5, <1>6 DEF SpentInv, MaxWork

LEMMA JudgeLinkKeeps ==
  ASSUME TargetsInv, SpentInv, JudgeLink
  PROVE  TargetsInv' /\ SpentInv'
<1>1. /\ phase = "Judge" /\ at \in 1..Len(symlinks)
      /\ UNCHANGED <<entries, symlinks, disk>>
  BY DEF JudgeLink, TargetsInv, JudgedInv, LinksInv
<1>2. /\ LinksInv' /\ EntriesInv' /\ DiskInv'
  BY <1>1 DEF TargetsInv, LinksInv, EntriesInv, DiskInv, LinksIn
<1>3. CASE ~IsActive(at) /\ at' = at + 1 /\ UNCHANGED <<phase, work, judged>>
  <2>1. TargetsInv'
    BY <1>1, <1>2, <1>3 DEF TargetsInv, JudgedInv
  <2>2. work' \in Nat /\ work' <= MaxWork /\ work <= work'
    BY <1>3 DEF SpentInv
  <2>. QED  BY <1>1, <1>3, <2>1, <2>2, WalkedKept
<1>4. CASE IsActive(at)
  <2>. DEFINE walk == ResolveTerminal(symlinks[at].resolved_target)
              verdict == Verdict(symlinks[at], walk)
  <2>1. /\ work' = walk.work
        /\ \/ /\ verdict = "Refused" /\ UNCHANGED <<at, judged>>
              /\ phase' = IF walk.end = "Limit" THEN "Limit" ELSE "Refused"
           \/ /\ verdict # "Refused" /\ at' = at + 1 /\ UNCHANGED phase
              /\ judged' = Append(judged, [link |-> at, kind |-> verdict])
    BY <1>4 DEF JudgeLink
  <2>2. symlinks[at].resolved_target \in Seq(Name)
    <3>1. symlinks \in Seq(LinkType)
      BY DEF TargetsInv, LinksInv
    <3>2. symlinks[at] \in LinkType
      BY <1>1, <3>1
    <3>. QED  BY <3>2 DEF LinkType
  <2>3. /\ walk \in WalkType /\ walk.end # "Going"
        /\ walk.work <= MaxWork /\ work <= walk.work /\ walk.work \in Nat
        /\ BytesWalked(symlinks[at].resolved_target) \in Int
        /\ walk.end \in Judgeable =>
             work + BytesWalked(symlinks[at].resolved_target) <= walk.work
    <3>1. PICK p \in Seq(Name) : p = symlinks[at].resolved_target
      BY <2>2
    <3>2. /\ ResolveTerminal(p) \in WalkType /\ ResolveTerminal(p).end # "Going"
          /\ ResolveTerminal(p).work <= MaxWork /\ work <= ResolveTerminal(p).work
          /\ BytesWalked(p) \in Int
          /\ ResolveTerminal(p).end \in Judgeable =>
               work + BytesWalked(p) <= ResolveTerminal(p).work
      BY ResolutionIs DEF SpentInv
    <3>3. walk = ResolveTerminal(p)
      BY <3>1
    <3>. HIDE DEF walk
    <3>4. walk.work \in Nat
      BY <3>2, <3>3 DEF WalkType
    <3>. QED  BY <3>1, <3>2, <3>3, <3>4
  <2>. HIDE DEF walk, verdict
  <2>4. CASE verdict = "Refused" /\ UNCHANGED <<at, judged>>
             /\ phase' = IF walk.end = "Limit" THEN "Limit" ELSE "Refused"
    <3>1. phase' # "Members"
      BY <2>4
    <3>2. TargetsInv'
      BY <1>1, <1>2, <2>4, <3>1 DEF TargetsInv, JudgedInv
    <3>. QED  BY <1>1, <2>1, <2>3, <2>4, <3>2, WalkedKept
  <2>5. CASE /\ verdict # "Refused" /\ at' = at + 1 /\ UNCHANGED phase
             /\ judged' = Append(judged, [link |-> at, kind |-> verdict])
    <3>1. verdict \in {"Directory", "File", "Link", "Dangling"} /\ walk.end \in Judgeable
      BY <2>3, <2>5, VerdictIs DEF verdict, TargetsInv
    <3>2. JudgedInv'
      <4>1. /\ judged \in Seq([link : Nat, kind : {"Directory", "File", "Link", "Dangling"}])
            /\ at \in Nat \ {0}
            /\ \A i \in 1..Len(judged) : judged[i].link \in 1..Len(symlinks)
        BY DEF TargetsInv, JudgedInv
      <4>. DEFINE new == [link |-> at, kind |-> verdict]
      <4>2. new \in [link : Nat, kind : {"Directory", "File", "Link", "Dangling"}] /\ new.link = at
        BY <3>1, <4>1
      <4>. HIDE DEF new
      <4>3. /\ judged' \in Seq([link : Nat, kind : {"Directory", "File", "Link", "Dangling"}])
            /\ Len(judged') = Len(judged) + 1 /\ judged'[Len(judged) + 1] = new
            /\ \A i \in 1..Len(judged) : judged'[i] = judged[i]
        BY <2>5, <4>1, <4>2, AppendProperties DEF new
      <4>4. ASSUME NEW i \in 1..Len(judged') PROVE judged'[i].link \in 1..Len(symlinks)
        <5>1. i \in 1..Len(judged) \/ i = Len(judged) + 1
          BY <4>1, <4>3
        <5>. QED  BY <1>1, <4>1, <4>2, <4>3, <5>1
      <4>. QED  BY <1>1, <2>5, <4>1, <4>3, <4>4 DEF JudgedInv
    <3>3. TargetsInv'
      BY <1>2, <3>2 DEF TargetsInv
    <3>4. /\ Walked' \in Seq(Int) /\ Total(Walked) \in Int
          /\ Total(Walked') = Total(Walked) + BytesWalked(symlinks[at].resolved_target)
      <4>1. PICK link \in 1..Len(symlinks) : link = at
        BY <1>1
      <4>2. PICK kind : kind = verdict
        OBVIOUS
      <4>3. judged' = Append(judged, [link |-> link, kind |-> kind])
        BY <2>5, <4>1, <4>2
      <4>. QED  BY <1>1, <3>3, <4>1, <4>3, WalkedAppended
    <3>5. Total(Walked) <= work /\ work \in Nat
      BY DEF SpentInv
    <3>6. Total(Walked') <= work'
      BY <2>1, <2>3, <3>1, <3>4, <3>5
    <3>. QED  BY <2>1, <2>3, <3>3, <3>4, <3>6 DEF SpentInv, MaxWork
  <2>. QED  BY <2>1, <2>4, <2>5
<1>. QED  BY <1>3, <1>4 DEF JudgeLink

LEMMA NothingWalked ==
  ASSUME SpentInv, judged' = <<>>, work' = work
  PROVE  SpentInv'
<1>1. Walked' = <<>>
  BY DEF Walked
<1>2. Total(<<>>) = 0
  <2>1. <<>> \in Seq(Int) /\ Len(<<>>) = 0
    OBVIOUS
  <2>. QED  BY <2>1, TotalIs
<1>3. <<>> \in Seq(Int)
  OBVIOUS
<1>4. Total(Walked)' = 0
  BY <1>1, <1>2
<1>. QED  BY <1>1, <1>3, <1>4 DEF SpentInv, MaxWork

LEMMA ReadMemberSpends ==
  ASSUME ReadMember
  PROVE  work' = work /\ judged' = judged
BY DEF ReadMember, ExtractFile, ExtractDirectory, ReserveSymlink, ExtractHardLink, Extracted, Fail

LEMMA CreateLinkKeeps ==
  ASSUME TargetsInv, CreateLink
  PROVE  TargetsInv'
<1>. DEFINE link == symlinks[judged[at].link]
<1>1. at \in 1..Len(judged) /\ judged[at].link \in 1..Len(symlinks)
  BY DEF CreateLink, TargetsInv, JudgedInv
<1>2. /\ disk' = With(disk, link.path, Link(link.target))
      /\ at' = at + 1 /\ UNCHANGED <<entries, symlinks, phase, judged>>
  BY DEF CreateLink
<1>3. link \in LinkType /\ Sound(link.path, link.target)
  <2>1. /\ symlinks \in Seq(LinkType)
        /\ \A i \in 1..Len(symlinks) : Sound(symlinks[i].path, symlinks[i].target)
    BY DEF TargetsInv, LinksInv
  <2>. QED  BY <1>1, <2>1
<1>4. link.path \in Place /\ link.target \in Seq(Piece)
  <2>. HIDE DEF link
  <2>. QED  BY <1>3 DEF LinkType
<1>. HIDE DEF link
<1>5. /\ disk \in [DOMAIN disk -> NodeType] /\ DOMAIN disk \subseteq Place
      /\ \A p \in DOMAIN disk : disk[p] \in NodeType
      /\ \A p \in DOMAIN disk : disk[p].type = "Link" => Sound(p, disk[p].target)
  BY DEF TargetsInv, DiskInv, LinksIn
<1>6. Link(link.target) \in NodeType /\ Link(link.target).target = link.target
  BY <1>4 DEF Link, NodeType
<1>7. /\ DOMAIN disk' = DOMAIN disk \cup {link.path}
      /\ \A p \in DOMAIN disk' : disk'[p] = IF p = link.path THEN Link(link.target) ELSE disk[p]
      /\ disk' = [p \in DOMAIN disk' |-> disk'[p]]
  BY <1>2 DEF With
<1>8. DiskInv'
  <2>1. \A p \in DOMAIN disk' : disk'[p] \in NodeType
    BY <1>5, <1>6, <1>7
  <2>2. \A p \in DOMAIN disk' : disk'[p].type = "Link" => Sound(p, disk'[p].target)
    BY <1>3, <1>5, <1>6, <1>7
  <2>3. DOMAIN disk' \subseteq Place
    BY <1>4, <1>5, <1>7
  <2>4. disk' \in [DOMAIN disk' -> NodeType]
    BY <1>7, <2>1
  <2>. QED  BY <2>2, <2>3, <2>4 DEF DiskInv, LinksIn
<1>9. JudgedInv'
  BY <1>2 DEF TargetsInv, JudgedInv
<1>. QED  BY <1>2, <1>8, <1>9 DEF TargetsInv, LinksInv, EntriesInv

LEMMA TargetsStep ==
  ASSUME TargetsInv, SpentInv, [Next]_vars
  PROVE  TargetsInv' /\ SpentInv'
<1>1. CASE ReadMember
  <2>1. TargetsInv' /\ judged' = <<>> /\ work' = work
    BY <1>1, ReadMemberKeeps, ReadMemberSpends DEF TargetsInv, JudgedInv, ReadMember
  <2>. QED  BY <2>1, NothingWalked
<1>2. CASE EndMembers
  <2>1. TargetsInv'
    BY <1>2 DEF EndMembers, TargetsInv, LinksInv, EntriesInv, DiskInv, JudgedInv, LinksIn
  <2>2. judged' = <<>> /\ work' = work
    BY <1>2 DEF EndMembers, TargetsInv, JudgedInv
  <2>. QED  BY <2>1, <2>2, NothingWalked
<1>3. CASE JudgeLink
  BY <1>3, JudgeLinkKeeps
<1>4. CASE EndJudge
  <2>1. TargetsInv'
    BY <1>4 DEF EndJudge, TargetsInv, LinksInv, EntriesInv, DiskInv, JudgedInv, LinksIn
  <2>2. UNCHANGED <<entries, symlinks, judged, work>>
    BY <1>4 DEF EndJudge
  <2>3. work' \in Nat /\ work' <= MaxWork /\ work <= work'
    BY <2>2 DEF SpentInv
  <2>. QED  BY <2>1, <2>2, <2>3, WalkedKept
<1>5. CASE CreateLink
  <2>1. TargetsInv'
    BY <1>5, CreateLinkKeeps
  <2>2. UNCHANGED <<entries, symlinks, judged, work>>
    BY <1>5 DEF CreateLink
  <2>3. work' \in Nat /\ work' <= MaxWork /\ work <= work'
    BY <2>2 DEF SpentInv
  <2>. QED  BY <2>1, <2>2, <2>3, WalkedKept
<1>6. CASE EndCreate
  <2>1. TargetsInv'
    BY <1>6 DEF EndCreate, TargetsInv, LinksInv, EntriesInv, DiskInv, JudgedInv, LinksIn
  <2>2. UNCHANGED <<entries, symlinks, judged, work>>
    BY <1>6 DEF EndCreate
  <2>3. work' \in Nat /\ work' <= MaxWork /\ work <= work'
    BY <2>2 DEF SpentInv
  <2>. QED  BY <2>1, <2>2, <2>3, WalkedKept
<1>7. CASE UNCHANGED vars
  <2>1. TargetsInv'
    BY <1>7 DEF vars, TargetsInv, LinksInv, EntriesInv, DiskInv, JudgedInv, LinksIn
  <2>2. UNCHANGED <<entries, symlinks, judged, work>>
    BY <1>7 DEF vars
  <2>3. work' \in Nat /\ work' <= MaxWork /\ work <= work'
    BY <2>2 DEF SpentInv
  <2>. QED  BY <2>1, <2>2, <2>3, WalkedKept
<1>. QED  BY <1>1, <1>2, <1>3, <1>4, <1>5, <1>6, <1>7 DEF Next

LEMMA SpentInit == Init => SpentInv
<1>. SUFFICES ASSUME Init PROVE SpentInv
  OBVIOUS
<1>1. Walked = <<>> /\ work = 0
  BY DEF Init, Walked
<1>2. <<>> \in Seq(Int) /\ Len(<<>>) = 0
  OBVIOUS
<1>3. Total(<<>>) = 0
  BY <1>2, TotalIs
<1>. QED  BY <1>1, <1>2, <1>3, LinkTargetsAssumption DEF SpentInv, MaxWork

LEMMA TargetsHold == Spec => [](TargetsInv /\ SpentInv)
<1>1. Init => TargetsInv /\ SpentInv
  BY TargetsInit, SpentInit
<1>2. (TargetsInv /\ SpentInv) /\ [Next]_vars => (TargetsInv /\ SpentInv)'
  BY TargetsStep
<1>. QED  BY <1>1, <1>2, PTL DEF Spec

(***************************************************************************)
(* The paths the resolutions of all the accepted links go through have no  *)
(* more bytes than one extraction may spend: what resolve_terminal charges *)
(* before each expansion covers what the expansion copies and looks up,    *)
(* and the charge is carried from link to link.                            *)
(***************************************************************************)
THEOREM JudgingIsBounded == Spec => []WorkIsBounded
<1>1. TargetsInv /\ SpentInv => WorkIsBounded
  <2>. SUFFICES ASSUME SpentInv PROVE WorkIsBounded
    OBVIOUS
  <2>1. Total(Walked) \in Int
    <3>1. PICK v \in Seq(Int) : v = Walked
      BY DEF SpentInv
    <3>2. 0 \in Int
      OBVIOUS
    <3>. QED  BY <3>1, <3>2, TotalAppended
  <2>2. Total(Walked) <= MAX_SYMLINK_RESOLUTION_WORK_BYTES
    BY <2>1, LinkTargetsAssumption DEF SpentInv, MaxWork
  <2>. QED  BY <2>2 DEF WorkIsBounded, Walked
<1>. QED  BY <1>1, TargetsHold, PTL

-----------------------------------------------------------------------------
(* Lookups.                                                                *)

(* Where a lookup may be: what it still has to go up fits how deep it is.  *)
Inside ==
  { l \in [dir : Seq(Piece), todo : Seq(Piece), end : {"Going", "Directory", "File", "Dangling"}] :
      ~IsAmbiguous(l.todo) /\ Fits(Len(l.dir), l.todo) }

LEMMA FitsMore ==
  ASSUME NEW d \in Nat, NEW s \in Seq(Piece), Fits(d, s)
  PROVE  Fits(d + 1, s)
<1>1. PICK f \in [0..Len(s) -> Nat] :
        f[0] <= d /\ \A i \in 1..Len(s) : f[i] <= f[i - 1] /\ (s[i] = ".." => f[i] < f[i - 1])
  BY DEF Fits
<1>2. f[0] <= d + 1
  <2>1. 0 \in 0..Len(s)
    OBVIOUS
  <2>2. f[0] \in Nat
    BY <2>1
  <2>. QED  BY <1>1, <2>2
<1>. QED  BY <1>1, <1>2 DEF Fits

LEMMA LookupStaysInside ==
  ASSUME DiskInv, NEW l \in Inside
  PROVE  LookupStep(disk, l) \in Inside
<1>. DEFINE piece == Head(l.todo)
            rest  == Tail(l.todo)
            next  == Append(l.dir, piece)
<1>1. /\ l.dir \in Seq(Piece) /\ l.todo \in Seq(Piece) /\ Len(l.dir) \in Nat
      /\ l.end \in {"Going", "Directory", "File", "Dangling"}
      /\ ~IsAmbiguous(l.todo) /\ Fits(Len(l.dir), l.todo)
  BY DEF Inside
<1>2. ASSUME NEW end \in {"Directory", "File", "Dangling"} PROVE Ended(l, end) \in Inside
  BY <1>1 DEF Ended, Inside
<1>3. ASSUME NEW dir \in Seq(Piece), NEW todo \in Seq(Piece),
             ~IsAmbiguous(todo), Fits(Len(dir), todo)
      PROVE  Lookup(dir, todo) \in Inside
  BY <1>3 DEF Lookup, Inside
<1>4. CASE l.end # "Going"
  BY <1>4 DEF LookupStep
<1>5. CASE l.end = "Going" /\ l.todo = <<>>
  <2>1. LookupStep(disk, l) = Ended(l, "Directory")
    BY <1>5 DEF LookupStep
  <2>. QED  BY <1>2, <2>1
<1>6. CASE l.end = "Going" /\ l.todo # <<>>
  <2>1. /\ rest \in Seq(Piece) /\ piece \in Piece /\ next \in Seq(Piece)
        /\ Len(next) = Len(l.dir) + 1
    BY <1>1, <1>6, EmptySeq
  <2>2. /\ ~IsAmbiguous(rest) /\ (IsName(piece) => NoAscent(rest))
        /\ Fits(Len(l.dir), rest)
        /\ (piece = ".." => Len(l.dir) > 0 /\ Fits(Len(l.dir) - 1, rest))
    BY <1>1, <1>6, PlainTail, FitsTail
  <2>3. LookupStep(disk, l) =
          CASE piece \in {"", "."} -> Lookup(l.dir, rest)
            [] piece = ".." -> IF l.dir = root THEN Ended(l, "Outside")
                               ELSE Lookup(parent(l.dir), rest)
            [] IsName(piece) /\ next \notin DOMAIN disk -> Ended(l, "Dangling")
            [] OTHER ->
                 CASE disk[next].type = "Directory" -> Lookup(next, rest)
                   [] disk[next].type = "File" ->
                        Ended(l, IF rest = <<>> THEN "File" ELSE "Dangling")
                   [] disk[next].type = "Link" ->
                        Through(l.dir, disk[next].target, rest)
    BY <1>6, Zenon DEF LookupStep
  <2>. HIDE DEF piece, rest, next
  <2>4. CASE piece \in {"", "."}
    <3>1. LookupStep(disk, l) = Lookup(l.dir, rest)
      BY <2>3, <2>4 DEF IsName
    <3>. QED  BY <1>1, <1>3, <2>1, <2>2, <3>1
  <2>5. CASE piece = ".."
    <3>1. l.dir # <<>>
      BY <1>1, <2>2, <2>5
    <3>2. LookupStep(disk, l) = Lookup(parent(l.dir), rest)
      BY <2>3, <2>5, <3>1 DEF IsName, root
    <3>3. parent(l.dir) \in Seq(Piece) /\ Len(parent(l.dir)) = Len(l.dir) - 1
      BY <1>1, <3>1, ParentIs
    <3>. QED  BY <1>3, <2>1, <2>2, <2>5, <3>2, <3>3
  <2>6. CASE IsName(piece) /\ next \notin DOMAIN disk
    <3>1. LookupStep(disk, l) = Ended(l, "Dangling")
      BY <2>3, <2>6 DEF IsName
    <3>. QED  BY <1>2, <3>1
  <2>7. CASE IsName(piece) /\ next \in DOMAIN disk
    <3>1. LookupStep(disk, l) =
            CASE disk[next].type = "Directory" -> Lookup(next, rest)
              [] disk[next].type = "File" ->
                   Ended(l, IF rest = <<>> THEN "File" ELSE "Dangling")
              [] disk[next].type = "Link" ->
                   Through(l.dir, disk[next].target, rest)
      BY <2>3, <2>7 DEF IsName
    <3>2. disk[next] \in NodeType
      BY <2>7 DEF DiskInv
    <3>3. disk[next].type \in {"Directory", "File", "Link"} /\ disk[next].target \in Seq(Piece)
      BY <3>2 DEF NodeType
    <3>4. CASE disk[next].type = "Directory"
      <4>1. LookupStep(disk, l) = Lookup(next, rest)
        BY <3>1, <3>4
      <4>2. Fits(Len(next), rest)
        BY <1>1, <2>1, <2>2, FitsMore
      <4>. QED  BY <1>3, <2>1, <2>2, <4>1, <4>2
    <3>5. CASE disk[next].type = "File"
      <4>1. LookupStep(disk, l) = Ended(l, IF rest = <<>> THEN "File" ELSE "Dangling")
        BY <3>1, <3>5
      <4>. QED  BY <1>2, <4>1
    <3>6. CASE disk[next].type = "Link"
      <4>1. LookupStep(disk, l) = Lookup(l.dir, disk[next].target \o rest)
        <5>1. ~IsAbsolute(disk[next].target)
          BY <2>7, <3>6 DEF DiskInv, LinksIn, Sound
        <5>. QED  BY <3>1, <3>6, <5>1 DEF Through
      <4>2. ~IsAmbiguous(disk[next].target) /\ Fits(Len(next) - 1, disk[next].target)
        BY <2>7, <3>6 DEF DiskInv, LinksIn, Sound
      <4>3. Fits(Len(l.dir), disk[next].target)
        <5>1. Len(next) - 1 = Len(l.dir)
          BY <1>1, <2>1
        <5>. QED  BY <4>2, <5>1
      <4>4. /\ ~IsAmbiguous(disk[next].target \o rest)
            /\ Fits(Len(l.dir), disk[next].target \o rest)
            /\ disk[next].target \o rest \in Seq(Piece)
        <5>1. PICK t \in Seq(Piece) : t = disk[next].target
          BY <3>3
        <5>2. NoAscent(rest) /\ \A i \in 1..Len(rest) : rest[i] # ".."
          BY <2>2, <2>7 DEF NoAscent
        <5>3. ~IsAmbiguous(t \o rest)
          BY <2>1, <4>2, <5>1, <5>2, PlainConcat
        <5>4. Fits(Len(l.dir), t \o rest)
          BY <1>1, <2>1, <4>3, <5>1, <5>2, FitsConcat
        <5>5. t \o rest \in Seq(Piece)
          BY <2>1
        <5>. QED  BY <5>1, <5>3, <5>4, <5>5
      <4>. QED  BY <1>1, <1>3, <4>1, <4>4
    <3>. QED  BY <3>3, <3>4, <3>5, <3>6
  <2>8. piece = ".." \/ piece \in {"", "."} \/ IsName(piece)
    BY DEF IsName
  <2>. QED  BY <2>4, <2>5, <2>6, <2>7, <2>8
<1>. QED  BY <1>1, <1>4, <1>5, <1>6

LEMMA FollowStaysInside ==
  ASSUME DiskInv, NEW dir \in Seq(Piece), NEW todo \in Seq(Piece), ~IsAbsolute(todo),
         Lookup(dir, todo) \in Inside
  PROVE  Follow(disk, dir, todo) # "Outside"
<1>. DEFINE M == MAX_LOOKUP_STEPS
            lookup[n \in 0..M] ==
              IF n = 0 THEN Through(dir, todo, <<>>) ELSE LookupStep(disk, lookup[n - 1])
            go == [l \in Inside |-> LookupStep(disk, l)]
<1>1. M \in Nat /\ 0 \in 0..M /\ M \in 0..M
  BY LookupAssumption
<1>. HIDE DEF M
<1>2. go \in [Inside -> Inside] /\ \A l \in Inside : go[l] = LookupStep(disk, l)
  BY LookupStaysInside
<1>. HIDE DEF go
<1>3. PICK h \in [0..M -> Inside] :
        h[0] = Lookup(dir, todo) /\ \A k \in 1..M : h[k] = go[h[k - 1]]
  <2>1. PICK start \in Inside : start = Lookup(dir, todo)
    OBVIOUS
  <2>2. PICK step \in [Inside -> Inside] : step = go
    BY <1>2
  <2>3. \E h \in [0..M -> Inside] : Climbs(h, M, start, step)
    BY <1>1, <2>1, <2>2, Ladder
  <2>. QED  BY <2>1, <2>2, <2>3 DEF Climbs
<1>4. ASSUME NEW k \in 0..M
      PROVE  h[k] = IF k = 0 THEN Lookup(dir, todo) ELSE LookupStep(disk, h[k - 1])
  <2>1. k = 0 \/ (k \in 1..M /\ k - 1 \in 0..M)
    BY <1>1
  <2>2. k # 0 => h[k - 1] \in Inside
    BY <1>3, <2>1
  <2>. QED  BY <1>2, <1>3, <2>1, <2>2
<1>5. h = [k \in 0..M |-> IF k = 0 THEN Through(dir, todo, <<>>) ELSE LookupStep(disk, h[k - 1])]
  <2>1. todo \o <<>> = todo
    OBVIOUS
  <2>2. Through(dir, todo, <<>>) = Lookup(dir, todo)
    BY <2>1 DEF Through
  <2>. QED  BY <1>3, <1>4, <2>2
<1>6. lookup = [k \in 0..M |-> IF k = 0 THEN Through(dir, todo, <<>>) ELSE LookupStep(disk, lookup[k - 1])]
  BY <1>5, Zenon DEF lookup
<1>. HIDE DEF lookup
<1>. DEFINE T == { k \in 0..M : lookup[k] \in Inside }
<1>7. 0 \in T
  <2>1. lookup[0] = h[0]
    BY <1>1, <1>5, <1>6
  <2>. QED  BY <1>1, <1>3, <2>1
<1>8. ASSUME NEW k \in 0..(M - 1), k \in T PROVE k + 1 \in T
  <2>1. k + 1 \in 0..M /\ k + 1 # 0 /\ (k + 1) - 1 = k
    BY <1>1
  <2>2. lookup[k + 1] = LookupStep(disk, lookup[k])
    BY <1>6, <2>1
  <2>. QED  BY <1>8, <2>1, <2>2, LookupStaysInside
<1>9. \A k \in 0..M : k \in T
  <2>1. PICK U : U = T
    OBVIOUS
  <2>. HIDE DEF T
  <2>. QED  BY <1>1, <1>7, <1>8, <2>1, CountingUp
<1>10. lookup[M].end # "Outside"
  <2>1. lookup[M] \in Inside
    BY <1>1, <1>9
  <2>. QED  BY <2>1 DEF Inside
<1>11. Follow(disk, dir, todo) = IF lookup[M].end = "Going" THEN "Endless" ELSE lookup[M].end
  BY Zenon DEF Follow, lookup, M
<1>. QED  BY <1>10, <1>11

(***************************************************************************)
(* No link that extraction has made leads out of the destination: with the *)
(* checks of validate_symlink_target, a lookup that starts at a link, and  *)
(* goes on through any others, meets no absolute text, from which it would *)
(* start over outside, and never has more ".." left than it is deep.       *)
(***************************************************************************)
THEOREM LinksNeverLeadOut == Spec => []LinksStayInside
<1>1. TargetsInv => LinksStayInside
  <2>. SUFFICES ASSUME DiskInv, NEW p \in LinksIn(disk) PROVE LeadsTo(disk, p) # "Outside"
    BY DEF LinksStayInside, TargetsInv
  <2>1. /\ p \in Place /\ disk[p] \in NodeType /\ disk[p].type = "Link"
        /\ ~IsAmbiguous(disk[p].target) /\ Fits(Len(p) - 1, disk[p].target)
        /\ ~IsAbsolute(disk[p].target)
    BY DEF DiskInv, LinksIn, Sound
  <2>2. /\ parent(p) \in Seq(Piece) /\ Len(parent(p)) = Len(p) - 1
        /\ disk[p].target \in Seq(Piece)
    <3>1. p \in Seq(Piece) /\ p # <<>>
      <4>1. Name \subseteq Piece
        BY DEF Piece
      <4>. QED  BY <2>1, <4>1 DEF Place
    <3>2. disk[p].target \in Seq(Piece)
      BY <2>1 DEF NodeType
    <3>. QED  BY <3>1, <3>2, ParentIs
  <2>3. Lookup(parent(p), disk[p].target) \in Inside
    BY <2>1, <2>2 DEF Lookup, Inside
  <2>4. PICK dir \in Seq(Piece), todo \in Seq(Piece) : dir = parent(p) /\ todo = disk[p].target
    BY <2>2
  <2>5. Follow(disk, dir, todo) # "Outside"
    BY <2>1, <2>3, <2>4, FollowStaysInside
  <2>. QED  BY <2>4, <2>5 DEF LeadsTo
<1>. QED  BY <1>1, TargetsHold, PTL
================================================================================
