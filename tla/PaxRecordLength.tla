---------------------------- MODULE PaxRecordLength ----------------------------
(***************************************************************************)
(* How long a pax record is (tar-framing, src/write.rs): its length counts *)
(* its own decimal digits.                                                 *)
(***************************************************************************)
EXTENDS Integers, Sequences

CONSTANTS
  USIZE_MAX,               \* usize::MAX and u64::MAX
  MAX_DECIMAL_U64_BYTES    \* the digits of the latter

Exponent == 0..(MAX_DECIMAL_U64_BYTES - 1)

(* What a power of ten is, which the provers do not know.                  *)
ASSUME PowersOfTen ==
  10^0 = 1 /\ \A k \in Exponent : 10^(k + 1) = 10 * 10^k

ASSUME LengthAssumption ==
  /\ USIZE_MAX \in Nat /\ MAX_DECIMAL_U64_BYTES \in Nat \ {0}
  /\ USIZE_MAX < 10^MAX_DECIMAL_U64_BYTES

ilog10(n) == CHOOSE k \in Exponent : 10^k <= n /\ n < 10^(k + 1)

Digits(n) == IF n = 0 THEN 1 ELSE ilog10(n) + 1

(* decimal_u64 and append_decimal_usize                                    *)
Decimal(n) == [i \in 1..Digits(n) |-> (n \div 10^(Digits(n) - i)) % 10]

(* The bytes after the length: the keyword, the value, two separators and  *)
(* a newline.                                                              *)
suffix_len(keyword_len, value_len) == keyword_len + value_len + 3

(* One digit too few when its own digits carry the length over a power.    *)
tentative_len(keyword_len, value_len) ==
  suffix_len(keyword_len, value_len) + Digits(suffix_len(keyword_len, value_len))

record_len(keyword_len, value_len) ==
  suffix_len(keyword_len, value_len) + Digits(tentative_len(keyword_len, value_len))

(* No checked_add on the way overflows.                                    *)
LengthFits(keyword_len, value_len) ==
  /\ suffix_len(keyword_len, value_len) <= USIZE_MAX
  /\ tentative_len(keyword_len, value_len) <= USIZE_MAX
=============================================================================
