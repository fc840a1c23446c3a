------------------------------ MODULE Numbers ------------------------------
(***************************************************************************)
(* Numbers as the kernel writes them (kernel.cpp) and reads them (sh.cpp). *)
(* A text is a sequence of bytes.  An int wraps.                           *)
(***************************************************************************)
EXTENDS Ascii, Integers, SequencesExt

CONSTANTS
  WORDS,                 (* how many values a uint32_t has, 2^32           *)
  INT_END                (* the first number that is no int, 2^31          *)

ASSUME NumbersAssumption == WORDS \in Nat \ {0} /\ INT_END \in Nat \ {0}

Words == 0 .. WORDS - 1

ZERO == 48
DecDigits == ZERO .. ZERO + 9

(* The loop of print_dec and print_hex: digits from the right, until       *)
(* nothing is left of n.                                                   *)
DigitsOf(n, base) ==
  LET digits[k \in 0 .. n] ==
        IF k = 0 THEN <<>> ELSE Append(digits[k \div base], k % base)
  IN  digits[n]

(* Slip: the loop stops with one digit left. *)
print_dec_stops_early(n) ==
  IF n = 0 THEN <<ZERO>>
           ELSE [i \in DOMAIN Tail(DigitsOf(n, 10)) |-> ZERO + Tail(DigitsOf(n, 10))[i]]

print_dec(n) ==
  IF n = 0 THEN <<ZERO>>
           ELSE [i \in DOMAIN DigitsOf(n, 10) |-> ZERO + DigitsOf(n, 10)[i]]

(* Slip: letters from B on. *)
HexCharLate(d) == IF d < 10 THEN ZERO + d ELSE 65 + d - 9

(* hex: "0123456789ABCDEF" *)
HexChar(d) == IF d < 10 THEN ZERO + d ELSE 65 + d - 10

(* The buffer is printed from the last digit written: the 0x at its left   *)
(* never is, and for 0 nothing is.                                         *)
print_hex(n) == [i \in DOMAIN DigitsOf(n, 16) |-> HexChar(DigitsOf(n, 16)[i])]

(* The text up to the first byte that is no digit. *)
Number(str) ==
  LET n == CHOOSE n \in 0 .. Len(str) :
             /\ n = Len(str) \/ str[n + 1] \notin DecDigits
             /\ \A i \in 1 .. n : str[i] \in DecDigits
  IN  SubSeq(str, 1, n)

Wrapped(n) == ((n + INT_END) % (2 * INT_END)) - INT_END

atoi(str) ==
  LET digits == Number(str)
      res[i \in 0 .. Len(digits)] ==
        IF i = 0 THEN 0 ELSE Wrapped(res[i-1] * 10 + (digits[i] - ZERO))
  IN  res[Len(digits)]
=============================================================================
