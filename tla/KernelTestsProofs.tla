------------------------- MODULE KernelTestsProofs --------------------------
(***************************************************************************)
(* Theorems about KernelTests, for every table size, set of tests, typed   *)
(* text and width of a word and of an int.  They rest on what the          *)
(* conversions in Numbers do to every number and every text: print_dec and *)
(* print_hex write the digits of a number, and atoi reads them.            *)
(***************************************************************************)
EXTENDS KernelTests, Induction

-----------------------------------------------------------------------------
(* Numbers as texts. *)

(* Some place ends the digits at the beginning of a text. *)
DigitsEnd(str, n) ==
  /\ n = Len(str) \/ str[n + 1] \notin DecDigits
  /\ \A i \in 1 .. n : str[i] \in DecDigits

(* Number chooses a place where the digits end: there is one. *)
LEMMA NumberIs ==
  ASSUME NEW S, NEW str \in Seq(S)
  PROVE  \E n \in 0 .. Len(str) : DigitsEnd(str, n) /\ Number(str) = SubSeq(str, 1, n)
<1> DEFINE T == {n \in 0 .. Len(str) : n = Len(str) \/ str[n + 1] \notin DecDigits}
           end == CHOOSE n \in 0 .. Len(str) : DigitsEnd(str, n)
<1>1. Len(str) \in Nat
  OBVIOUS
<1>2. T \subseteq Nat /\ Len(str) \in T
  BY <1>1
<1>3. PICK m \in T : \A y \in T : m <= y
  <2> HIDE DEF T
  <2> QED BY <1>2, LeastNat
<1>4. m \in 0 .. Len(str) /\ (m = Len(str) \/ str[m + 1] \notin DecDigits)
  BY <1>3
<1>5. ASSUME NEW i \in 1 .. m
      PROVE  str[i] \in DecDigits
  <2>1. i - 1 \in 0 .. Len(str) /\ i - 1 # Len(str) /\ (i - 1) + 1 = i /\ i - 1 < m
    BY <1>1, <1>4
  <2>2. i - 1 \notin T
    <3>1. ~(m <= i - 1)
      BY <1>1, <1>4, <2>1
    <3> HIDE DEF T
    <3> QED BY <1>3, <3>1
  <2> QED BY <2>1, <2>2
<1>6. DigitsEnd(str, m)
  BY <1>4, <1>5 DEF DigitsEnd
<1>7. end \in 0 .. Len(str) /\ DigitsEnd(str, end)
  BY <1>4, <1>6
<1>8. Number(str) = SubSeq(str, 1, end)
  BY Zenon DEF Number, DigitsEnd
<1> HIDE DEF end
<1> QED BY <1>7, <1>8

(* What Number takes are digits, and all of a text of digits. *)
LEMMA NumberDigits ==
  ASSUME NEW S, NEW str \in Seq(S)
  PROVE  /\ Number(str) \in Seq(DecDigits)
         /\ (\A i \in 1 .. Len(str) : str[i] \in DecDigits) => Number(str) = str
<1>1. PICK n \in 0 .. Len(str) : DigitsEnd(str, n) /\ Number(str) = SubSeq(str, 1, n)
  BY NumberIs
<1>2. Len(str) \in Nat /\ n \in Nat /\ n <= Len(str)
  OBVIOUS
<1>3. Number(str) = [i \in 1 .. n |-> str[i]]
  <2>1. SubSeq(str, 1, n) = [i \in 1 .. n |-> str[i]]
    BY <1>2
  <2> QED BY <1>1, <2>1
<1>4. \A i \in 1 .. n : str[i] \in DecDigits
  BY <1>1 DEF DigitsEnd
<1>5. Number(str) \in Seq(DecDigits)
  BY <1>2, <1>3, <1>4
<1>6. ASSUME \A i \in 1 .. Len(str) : str[i] \in DecDigits
      PROVE  Number(str) = str
  <2>1. n = Len(str)
    <3>1. CASE n # Len(str)
      <4>1. n + 1 \in 1 .. Len(str)
        BY <1>2, <3>1
      <4> QED BY <1>1, <1>6, <3>1, <4>1 DEF DigitsEnd
    <3> QED BY <3>1
  <2>2. str = [i \in 1 .. Len(str) |-> str[i]]
    OBVIOUS
  <2> QED BY <1>3, <2>1, <2>2
<1> QED BY <1>5, <1>6

(* The value of a text, prefix by prefix. *)
Values(text, base) == [0 .. Len(text) -> Int]
IsValue(v, text, base) ==
  v[0] = 0 /\ \A i \in 1 .. Len(text) : v[i] = v[i-1] * base + DigitOf(text[i])

(* The value of a text is the last of the values of its prefixes. *)
LEMMA ValueIs ==
  ASSUME NEW text \in Seq(Nat), NEW base \in Nat
  PROVE  \E v \in Values(text, base) : IsValue(v, text, base) /\ ValueOf(text, base) = v[Len(text)]
<1> DEFINE n == Len(text)
           d(i) == DigitOf(text[i])
           Step == [i \in 1 .. n |-> [x \in Int |-> x * base + d(i)]]
           Is(f) == f = [i \in 0 .. Len(text) |->
                           IF i = 0 THEN 0 ELSE f[i-1] * base + DigitOf(text[i])]
<1>1. n \in Nat
  OBVIOUS
<1>2. \A i \in 1 .. n : d(i) \in Int
  <2>1. \A i \in 1 .. n : text[i] \in Nat
    OBVIOUS
  <2> QED BY <2>1 DEF DigitOf, ZERO
<1>3. Step \in Steps(n, Int) /\ \A i \in 1 .. n, x \in Int : Step[i][x] = x * base + d(i)
  <2> HIDE DEF n, d
  <2>1. \A i \in 1 .. n, x \in Int : x * base + d(i) \in Int
    BY <1>2
  <2> QED BY <2>1 DEF Steps
<1> HIDE DEF Step
<1>4. PICK g \in Runs(n, Int) : IsRun(g, n, 0, Step)
  <2> DEFINE S == Int
             zero == 0
  <2>1. zero \in S /\ Step \in Steps(n, S)
    BY <1>3
  <2> HIDE DEF S, zero, n
  <2>2. \E g \in Runs(n, S) : IsRun(g, n, zero, Step)
    BY <1>1, <2>1, StepsExist
  <2> QED BY <2>2 DEF S, zero
<1>5. Is(g)
  <2> HIDE DEF n, d
  <2>1. ASSUME NEW i \in 0 .. n
        PROVE  g[i] = IF i = 0 THEN 0 ELSE g[i-1] * base + d(i)
    <3>1. CASE i = 0
      BY <1>4, <3>1 DEF IsRun
    <3>2. CASE i # 0
      <4>1. i \in 1 .. n /\ i - 1 \in 0 .. n
        BY <1>1, <3>2
      <4>2. g[i] = Step[i][g[i-1]] /\ g[i-1] \in Int
        BY <1>4, <4>1 DEF IsRun, Runs
      <4>3. Step[i][g[i-1]] = g[i-1] * base + d(i)
        BY <1>3, <4>1, <4>2
      <4> QED BY <3>2, <4>2, <4>3
    <3> QED BY <3>1, <3>2
  <2>2. g \in [0 .. n -> Int]
    BY <1>4 DEF Runs
  <2>3. g = [i \in 0 .. n |-> IF i = 0 THEN 0 ELSE g[i-1] * base + d(i)]
    BY <2>1, <2>2
  <2> QED BY <2>3 DEF n, d
<1> DEFINE v == CHOOSE f : Is(f)
<1>6. Is(v)
  <2> HIDE DEF Is
  <2> QED BY <1>5
<1>7. ValueOf(text, base) = v[Len(text)]
  BY DEF ValueOf
<1> HIDE DEF v
<1>8. v[0] = 0 /\ \A i \in 1 .. n : v[i] = v[i-1] * base + d(i)
  <2>1. v = [i \in 0 .. n |-> IF i = 0 THEN 0 ELSE v[i-1] * base + d(i)]
    BY <1>6
  <2> HIDE DEF n, d
  <2>2. 0 \in 0 .. n /\ \A i \in 1 .. n : i \in 0 .. n /\ i # 0
    BY <1>1
  <2> QED BY <2>1, <2>2
<1>9. v \in [0 .. n -> Int]
  <2>1. DOMAIN v = 0 .. n /\ v = [i \in 0 .. n |-> v[i]]
    BY <1>6
  <2> HIDE DEF n, d
  <2> DEFINE T == {i \in 0 .. n : v[i] \in Int}
  <2>2. 0 \in T
    BY <1>1, <1>8
  <2>3. ASSUME NEW i \in 0 .. n - 1, i \in T
        PROVE  i + 1 \in T
    <3>1. i + 1 \in 1 .. n /\ i + 1 \in 0 .. n /\ (i + 1) - 1 = i /\ v[i] \in Int
      BY <1>1, <2>3
    <3>2. v[i + 1] = v[i] * base + d(i + 1)
      BY <1>8, <3>1
    <3>3. v[i] * base + d(i + 1) \in Int
      BY <1>2, <3>1
    <3> QED BY <3>1, <3>2, <3>3
  <2> HIDE DEF T
  <2>4. \A i \in 0 .. n : i \in T
    BY <1>1, <2>2, <2>3, UpTo
  <2> QED BY <2>1, <2>4 DEF T
<1> QED BY <1>7, <1>8, <1>9 DEF n, d, Values, IsValue

(* One more digit. *)
LEMMA ValueAppend ==
  ASSUME NEW text \in Seq(Nat), NEW base \in Nat, NEW c \in Nat
  PROVE  /\ ValueOf(text, base) \in Int
         /\ ValueOf(Append(text, c), base) = ValueOf(text, base) * base + DigitOf(c)
<1> DEFINE more == Append(text, c)
           n == Len(text)
<1>1. /\ n \in Nat /\ more \in Seq(Nat) /\ Len(more) = n + 1
      /\ \A i \in 1 .. n : more[i] = text[i]
      /\ more[n + 1] = c
  BY AppendProperties
<1> HIDE DEF more
<1>2. PICK v \in Values(text, base) : IsValue(v, text, base) /\ ValueOf(text, base) = v[n]
  BY ValueIs
<1>3. PICK w \in Values(more, base) : IsValue(w, more, base) /\ ValueOf(more, base) = w[Len(more)]
  BY <1>1, ValueIs
<1>4. /\ v[0] = 0 /\ \A i \in 1 .. n : v[i] = v[i-1] * base + DigitOf(text[i])
      /\ w[0] = 0 /\ \A i \in 1 .. n : w[i] = w[i-1] * base + DigitOf(text[i])
      /\ w[n + 1] = w[n] * base + DigitOf(c)
      /\ v[n] \in Int
  <2>1. \A i \in 1 .. n : i \in 1 .. n + 1
    BY <1>1
  <2>2. n + 1 \in 1 .. n + 1 /\ (n + 1) - 1 = n /\ n \in 0 .. n
    BY <1>1
  <2>3. /\ v[0] = 0 /\ \A i \in 1 .. n : v[i] = v[i-1] * base + DigitOf(text[i])
        /\ v \in [0 .. n -> Int]
    BY <1>2 DEF IsValue, Values
  <2> HIDE DEF n
  <2>4. w[0] = 0 /\ \A i \in 1 .. n + 1 : w[i] = w[i-1] * base + DigitOf(more[i])
    BY <1>1, <1>3 DEF IsValue
  <2>5. \A i \in 1 .. n : w[i] = w[i-1] * base + DigitOf(text[i])
    <3>1. ASSUME NEW i \in 1 .. n
          PROVE  w[i] = w[i-1] * base + DigitOf(text[i])
      <4>1. w[i] = w[i-1] * base + DigitOf(more[i])
        BY <2>1, <2>4
      <4> QED BY <1>1, <4>1
    <3> QED BY <3>1
  <2>6. w[n + 1] = w[n] * base + DigitOf(c)
    BY <1>1, <2>2, <2>4
  <2> QED BY <2>2, <2>3, <2>4, <2>5, <2>6
<1> HIDE DEF n
<1>5. w[n] = v[n]
  <2> DEFINE T == {i \in 0 .. n : w[i] = v[i]}
  <2>1. 0 \in T
    BY <1>1, <1>4
  <2>2. ASSUME NEW i \in 0 .. n - 1, i \in T
        PROVE  i + 1 \in T
    <3>1. i + 1 \in 1 .. n /\ i + 1 \in 0 .. n /\ (i + 1) - 1 = i /\ w[i] = v[i]
      BY <1>1, <2>2
    <3>2. v[i + 1] = v[i] * base + DigitOf(text[i + 1])
      BY <1>4, <3>1
    <3>3. w[i + 1] = w[i] * base + DigitOf(text[i + 1])
      BY <1>4, <3>1
    <3> QED BY <3>1, <3>2, <3>3
  <2> HIDE DEF T
  <2>3. \A i \in 0 .. n : i \in T
    BY <1>1, <2>1, <2>2, UpTo
  <2>4. n \in T
    BY <1>1, <2>3
  <2> QED BY <2>4 DEF T
<1> QED BY <1>1, <1>2, <1>3, <1>4, <1>5 DEF more

(* print_dec and print_hex have less left after every digit. *)
LEMMA QuotientLess ==
  ASSUME NEW n \in Nat \ {0}, NEW b \in Nat \ {0, 1}
  PROVE  n \div b \in 0 .. n - 1
<1> DEFINE q == n \div b
           r == n % b
<1>1. q \in Nat /\ r \in 0 .. b - 1 /\ n = q * b + r
  BY DivisionLaw DEF Division
<1> HIDE DEF q, r
<1>2. q * b >= q + q
  <2>1. q * b = q * (b - 2) + q + q
    BY <1>1
  <2>2. q * (b - 2) >= 0
    BY <1>1
  <2> QED BY <1>1, <2>1, <2>2
<1>3. q \in 0 .. n - 1
  <2> DEFINE p == q * b
  <2>1. p >= q + q /\ n = p + r /\ p \in Int
    BY <1>1, <1>2
  <2> HIDE DEF p
  <2> QED BY <1>1, <2>1
<1> QED BY <1>3 DEF q

(* The loop's digits, for every number up to n. *)
IsDigits(d, n, base) ==
  /\ d[0] = <<>>
  /\ \A k \in 1 .. n : d[k] = Append(d[k \div base], k % base)
  /\ \A k \in 0 .. n : d[k] \in Seq(0 .. base - 1)

(* The loop ends, so that there are digits for every number. *)
LEMMA DigitsAre ==
  ASSUME NEW n \in Nat, NEW base \in Nat \ {0, 1}
  PROVE  \E d : IsDigits(d, n, base) /\ DigitsOf(n, base) = d[n]
<1> DEFINE S == Seq(0 .. base - 1)
           Upto(g, m) == g[0] = <<>> /\ \A k \in 1 .. m : g[k] = Append(g[k \div base], k % base)
           T == {m \in 0 .. n : \E g \in [0 .. m -> S] : Upto(g, m)}
           Is(f) == f = [k \in 0 .. n |-> IF k = 0 THEN <<>> ELSE Append(f[k \div base], k % base)]
<1>1. ASSUME NEW k \in Nat \ {0}
      PROVE  k \div base \in 0 .. k - 1 /\ k % base \in 0 .. base - 1
  <2>1. Division(k, base)
    BY DivisionLaw
  <2> QED BY <2>1, QuotientLess DEF Division
<1>2. <<>> \in S /\ \A s \in S, x \in 0 .. base - 1 : Append(s, x) \in S
  OBVIOUS
<1> HIDE DEF S
<1>3. 0 \in T
  <2> DEFINE g == [i \in 0 .. 0 |-> <<>>]
  <2>1. g \in [0 .. 0 -> S] /\ Upto(g, 0)
    BY <1>2
  <2> HIDE DEF g, Upto
  <2>2. 0 \in 0 .. n
    OBVIOUS
  <2> QED BY <2>1, <2>2, Zenon
<1>4. ASSUME NEW m \in 0 .. n - 1, m \in T
      PROVE  m + 1 \in T
  <2>1. PICK g \in [0 .. m -> S] : Upto(g, m)
    BY <1>4
  <2> DEFINE q == (m + 1) \div base
             e == Append(g[q], (m + 1) % base)
             h == [k \in 0 .. m + 1 |-> IF k = m + 1 THEN e ELSE g[k]]
  <2>2. q \in 0 .. m /\ (m + 1) % base \in 0 .. base - 1
    <3>1. m + 1 \in Nat \ {0} /\ (m + 1) - 1 = m
      OBVIOUS
    <3> QED BY <1>1, <3>1
  <2> HIDE DEF q
  <2>3. e \in S
    BY <1>2, <2>1, <2>2
  <2> HIDE DEF e
  <2>4. /\ h \in [0 .. m + 1 -> S] /\ h[m + 1] = e
        /\ \A k \in 0 .. m : h[k] = g[k]
    BY <2>1, <2>3
  <2> HIDE DEF h
  <2>5. ASSUME NEW k \in 1 .. m + 1
        PROVE  h[k] = Append(h[k \div base], k % base)
    <3>1. CASE k = m + 1
      <4>1. h[q] = g[q]
        BY <2>2, <2>4
      <4> QED BY <2>4, <3>1, <4>1 DEF q, e
    <3>2. CASE k # m + 1
      <4>1. k \in 1 .. m /\ k \in Nat \ {0} /\ k \in 0 .. m
        BY <3>2
      <4>2. k \div base \in 0 .. k - 1
        BY <1>1, <4>1
      <4>3. k \div base \in 0 .. m
        BY <4>1, <4>2
      <4>4. h[k] = g[k] /\ h[k \div base] = g[k \div base]
        BY <2>4, <4>1, <4>3
      <4>5. g[k] = Append(g[k \div base], k % base)
        BY <2>1, <4>1
      <4> QED BY <4>4, <4>5
    <3> QED BY <3>1, <3>2
  <2>6. h[0] = <<>>
    <3>1. 0 \in 0 .. m
      OBVIOUS
    <3> QED BY <2>1, <2>4, <3>1
  <2>7. m + 1 \in 0 .. n
    OBVIOUS
  <2> QED BY <2>4, <2>5, <2>6, <2>7
<1> HIDE DEF T
<1>5. \A m \in 0 .. n : m \in T
  BY <1>3, <1>4, UpTo
<1>6. PICK g \in [0 .. n -> S] : Upto(g, n)
  <2>1. n \in T
    BY <1>5
  <2> QED BY <2>1 DEF T
<1>7. Is(g)
  <2>1. ASSUME NEW k \in 0 .. n
        PROVE  g[k] = IF k = 0 THEN <<>> ELSE Append(g[k \div base], k % base)
    <3>1. CASE k = 0
      BY <1>6, <3>1
    <3>2. CASE k # 0
      <4>1. k \in 1 .. n
        BY <3>2
      <4>2. g[k] = Append(g[k \div base], k % base)
        BY <1>6, <4>1
      <4> QED BY <3>2, <4>2
    <3> QED BY <3>1, <3>2
  <2> QED BY <1>6, <2>1
<1> DEFINE d == CHOOSE f : Is(f)
<1>8. Is(d)
  <2> HIDE DEF Is
  <2> QED BY <1>7
<1>9. DigitsOf(n, base) = d[n]
  BY DEF DigitsOf
<1> HIDE DEF d
<1>10. d[0] = <<>> /\ \A k \in 1 .. n : d[k] = Append(d[k \div base], k % base)
  <2>1. d = [k \in 0 .. n |-> IF k = 0 THEN <<>> ELSE Append(d[k \div base], k % base)]
    BY <1>8
  <2>2. \A k \in 0 .. n : d[k] = IF k = 0 THEN <<>> ELSE Append(d[k \div base], k % base)
    BY <2>1, Zenon
  <2>3. 0 \in 0 .. n /\ \A k \in 1 .. n : k \in 0 .. n /\ k # 0
    OBVIOUS
  <2> QED BY <2>2, <2>3, Zenon
<1>11. \A k \in 0 .. n : d[k] \in S
  <2> DEFINE U == {m \in 0 .. n : \A k \in 0 .. m : d[k] \in S}
  <2>1. 0 \in U
    BY <1>2, <1>10
  <2>2. ASSUME NEW m \in 0 .. n - 1, m \in U
        PROVE  m + 1 \in U
    <3>1. m + 1 \in 1 .. n /\ m + 1 \in 0 .. n /\ m + 1 \in Nat \ {0} /\ (m + 1) - 1 = m
      OBVIOUS
    <3>2. (m + 1) \div base \in 0 .. m /\ (m + 1) % base \in 0 .. base - 1
      BY <1>1, <3>1
    <3>3. d[(m + 1) \div base] \in S
      BY <2>2, <3>2
    <3>4. d[m + 1] = Append(d[(m + 1) \div base], (m + 1) % base)
      BY <1>10, <3>1
    <3>5. d[m + 1] \in S
      BY <1>2, <3>2, <3>3, <3>4
    <3>6. \A k \in 0 .. m + 1 : k \in 0 .. m \/ k = m + 1
      OBVIOUS
    <3> QED BY <2>2, <3>1, <3>5, <3>6
  <2> HIDE DEF U
  <2>3. \A m \in 0 .. n : m \in U
    BY <2>1, <2>2, UpTo
  <2>4. n \in U
    BY <2>3
  <2> QED BY <2>4 DEF U
<1> QED BY <1>9, <1>10, <1>11 DEF S, IsDigits

(* Digits spelled with characters that stand for them have the value that  *)
(* they were taken from.                                                   *)
Spelled(digits, char) == [i \in DOMAIN digits |-> char[digits[i]]]

Alphabets(base) == [0 .. base - 1 -> Nat]
StandsFor(char, base) == \A x \in 0 .. base - 1 : DigitOf(char[x]) = x

(* A text of one digit more is the text with its character behind it. *)
LEMMA SpelledAppend ==
  ASSUME NEW base \in Nat, NEW char \in Alphabets(base),
         NEW s \in Seq(0 .. base - 1), NEW x \in 0 .. base - 1
  PROVE  /\ Spelled(s, char) \in Seq(Nat)
         /\ Spelled(Append(s, x), char) = Append(Spelled(s, char), char[x])
<1> DEFINE n == Len(s)
           t == Append(s, x)
           a == Spelled(s, char)
           b == Spelled(t, char)
           c == Append(a, char[x])
<1>1. /\ n \in Nat /\ DOMAIN s = 1 .. n /\ DOMAIN t = 1 .. n + 1
      /\ \A i \in 1 .. n : t[i] = s[i] /\ s[i] \in 0 .. base - 1
      /\ t[n + 1] = x
  BY AppendProperties
<1>2. char[x] \in Nat /\ \A i \in 1 .. n : char[s[i]] \in Nat
  BY <1>1 DEF Alphabets
<1> HIDE DEF n, t
<1>3. a = [i \in 1 .. n |-> char[s[i]]]
  BY <1>1 DEF Spelled
<1>4. a \in Seq(Nat) /\ Len(a) = n
  BY <1>1, <1>2, <1>3
<1>5. b = [i \in 1 .. n + 1 |-> char[t[i]]]
  BY <1>1 DEF Spelled
<1> HIDE DEF a, b
<1>6. /\ c \in Seq(Nat) /\ Len(c) = n + 1
      /\ \A i \in 1 .. n : c[i] = a[i]
      /\ c[n + 1] = char[x]
  BY <1>2, <1>4, AppendProperties
<1> HIDE DEF c
<1>7. c = [i \in 1 .. n + 1 |-> c[i]]
  BY <1>6
<1>8. \A i \in 1 .. n + 1 : c[i] = b[i]
  <2>1. ASSUME NEW i \in 1 .. n + 1
        PROVE  c[i] = b[i]
    <3>1. CASE i = n + 1
      BY <1>1, <1>5, <1>6, <3>1
    <3>2. CASE i # n + 1
      <4>1. i \in 1 .. n
        BY <1>1, <3>2
      <4> QED BY <1>1, <1>3, <1>5, <1>6, <4>1
    <3> QED BY <3>1, <3>2
  <2> QED BY <2>1
<1>9. c = b
  BY <1>5, <1>7, <1>8
<1> QED BY <1>4, <1>9 DEF a, b, c, t

(* In any base and alphabet, the digits that the loop takes off a number   *)
(* say that number.                                                        *)
LEMMA SpelledValue ==
  ASSUME NEW n \in Nat, NEW base \in Nat \ {0, 1}, NEW char \in Alphabets(base),
         StandsFor(char, base)
  PROVE  /\ Spelled(DigitsOf(n, base), char) \in Seq(Nat)
         /\ ValueOf(Spelled(DigitsOf(n, base), char), base) = n
         /\ DigitsOf(n, base) \in Seq(0 .. base - 1)
<1>1. PICK d : IsDigits(d, n, base) /\ DigitsOf(n, base) = d[n]
  BY DigitsAre
<1> DEFINE Good(k) == /\ Spelled(d[k], char) \in Seq(Nat)
                      /\ ValueOf(Spelled(d[k], char), base) = k
           T == {m \in 0 .. n : \A k \in 0 .. m : Good(k)}
<1>2. Good(0)
  <2>1. Spelled(<<>>, char) = <<>>
    BY DEF Spelled
  <2>2. <<>> \in Seq(Nat) /\ Len(<<>>) = 0
    OBVIOUS
  <2> DEFINE z == <<>>
  <2> HIDE DEF z
  <2>3. z \in Seq(Nat) /\ Len(z) = 0
    BY <2>2 DEF z
  <2>4. ValueOf(z, base) = 0
    <3>1. PICK v \in Values(z, base) : IsValue(v, z, base) /\ ValueOf(z, base) = v[Len(z)]
      BY <2>3, ValueIs
    <3> QED BY <2>3, <3>1 DEF IsValue
  <2>5. d[0] = z
    BY <1>1 DEF IsDigits, z
  <2>6. Spelled(z, char) = z
    BY <2>1 DEF z
  <2> QED BY <2>3, <2>4, <2>5, <2>6
<1>3. ASSUME NEW m \in 0 .. n - 1, \A k \in 0 .. m : Good(k)
      PROVE  Good(m + 1)
  <2> DEFINE q == (m + 1) \div base
             x == (m + 1) % base
  <2>1. m + 1 \in Nat \ {0} /\ (m + 1) - 1 = m /\ m + 1 \in 1 .. n
    OBVIOUS
  <2>2. q \in 0 .. m /\ x \in 0 .. base - 1 /\ m + 1 = q * base + x
    <3>1. Division(m + 1, base) /\ q \in 0 .. (m + 1) - 1
      BY <2>1, DivisionLaw, QuotientLess
    <3> QED BY <2>1, <3>1 DEF Division
  <2>3. d[m + 1] = Append(d[q], x)
    BY <1>1, <2>1 DEF IsDigits
  <2> HIDE DEF q, x, Good
  <2>4. Good(q)
    BY <1>3, <2>2
  <2>5. d[q] \in Seq(0 .. base - 1)
    <3>1. q \in 0 .. n
      BY <2>1, <2>2
    <3> QED BY <1>1, <3>1 DEF IsDigits
  <2> DEFINE s == d[q]
             a == Spelled(s, char)
             c == char[x]
  <2>6. c \in Nat /\ DigitOf(c) = x
    BY <2>2 DEF Alphabets, StandsFor
  <2>7. a \in Seq(Nat) /\ ValueOf(a, base) = q
    BY <2>4 DEF Good
  <2>8. Spelled(d[m + 1], char) = Append(a, c)
    BY <2>2, <2>3, <2>5, SpelledAppend
  <2> HIDE DEF a, c, s
  <2>9. ValueOf(Append(a, c), base) = q * base + x
    BY <2>6, <2>7, ValueAppend
  <2>10. Append(a, c) \in Seq(Nat)
    BY <2>6, <2>7
  <2> QED BY <2>2, <2>8, <2>9, <2>10 DEF Good
<1> HIDE DEF Good
<1>4. 0 \in T
  BY <1>2
<1>5. ASSUME NEW m \in 0 .. n - 1, m \in T
      PROVE  m + 1 \in T
  <2>1. Good(m + 1) /\ m + 1 \in 0 .. n
    BY <1>3, <1>5
  <2>2. \A k \in 0 .. m + 1 : k \in 0 .. m \/ k = m + 1
    OBVIOUS
  <2> QED BY <1>5, <2>1, <2>2
<1> HIDE DEF T
<1>6. \A m \in 0 .. n : m \in T
  BY <1>4, <1>5, UpTo
<1>7. Good(n)
  <2>1. n \in T /\ n \in 0 .. n
    BY <1>6
  <2> QED BY <2>1 DEF T
<1>8. d[n] \in Seq(0 .. base - 1)
  BY <1>1 DEF IsDigits
<1> QED BY <1>1, <1>7, <1>8 DEF Good

(* The digits of a number begin with one that is not zero; 0 has none.     *)
LEMMA LeadingDigit ==
  ASSUME NEW n \in Nat, NEW base \in Nat \ {0, 1}
  PROVE  IF n = 0 THEN DigitsOf(n, base) = <<>>
         ELSE Len(DigitsOf(n, base)) > 0 /\ DigitsOf(n, base)[1] # 0
<1>1. PICK d : IsDigits(d, n, base) /\ DigitsOf(n, base) = d[n]
  BY DigitsAre
<1> DEFINE Leads(k) == Len(d[k]) > 0 /\ d[k][1] # 0
           T == {m \in 0 .. n : \A k \in 1 .. m : Leads(k)}
<1>2. ASSUME NEW m \in 0 .. n - 1, \A k \in 1 .. m : Leads(k)
      PROVE  Leads(m + 1)
  <2> DEFINE q == (m + 1) \div base
             x == (m + 1) % base
  <2>1. m + 1 \in Nat \ {0} /\ (m + 1) - 1 = m /\ m + 1 \in 1 .. n
    OBVIOUS
  <2>2. q \in 0 .. m /\ x \in 0 .. base - 1 /\ m + 1 = q * base + x
    <3>1. Division(m + 1, base) /\ q \in 0 .. (m + 1) - 1
      BY <2>1, DivisionLaw, QuotientLess
    <3> QED BY <2>1, <3>1 DEF Division
  <2>3. d[m + 1] = Append(d[q], x)
    BY <1>1, <2>1 DEF IsDigits
  <2> HIDE DEF q, x
  <2> DEFINE s == d[q]
  <2>4. s \in Seq(0 .. base - 1)
    <3>1. q \in 0 .. n
      BY <2>1, <2>2
    <3> QED BY <1>1, <3>1 DEF IsDigits
  <2>5. CASE q = 0
    <3>1. s = <<>>
      BY <1>1, <2>5 DEF IsDigits
    <3>2. x # 0
      BY <2>1, <2>2, <2>5
    <3> QED BY <2>2, <2>3, <3>1, <3>2
  <2>6. CASE q # 0
    <3>1. Len(s) > 0 /\ s[1] # 0
      <4>1. q \in 1 .. m
        BY <2>2, <2>6
      <4> QED BY <1>2, <4>1
    <3> DEFINE t == Append(s, x)
    <3> HIDE DEF s
    <3>2. Len(t) = Len(s) + 1 /\ Len(s) \in Nat /\ \A i \in 1 .. Len(s) : t[i] = s[i]
      BY <2>2, <2>4, AppendProperties
    <3>3. d[m + 1] = t
      BY <2>3 DEF s
    <3> HIDE DEF t
    <3> QED BY <3>1, <3>2, <3>3
  <2> QED BY <2>5, <2>6
<1> HIDE DEF Leads
<1>3. 0 \in T
  OBVIOUS
<1>4. ASSUME NEW m \in 0 .. n - 1, m \in T
      PROVE  m + 1 \in T
  <2>1. Leads(m + 1) /\ m + 1 \in 0 .. n
    BY <1>2, <1>4
  <2>2. \A k \in 1 .. m + 1 : k \in 1 .. m \/ k = m + 1
    OBVIOUS
  <2> QED BY <1>4, <2>1, <2>2
<1> HIDE DEF T
<1>5. n \in T
  <2>1. \A m \in 0 .. n : m \in T
    BY <1>3, <1>4, UpTo
  <2> QED BY <2>1
<1>6. CASE n = 0
  BY <1>1, <1>6 DEF IsDigits
<1>7. CASE n # 0
  <2>1. Leads(n)
    BY <1>5, <1>7 DEF T
  <2> QED BY <1>1, <1>7, <2>1 DEF Leads
<1> QED BY <1>6, <1>7

(* An int holds what is below its end. *)
LEMMA WrappedFits ==
  ASSUME NEW n \in Int
  PROVE  Wrapped(n) \in Int /\ (n \in 0 .. INT_END - 1 => Wrapped(n) = n)
<1> DEFINE b == 2 * INT_END
           a == n + INT_END
<1>1. INT_END \in Nat \ {0} /\ b \in Nat \ {0} /\ a \in Int
  BY NumbersAssumption
<1>2. a % b \in Int
  <2> HIDE DEF a, b
  <2> QED BY <1>1
<1>3. Wrapped(n) = (a % b) - INT_END
  BY DEF Wrapped
<1>4. ASSUME n \in 0 .. INT_END - 1
      PROVE  a % b = a
  <2>1. a \in Nat /\ a < b
    BY <1>1, <1>4
  <2> HIDE DEF a, b
  <2> DEFINE q == a \div b
  <2>2. q \in Nat /\ a % b \in 0 .. b - 1 /\ a = q * b + (a % b)
    BY <1>1, <2>1, DivisionLaw DEF Division
  <2> HIDE DEF q
  <2>3. q = 0
    <3>1. CASE q # 0
      <4>1. q * b = (q - 1) * b + b /\ (q - 1) * b >= 0
        BY <1>1, <2>2, <3>1
      <4> QED BY <1>1, <2>1, <2>2, <4>1
    <3> QED BY <3>1
  <2> QED BY <1>1, <2>1, <2>2, <2>3
<1> HIDE DEF b
<1>5. n \in 0 .. INT_END - 1 => Wrapped(n) = n
  BY <1>1, <1>3, <1>4
<1> HIDE DEF a
<1> QED BY <1>1, <1>2, <1>3, <1>5

(* The int that the loop of atoi has after each digit. *)
IsInt(r, t) ==
  r[0] = 0 /\ \A i \in 1 .. Len(t) : r[i] = Wrapped(r[i-1] * 10 + (t[i] - ZERO))

(* atoi returns the last of its ints, one for every digit. *)
LEMMA AtoiRuns ==
  ASSUME NEW S, NEW str \in Seq(S), Number(str) \in Seq(DecDigits)
  PROVE  \E r \in [0 .. Len(Number(str)) -> Int] :
           IsInt(r, Number(str)) /\ atoi(str) = r[Len(Number(str))]
<1> DEFINE t == Number(str)
           n == Len(t)
           e(x, i) == Wrapped(x * 10 + (t[i] - ZERO))
           Step == [i \in 1 .. n |-> [x \in Int |-> e(x, i)]]
           Is(f) == f = [i \in 0 .. Len(Number(str)) |->
                           IF i = 0 THEN 0 ELSE Wrapped(f[i-1] * 10 + (Number(str)[i] - ZERO))]
           r == CHOOSE f : Is(f)
<1>1. n \in Nat /\ \A i \in 1 .. n : t[i] \in DecDigits /\ t[i] - ZERO \in Int
  BY DEF DecDigits, ZERO
<1>2. \A i \in 1 .. n, x \in Int : e(x, i) \in Int
  <2>1. ASSUME NEW i \in 1 .. n, NEW x \in Int
        PROVE  e(x, i) \in Int
    <3> DEFINE m == x * 10 + (t[i] - ZERO)
    <3>1. m \in Int
      BY <1>1
    <3> HIDE DEF m
    <3>2. Wrapped(m) \in Int
      BY <3>1, WrappedFits
    <3> QED BY <3>2 DEF m
  <2> QED BY <2>1
<1>3. Step \in Steps(n, Int) /\ \A i \in 1 .. n, x \in Int : Step[i][x] = e(x, i)
  <2> HIDE DEF n, e
  <2> QED BY <1>2 DEF Steps
<1> HIDE DEF Step
<1>4. PICK g \in Runs(n, Int) : IsRun(g, n, 0, Step)
  <2> DEFINE I == Int
             zero == 0
  <2>1. zero \in I /\ Step \in Steps(n, I)
    BY <1>3
  <2> HIDE DEF I, zero, n
  <2>2. \E g \in Runs(n, I) : IsRun(g, n, zero, Step)
    BY <1>1, <2>1, StepsExist
  <2> QED BY <2>2 DEF I, zero
<1>5. Is(g)
  <2> HIDE DEF n, e
  <2>1. ASSUME NEW i \in 0 .. n
        PROVE  g[i] = IF i = 0 THEN 0 ELSE e(g[i-1], i)
    <3>1. CASE i = 0
      BY <1>4, <3>1 DEF IsRun
    <3>2. CASE i # 0
      <4>1. i \in 1 .. n /\ i - 1 \in 0 .. n
        BY <1>1, <3>2
      <4>2. g[i] = Step[i][g[i-1]] /\ g[i-1] \in Int
        BY <1>4, <4>1 DEF IsRun, Runs
      <4>3. Step[i][g[i-1]] = e(g[i-1], i)
        BY <1>3, <4>1, <4>2
      <4> QED BY <3>2, <4>2, <4>3
    <3> QED BY <3>1, <3>2
  <2>2. g \in [0 .. n -> Int]
    BY <1>4 DEF Runs
  <2>3. g = [i \in 0 .. n |-> IF i = 0 THEN 0 ELSE e(g[i-1], i)]
    BY <2>1, <2>2
  <2> QED BY <2>3 DEF n, e
<1>6. Is(r)
  <2> HIDE DEF Is
  <2> QED BY <1>5
<1>7. atoi(str) = r[n]
  BY DEF atoi
<1> HIDE DEF r
<1>8. /\ r[0] = 0 /\ \A i \in 1 .. n : r[i] = e(r[i-1], i)
      /\ DOMAIN r = 0 .. n /\ r = [i \in 0 .. n |-> r[i]]
  <2>1. r = [i \in 0 .. n |-> IF i = 0 THEN 0 ELSE e(r[i-1], i)]
    BY <1>6
  <2> HIDE DEF n, e
  <2>2. 0 \in 0 .. n /\ \A i \in 1 .. n : i \in 0 .. n /\ i # 0
    BY <1>1
  <2> QED BY <2>1, <2>2
<1>9. r \in [0 .. n -> Int]
  <2> HIDE DEF n, e
  <2> DEFINE T == {i \in 0 .. n : r[i] \in Int}
  <2>1. 0 \in T
    BY <1>1, <1>8
  <2>2. ASSUME NEW i \in 0 .. n - 1, i \in T
        PROVE  i + 1 \in T
    <3>1. i + 1 \in 1 .. n /\ i + 1 \in 0 .. n /\ (i + 1) - 1 = i /\ r[i] \in Int
      BY <1>1, <2>2
    <3>2. r[i + 1] = e(r[i], i + 1)
      BY <1>8, <3>1
    <3> QED BY <1>2, <3>1, <3>2
  <2> HIDE DEF T
  <2>3. \A i \in 0 .. n : i \in T
    BY <1>1, <2>1, <2>2, UpTo
  <2> QED BY <1>8, <2>3 DEF T
<1> QED BY <1>7, <1>8, <1>9 DEF IsInt

(* atoi reads the digits at the beginning of a text, and their number if   *)
(* an int can hold it.                                                     *)
LEMMA AtoiIs ==
  ASSUME NEW S, NEW str \in Seq(S)
  PROVE  /\ atoi(str) \in Int
         /\ ValueOf(Number(str), 10) \in Nat
         /\ ValueOf(Number(str), 10) < INT_END => atoi(str) = ValueOf(Number(str), 10)
<1> DEFINE t == Number(str)
           n == Len(t)
<1>1. t \in Seq(DecDigits)
  BY NumberDigits
<1>2. PICK r \in [0 .. n -> Int] : IsInt(r, t) /\ atoi(str) = r[n]
  BY <1>1, AtoiRuns
<1> HIDE DEF t
<1>3. t \in Seq(Nat)
  <2>1. t \in [1 .. n -> DecDigits] /\ n \in Nat
    BY <1>1
  <2>2. DecDigits \subseteq Nat
    BY DEF DecDigits, ZERO
  <2> HIDE DEF n
  <2>3. t \in [1 .. n -> Nat]
    BY <2>1, <2>2
  <2> QED BY <2>1, <2>3
<1>4. PICK v \in Values(t, 10) : IsValue(v, t, 10) /\ ValueOf(t, 10) = v[n]
  <2> DEFINE ten == 10
  <2>1. ten \in Nat
    OBVIOUS
  <2> HIDE DEF ten
  <2>2. \E v \in Values(t, ten) : IsValue(v, t, ten) /\ ValueOf(t, ten) = v[n]
    BY <1>3, <2>1, ValueIs
  <2> QED BY <2>2 DEF ten
<1>5. /\ n \in Nat /\ v[0] = 0 /\ r[0] = 0 /\ v \in [0 .. n -> Int]
      /\ \A i \in 1 .. n : v[i] = v[i-1] * 10 + DigitOf(t[i])
      /\ \A i \in 1 .. n : r[i] = Wrapped(r[i-1] * 10 + (t[i] - ZERO))
  BY <1>1, <1>2, <1>4 DEF IsInt, IsValue, Values
<1>6. \A i \in 1 .. n : DigitOf(t[i]) = t[i] - ZERO /\ DigitOf(t[i]) \in 0 .. 9
  <2>1. \A i \in 1 .. n : t[i] \in DecDigits
    BY <1>1
  <2> QED BY <2>1 DEF DecDigits, ZERO, DigitOf
<1> HIDE DEF n
<1> DEFINE T == {i \in 0 .. n : v[i] \in Nat /\ (v[i] < INT_END => r[i] = v[i])}
<1>7. 0 \in T
  BY <1>5
<1>8. ASSUME NEW i \in 0 .. n - 1, i \in T
      PROVE  i + 1 \in T
  <2> DEFINE d == DigitOf(t[i + 1])
             m == v[i] * 10 + d
  <2>1. i + 1 \in 1 .. n /\ i + 1 \in 0 .. n /\ (i + 1) - 1 = i
    BY <1>5, <1>8
  <2>2. d \in 0 .. 9 /\ d = t[i + 1] - ZERO
    BY <1>6, <2>1
  <2> HIDE DEF d
  <2>3. v[i] \in Nat /\ (v[i] < INT_END => r[i] = v[i])
    BY <1>8
  <2>4. v[i + 1] = m
    BY <1>5, <2>1 DEF d
  <2>5. r[i + 1] = Wrapped(r[i] * 10 + d)
    BY <1>5, <2>1, <2>2
  <2>6. m \in Nat /\ v[i] <= m
    BY <2>2, <2>3
  <2>7. ASSUME m < INT_END
        PROVE  r[i + 1] = m
    <3>1. r[i] = v[i]
      BY <2>3, <2>6, <2>7, NumbersAssumption
    <3>2. r[i + 1] = Wrapped(m)
      BY <2>5, <3>1
    <3> HIDE DEF m
    <3>3. m \in Int /\ m \in 0 .. INT_END - 1
      BY <2>6, <2>7, NumbersAssumption
    <3> QED BY <3>2, <3>3, WrappedFits
  <2> QED BY <2>1, <2>4, <2>6, <2>7
<1> HIDE DEF T
<1>9. \A i \in 0 .. n : i \in T
  BY <1>5, <1>7, <1>8, UpTo
<1>10. n \in 0 .. n
  BY <1>5
<1>11. v[n] \in Nat /\ (v[n] < INT_END => r[n] = v[n]) /\ r[n] \in Int
  <2>1. n \in T
    BY <1>9, <1>10
  <2>2. r[n] \in Int
    BY <1>2, <1>10
  <2> QED BY <2>1, <2>2 DEF T
<1> QED BY <1>2, <1>4, <1>11 DEF t

(* An empty text has the value 0. *)
LEMMA ValueEmpty ==
  ASSUME NEW base \in Nat
  PROVE  ValueOf(<<>>, base) = 0
<1> DEFINE z == <<>>
<1>1. z \in Seq(Nat) /\ Len(z) = 0
  OBVIOUS
<1> HIDE DEF z
<1>2. PICK v \in Values(z, base) : IsValue(v, z, base) /\ ValueOf(z, base) = v[Len(z)]
  BY <1>1, ValueIs
<1>3. ValueOf(z, base) = 0
  BY <1>1, <1>2 DEF IsValue
<1> QED BY <1>3 DEF z

(* What print_dec prints are digits, and they say the number. *)
LEMMA PrintDecIs ==
  ASSUME NEW n \in Nat
  PROVE  /\ print_dec(n) \in Seq(Nat)
         /\ Number(print_dec(n)) = print_dec(n)
         /\ ValueOf(print_dec(n), 10) = n
<1> DEFINE ten == 10
           char == [x \in 0 .. 9 |-> ZERO + x]
           D == DigitsOf(n, ten)
           t == print_dec(n)
<1>1. ten \in Nat \ {0, 1} /\ ten - 1 = 9
  OBVIOUS
<1>2. ASSUME t \in Seq(Nat), \A i \in 1 .. Len(t) : t[i] \in DecDigits
      PROVE  Number(t) = t
  <2> HIDE DEF t
  <2> QED BY <1>2, NumberDigits
<1>3. CASE n = 0
  <2> DEFINE z == <<>>
             c == ZERO
  <2>1. z \in Seq(Nat) /\ c \in Nat /\ DigitOf(c) = 0 /\ c \in DecDigits
    BY DEF ZERO, DigitOf, DecDigits
  <2>2. ValueOf(z, ten) = 0
    <3> HIDE DEF ten
    <3> QED BY <1>1, ValueEmpty
  <2>3. t = Append(z, c) /\ t = <<c>>
    BY <1>3 DEF print_dec
  <2> HIDE DEF z, c, t
  <2>4. t \in Seq(Nat) /\ Len(t) = 1 /\ t[1] = c
    BY <2>1, <2>3
  <2>5. ValueOf(t, ten) = ValueOf(z, ten) * ten + DigitOf(c)
    <3> HIDE DEF ten
    <3>1. ValueOf(Append(z, c), ten) = ValueOf(z, ten) * ten + DigitOf(c)
      BY <1>1, <2>1, ValueAppend
    <3> QED BY <2>3, <3>1
  <2>6. ValueOf(t, ten) = n
    BY <1>3, <2>1, <2>2, <2>5
  <2>7. \A i \in 1 .. Len(t) : t[i] \in DecDigits
    BY <2>1, <2>4
  <2> QED BY <1>2, <2>4, <2>6, <2>7 DEF t
<1>4. CASE n # 0
  <2>1. char \in Alphabets(ten) /\ StandsFor(char, ten)
    BY DEF Alphabets, StandsFor, ZERO, DigitOf
  <2>2. \A x \in 0 .. 9 : char[x] = ZERO + x /\ char[x] \in DecDigits
    BY DEF DecDigits, ZERO
  <2> HIDE DEF char
  <2>3. /\ Spelled(D, char) \in Seq(Nat)
        /\ ValueOf(Spelled(D, char), ten) = n
        /\ D \in Seq(0 .. ten - 1)
    <3> HIDE DEF ten
    <3> QED BY <1>1, <2>1, SpelledValue
  <2>4. t = [i \in DOMAIN D |-> ZERO + D[i]]
    BY <1>4 DEF print_dec
  <2> HIDE DEF D, t
  <2>5. DOMAIN D = 1 .. Len(D) /\ \A i \in DOMAIN D : D[i] \in 0 .. 9
    BY <1>1, <2>3
  <2>6. t = Spelled(D, char)
    BY <2>2, <2>4, <2>5 DEF Spelled
  <2>7. Len(D) \in Nat
    BY <2>3
  <2>8. DOMAIN t = 1 .. Len(D)
    BY <2>4, <2>5
  <2>9. Len(t) = Len(D)
    <3>1. t \in Seq(Nat)
      BY <2>3, <2>6
    <3>2. DOMAIN t = 1 .. Len(t) /\ Len(t) \in Nat
      BY <3>1
    <3> QED BY <2>7, <2>8, <3>2
  <2>10. \A i \in 1 .. Len(t) : t[i] \in DecDigits
    BY <2>2, <2>4, <2>5, <2>9
  <2>11. t \in Seq(Nat) /\ ValueOf(t, ten) = n
    BY <2>3, <2>6
  <2> QED BY <1>2, <2>10, <2>11 DEF t
<1> QED BY <1>3, <1>4

(* What print_hex prints of a number that is not 0 says it, letters and    *)
(* all, and begins with no zero; of 0 it prints nothing.                   *)
LEMMA PrintHexIs ==
  ASSUME NEW n \in Nat
  PROVE  IF n = 0 THEN print_hex(n) = <<>>
         ELSE /\ Len(print_hex(n)) > 0 /\ print_hex(n)[1] # ZERO
              /\ ValueOf(print_hex(n), 16) = n
<1> DEFINE base == 16
           char == [x \in 0 .. 15 |-> HexChar(x)]
           D == DigitsOf(n, base)
<1>1. base \in Nat \ {0, 1} /\ base - 1 = 15
  OBVIOUS
<1>2. char \in Alphabets(base) /\ StandsFor(char, base)
  BY DEF Alphabets, StandsFor, HexChar, ZERO, DigitOf
<1>3. \A x \in 0 .. 15 : char[x] = HexChar(x)
  OBVIOUS
<1> HIDE DEF char
<1>4. /\ ValueOf(Spelled(D, char), base) = n /\ Spelled(D, char) \in Seq(Nat)
      /\ D \in Seq(0 .. base - 1)
      /\ IF n = 0 THEN D = <<>> ELSE Len(D) > 0 /\ D[1] # 0
  <2> HIDE DEF base
  <2> QED BY <1>1, <1>2, SpelledValue, LeadingDigit
<1>5. print_hex(n) = [i \in DOMAIN D |-> HexChar(D[i])]
  BY DEF print_hex
<1> HIDE DEF D
<1>6. \A i \in DOMAIN D : D[i] \in 0 .. 15
  BY <1>1, <1>4
<1>7. print_hex(n) = Spelled(D, char)
  BY <1>3, <1>5, <1>6 DEF Spelled
<1>8. CASE n = 0
  BY <1>4, <1>5, <1>8
<1>9. CASE n # 0
  <2> DEFINE t == print_hex(n)
  <2>1. DOMAIN D = 1 .. Len(D) /\ Len(D) \in Nat /\ 1 \in DOMAIN D /\ D[1] \in 1 .. 15
    BY <1>4, <1>6, <1>9
  <2>2. DOMAIN t = 1 .. Len(D) /\ t[1] = HexChar(D[1]) /\ t \in Seq(Nat)
    BY <1>4, <1>5, <1>7, <2>1
  <2> HIDE DEF t
  <2>3. Len(t) = Len(D)
    BY <2>1, <2>2
  <2>4. t[1] # ZERO
    BY <2>1, <2>2 DEF HexChar, ZERO
  <2> QED BY <1>4, <1>7, <1>9, <2>3, <2>4 DEF t
<1> QED BY <1>8, <1>9

-----------------------------------------------------------------------------
(* The tests. *)

(* What test_list prints. *)
Listing == [i \in DOMAIN test_reg |-> [number |-> print_dec(i), desc |-> test_reg[i]]]

(* What is left of "test <arg>". *)
Nothing == [arg |-> <<>>, entry |-> 0, address |-> 0, text |-> <<>>]

SaidOf(arg, address) ==
  IF Registered(IndexOf(atoi(arg)))
  THEN [arg |-> arg, entry |-> IndexOf(atoi(arg)) + 1,
        address |-> address, text |-> print_hex(address)]
  ELSE [arg |-> arg, entry |-> 0, address |-> 0, text |-> <<>>]

RegisteredOK == test_reg \in Seq(Tests) /\ Len(test_reg) <= MAX_TESTS

(* The list is older than no test: in the shell, none is registered. *)
ListedOK == listed = <<>> \/ (phase = "shell" /\ listed = Listing)

SaidOK ==
  \/ said = Nothing
  \/ /\ phase = "shell"
     /\ \E arg \in Seq(Nat), address \in Addresses : said = SaidOf(arg, address)

(* The inductive invariant. *)
KInv == RegisteredOK /\ phase \in {"boot", "shell"} /\ ListedOK /\ SaidOK

(* Nothing is registered, listed or said at the start. *)
LEMMA InitKInv == Init => KInv
<1> SUFFICES ASSUME Init
             PROVE  KInv
  OBVIOUS
<1>1. RegisteredOK
  <2>1. MAX_TESTS \in Nat
    BY KernelTestsAssumption, NumbersAssumption
  <2>2. <<>> \in Seq(Tests) /\ Len(<<>>) = 0
    OBVIOUS
  <2> QED BY <2>1, <2>2 DEF Init, RegisteredOK
<1> QED BY <1>1 DEF Init, KInv, ListedOK, SaidOK, Nothing

(* Every call keeps the invariant; what the user types from the list is a  *)
(* text of digits by PrintDecIs.                                           *)
LEMMA NextKInv == KInv /\ [Next]_vars => KInv'
<1> SUFFICES ASSUME KInv, [Next]_vars
             PROVE  KInv'
  OBVIOUS
<1>1. RegisteredOK /\ phase \in {"boot", "shell"} /\ ListedOK /\ SaidOK
  BY DEF KInv
<1>2. ASSUME NEW desc \in Tests, test_add(desc)
      PROVE  KInv'
  <2>1. RegisteredOK'
    <3> DEFINE more == Append(test_reg, desc)
    <3>1. /\ test_reg \in Seq(Tests) /\ Len(test_reg) <= MAX_TESTS /\ Len(test_reg) \in Nat
          /\ MAX_TESTS \in Nat
      BY <1>1, KernelTestsAssumption, NumbersAssumption DEF RegisteredOK
    <3>2. more \in Seq(Tests) /\ Len(more) = Len(test_reg) + 1
      BY <3>1, AppendProperties
    <3>3. test_reg' = IF Len(test_reg) < MAX_TESTS THEN more ELSE test_reg
      BY <1>2 DEF test_add
    <3> HIDE DEF more
    <3> QED BY <3>1, <3>2, <3>3 DEF RegisteredOK
  <2>2. listed = <<>> /\ said = Nothing /\ phase = "boot"
    BY <1>1, <1>2 DEF test_add, ListedOK, SaidOK
  <2>3. ListedOK' /\ SaidOK' /\ phase' = "boot"
    <3>1. listed' = listed /\ said' = said /\ phase' = phase
      BY <1>2 DEF test_add
    <3> QED BY <2>2, <3>1, Zenon DEF ListedOK, SaidOK, Nothing
  <2> QED BY <2>1, <2>3 DEF KInv
<1>3. CASE sh_loop
  <2>1. listed = <<>> /\ said = Nothing
    BY <1>1, <1>3 DEF sh_loop, ListedOK, SaidOK
  <2>2. RegisteredOK' /\ ListedOK' /\ SaidOK' /\ phase' = "shell"
    <3>1. listed' = listed /\ said' = said /\ test_reg' = test_reg /\ phase' = "shell"
      BY <1>3 DEF sh_loop
    <3>2. ListedOK' /\ SaidOK'
      BY <2>1, <3>1, Zenon DEF ListedOK, SaidOK, Nothing
    <3> QED BY <1>1, <3>1, <3>2 DEF RegisteredOK
  <2> QED BY <2>2 DEF KInv
<1>4. CASE test_list
  <2>1. RegisteredOK' /\ phase' = "shell"
    BY <1>1, <1>4 DEF test_list, RegisteredOK
  <2>2. ListedOK'
    BY <1>4 DEF test_list, ListedOK, Listing
  <2>3. SaidOK'
    BY <1>1, <1>4 DEF test_list, SaidOK, SaidOf, Nothing, Registered
  <2> QED BY <2>1, <2>2, <2>3 DEF KInv
<1>5. ASSUME NEW arg \in Texts \cup {listed[i].number : i \in DOMAIN listed}, test_exec(arg)
      PROVE  KInv'
  <2>1. RegisteredOK' /\ phase' = "shell"
    BY <1>1, <1>5 DEF test_exec, RegisteredOK
  <2>2. ListedOK'
    <3>1. listed' = listed /\ test_reg' = test_reg /\ phase' = phase
      BY <1>5 DEF test_exec
    <3> QED BY <1>1, <3>1 DEF ListedOK, Listing
  <2>3. arg \in Seq(Nat)
    <3>1. CASE arg \in Texts
      <4>1. arg \in Seq(0 .. 127)
        BY <3>1, KernelTestsAssumption
      <4> DEFINE Bytes == 0 .. 127
      <4>2. arg \in Seq(Bytes) /\ Bytes \subseteq Nat
        BY <4>1
      <4> HIDE DEF Bytes
      <4> QED BY <4>2, SeqOfMore
    <3>2. CASE arg \in {listed[i].number : i \in DOMAIN listed}
      <4>1. PICK i \in DOMAIN listed : arg = listed[i].number
        BY <3>2
      <4>2. listed = Listing
        BY <1>1, <4>1 DEF ListedOK
      <4>3. i \in DOMAIN test_reg /\ arg = print_dec(i)
        BY <4>1, <4>2 DEF Listing
      <4>4. i \in Nat
        BY <1>1, <4>3 DEF RegisteredOK
      <4> QED BY <4>3, <4>4, PrintDecIs
    <3> QED BY <3>1, <3>2
  <2>4. PICK address \in Addresses : said' = SaidOf(arg, address)
    BY <1>5, Zenon DEF test_exec, SaidOf
  <2>5. SaidOf(arg, address)' = SaidOf(arg, address)
    BY <1>5 DEF test_exec, SaidOf, Registered
  <2>6. SaidOK'
    BY <2>1, <2>3, <2>4, <2>5 DEF SaidOK
  <2> QED BY <2>1, <2>2, <2>6 DEF KInv
<1>6. CASE UNCHANGED vars
  BY <1>1, <1>6 DEF vars, KInv, RegisteredOK, ListedOK, Listing, SaidOK, SaidOf, Nothing, Registered
<1> QED BY <1>2, <1>3, <1>4, <1>5, <1>6 DEF Next

(* In every reachable state: the list, once printed, is that of the table, *)
(* and what was said is what test_exec says to some text.                  *)
THEOREM KInvariance == Spec => []KInv
<1>1. Init => KInv
  BY InitKInv
<1>2. KInv /\ [Next]_vars => KInv'
  BY NextKInv
<1> QED BY <1>1, <1>2, PTL DEF Spec

(* The entry that test_exec runs is the number it read, if it is           *)
(* registered.                                                             *)
LEMMA EntryIs ==
  ASSUME KInv, NEW arg \in Seq(Nat), NEW address \in Addresses, said = SaidOf(arg, address)
  PROVE  /\ said.arg = arg
         /\ said.entry = IF atoi(arg) \in 1 .. Len(test_reg) THEN atoi(arg) ELSE 0
<1>1. atoi(arg) \in Int
  BY AtoiIs
<1>2. Len(test_reg) \in Nat
  BY DEF KInv, RegisteredOK
<1> DEFINE a == atoi(arg)
<1> HIDE DEF a
<1>3. a \in Int /\ said = IF Registered(IndexOf(a))
                          THEN [arg |-> arg, entry |-> IndexOf(a) + 1,
                                address |-> address, text |-> print_hex(address)]
                          ELSE [arg |-> arg, entry |-> 0, address |-> 0, text |-> <<>>]
  BY <1>1 DEF a, SaidOf
<1>4. said.arg = arg /\ said.entry = IF Registered(IndexOf(a)) THEN IndexOf(a) + 1 ELSE 0
  BY <1>3
<1>5. Registered(IndexOf(a)) <=> a \in 1 .. Len(test_reg)
  BY <1>2, <1>3 DEF Registered, IndexOf
<1>6. IndexOf(a) + 1 = a
  BY <1>3 DEF IndexOf
<1> QED BY <1>4, <1>5, <1>6 DEF a

(* If an int can hold the number, atoi did read it. *)
LEMMA MeantFromInv == KInv => FittingNumberMeant
<1> SUFFICES ASSUME KInv
             PROVE  FittingNumberMeant
  OBVIOUS
<1> DEFINE n == ValueOf(Number(said.arg), 10)
<1>1. test_reg \in Seq(Tests) /\ Len(test_reg) \in Nat /\ DOMAIN test_reg = 1 .. Len(test_reg)
  BY DEF KInv, RegisteredOK
<1>2. CASE said = Nothing
  <2> DEFINE z == <<>>
             ten == 10
  <2>1. said.arg = z /\ said.entry = 0 /\ z \in Seq(Nat) /\ Len(z) = 0
    BY <1>2 DEF Nothing
  <2>2. ValueOf(z, ten) = 0
    <3>1. ten \in Nat
      OBVIOUS
    <3> HIDE DEF ten
    <3> QED BY <3>1, ValueEmpty
  <2> HIDE DEF z
  <2>3. Number(z) = z
    <3>1. \A i \in 1 .. Len(z) : z[i] \in DecDigits
      BY <2>1
    <3> QED BY <2>1, <3>1, NumberDigits
  <2>4. n = 0
    BY <2>1, <2>2, <2>3
  <2> HIDE DEF n
  <2>5. said.entry \in {0, n} /\ n \notin DOMAIN test_reg
    BY <1>1, <2>1, <2>4
  <2> QED BY <2>5 DEF n, FittingNumberMeant
<1>3. ASSUME NEW arg \in Seq(Nat), NEW address \in Addresses, said = SaidOf(arg, address)
      PROVE  FittingNumberMeant
  <2>1. said.arg = arg /\ said.entry = IF atoi(arg) \in 1 .. Len(test_reg) THEN atoi(arg) ELSE 0
    BY <1>3, EntryIs
  <2>2. n \in Nat /\ (n < INT_END => atoi(arg) = n)
    BY <2>1, AtoiIs
  <2> HIDE DEF n
  <2>3. n < INT_END => said.entry \in {0, n} /\ (said.entry = 0 => n \notin DOMAIN test_reg)
    BY <1>1, <2>1, <2>2
  <2> QED BY <2>3 DEF n, FittingNumberMeant
<1> QED BY <1>2, <1>3 DEF KInv, SaidOK

(* A number that an int can hold runs the test of that number or, if there *)
(* is none, nothing.                                                       *)
THEOREM NumbersMeant == Spec => []FittingNumberMeant
BY KInvariance, MeantFromInv, PTL

(* A number that the list shows runs the test next to it, for any number   *)
(* of tests below the end of an int.                                       *)
THEOREM ListRuns == Spec => []ListedTestRuns
<1>1. KInv => ListedTestRuns
  <2> SUFFICES ASSUME KInv, NEW i \in DOMAIN listed, said.arg = listed[i].number
               PROVE  said.entry # 0 /\ test_reg[said.entry] = listed[i].desc
    BY DEF ListedTestRuns
  <2>1. phase = "shell" /\ listed = Listing
    BY DEF KInv, ListedOK
  <2>2. i \in DOMAIN test_reg /\ said.arg = print_dec(i) /\ listed[i].desc = test_reg[i]
    BY <2>1 DEF Listing
  <2>3. i \in Nat /\ i < INT_END /\ i # 0
    <3>1. i \in 1 .. Len(test_reg) /\ Len(test_reg) \in Nat /\ Len(test_reg) <= MAX_TESTS
      BY <2>2 DEF KInv, RegisteredOK
    <3> QED BY <3>1, KernelTestsAssumption, NumbersAssumption
  <2>4. ValueOf(Number(said.arg), 10) = i
    BY <2>2, <2>3, PrintDecIs
  <2>5. said.entry \in {0, i} /\ (said.entry = 0 => i \notin DOMAIN test_reg)
    BY <2>1, <2>3, <2>4, MeantFromInv DEF FittingNumberMeant
  <2> QED BY <2>2, <2>3, <2>5
<1> QED BY <1>1, KInvariance, PTL

(* Every address but 0 is printed as its digits, from the first that is    *)
(* not zero, for words of any width; 0 is printed as nothing.              *)
THEOREM AddressesShown == Spec => []AddressShown
<1>1. KInv => AddressShown
  <2> SUFFICES ASSUME KInv, said.entry # 0
               PROVE  IF said.address = 0
                      THEN said.text = <<>>
                      ELSE /\ Len(said.text) > 0 /\ said.text[1] # ZERO
                           /\ ValueOf(said.text, 16) = said.address
    BY DEF AddressShown
  <2>1. PICK arg \in Seq(Nat), address \in Addresses : said = SaidOf(arg, address)
    BY DEF KInv, SaidOK, Nothing
  <2>2. address \in Nat
    BY KernelTestsAssumption, NumbersAssumption DEF Words
  <2>3. said.text = print_hex(address) /\ said.address = address
    BY <2>1 DEF SaidOf
  <2> QED BY <2>2, <2>3, PrintHexIs
<1> QED BY <1>1, KInvariance, PTL

(* No test but those registered is called, whatever is typed and however   *)
(* it wraps.                                                               *)
THEOREM TestsTypeCorrect == Spec => []TypeOK
<1>1. KInv => TypeOK
  <2> SUFFICES ASSUME KInv
               PROVE  TypeOK
    OBVIOUS
  <2>1. test_reg \in Seq(Tests) /\ Len(test_reg) <= MAX_TESTS /\ phase \in {"boot", "shell"}
    BY DEF KInv, RegisteredOK
  <2>2. ASSUME NEW i \in DOMAIN listed
        PROVE  listed[i].desc \in Tests
    <3>1. listed = Listing
      BY <2>2 DEF KInv, ListedOK
    <3>2. i \in DOMAIN test_reg /\ listed[i].desc = test_reg[i]
      BY <3>1 DEF Listing
    <3> QED BY <2>1, <3>2
  <2>3. said.entry \in 0 .. Len(test_reg)
    <3>1. Len(test_reg) \in Nat
      BY <2>1
    <3>2. CASE said = Nothing
      BY <3>1, <3>2 DEF Nothing
    <3>3. ASSUME NEW arg \in Seq(Nat), NEW address \in Addresses, said = SaidOf(arg, address)
          PROVE  said.entry \in 0 .. Len(test_reg)
      BY <3>1, <3>3, EntryIs
    <3> QED BY <3>2, <3>3 DEF KInv, SaidOK
  <2> QED BY <2>1, <2>2, <2>3 DEF TypeOK
<1> QED BY <1>1, KInvariance, PTL
=============================================================================
