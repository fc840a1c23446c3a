------------------------------ MODULE Induction -------------------------------
(***************************************************************************)
(* What the proofs about recursive definitions rest on.  An induction is   *)
(* over a set of numbers, so that every fact here can be cited; and a      *)
(* recursive function is only known to exist where it is built.            *)
(***************************************************************************)
EXTENDS Integers, SequencesExt, SequenceTheorems, WellFoundedInduction, TLAPS

(* Natural numbers. *)
LEMMA LeastNat ==
  ASSUME NEW T, T \subseteq Nat, T # {}
  PROVE  \E x \in T : \A y \in T : x <= y
<1> DEFINE R == OpToRel(<, Nat)
<1>1. IsWellFoundedOn(R, Nat)
  BY NatLessThanWellFounded
<1>2. \A x, y \in Nat : y < x => <<y, x>> \in R
  BY Zenon DEF OpToRel
<1> HIDE DEF R
<1>3. PICK x \in T : \A y \in T : ~ (<<y, x>> \in R)
  BY <1>1, WFMin
<1>4. ASSUME NEW y \in T
      PROVE  x <= y
  <2>1. x \in Nat /\ y \in Nat /\ ~(<<y, x>> \in R)
    BY <1>3
  <2> QED BY <1>2, <2>1
<1> QED BY <1>3, <1>4

(* Min of numbers is the least of them. *)
LEMMA MinLeast ==
  ASSUME NEW T, T \subseteq Nat, T # {}
  PROVE  Min(T) \in T /\ \A y \in T : Min(T) <= y
BY LeastNat DEF Min

(* What is in a set and below all of it is its Min. *)
LEMMA MinIs ==
  ASSUME NEW T, T \subseteq Nat, NEW k \in T, \A y \in T : k <= y
  PROVE  Min(T) = k
<1>1. /\ Min(T) \in T /\ Min(T) <= k /\ k <= Min(T)
  BY MinLeast
<1>2. Min(T) \in Nat /\ k \in Nat
  BY <1>1
<1> QED BY <1>1, <1>2

(* Induction over the natural numbers, and up to one of them. *)
LEMMA AllNat ==
  ASSUME NEW T, 0 \in T, \A i \in Nat : i \in T => i + 1 \in T
  PROVE  \A i \in Nat : i \in T
<1> DEFINE Missing == {i \in Nat : i \notin T}
<1>1. CASE Missing = {}
  BY <1>1
<1>2. CASE Missing # {}
  <2>1. PICK m \in Missing : \A y \in Missing : m <= y
    BY <1>2, LeastNat
  <2>2. m # 0 /\ m \in Nat /\ m - 1 \in Nat
    BY <2>1
  <2>3. m - 1 \notin Missing
    BY <2>1, <2>2
  <2> QED BY <2>1, <2>2, <2>3
<1> QED BY <1>1, <1>2

LEMMA UpTo ==
  ASSUME NEW n \in Nat, NEW T, 0 \in T, \A i \in 0 .. n - 1 : i \in T => i + 1 \in T
  PROVE  \A i \in 0 .. n : i \in T
<1> DEFINE U == {i \in Nat : i <= n => i \in T}
<1>1. 0 \in U /\ \A i \in Nat : i \in U => i + 1 \in U
  OBVIOUS
<1> HIDE DEF U
<1>2. \A i \in Nat : i \in U
  BY <1>1, AllNat
<1> QED BY <1>2 DEF U

(* Division, which the provers know but do not find by themselves.         *)
Division(n, b) ==
  /\ n \div b \in Nat /\ n % b \in 0 .. b - 1
  /\ n = (n \div b) * b + (n % b)

LEMMA DivisionLaw ==
  ASSUME NEW n \in Nat, NEW b \in Nat \ {0}
  PROVE  Division(n, b)
BY SMT DEF Division

(* A sequence over a set is one over any larger set. *)
LEMMA SeqOfMore ==
  ASSUME NEW S, NEW T, S \subseteq T, NEW s \in Seq(S)
  PROVE  s \in Seq(T)
<1> DEFINE n == Len(s)
<1>1. n \in Nat /\ s \in [1 .. n -> S]
  OBVIOUS
<1> HIDE DEF n
<1>2. s \in [1 .. n -> T]
  BY <1>1
<1> QED BY <1>1, <1>2

(* A recursion over 0 .. n defines a function, if its steps stay in a set. *)
Steps(n, S) == [1 .. n -> [S -> S]]
Runs(n, S) == [0 .. n -> S]
IsRun(g, n, base, Step) == g[0] = base /\ \A i \in 1 .. n : g[i] = Step[i][g[i-1]]

LEMMA StepsExist ==
  ASSUME NEW n \in Nat, NEW S, NEW base \in S, NEW Step \in Steps(n, S)
  PROVE  \E g \in Runs(n, S) : IsRun(g, n, base, Step)
<1> USE DEF Steps
<1> DEFINE Upto(g, m) == g[0] = base /\ \A i \in 1 .. m : g[i] = Step[i][g[i-1]]
           T == {m \in 0 .. n : \E g \in [0 .. m -> S] : Upto(g, m)}
<1>1. 0 \in T
  <2> DEFINE g == [i \in 0 .. 0 |-> base]
  <2>1. g \in [0 .. 0 -> S] /\ Upto(g, 0)
    OBVIOUS
  <2> HIDE DEF g, Upto
  <2>2. 0 \in 0 .. n
    OBVIOUS
  <2> QED BY <2>1, <2>2, Zenon
<1>2. ASSUME NEW m \in 0 .. n - 1, m \in T
      PROVE  m + 1 \in T
  <2>1. PICK g \in [0 .. m -> S] : Upto(g, m)
    BY <1>2
  <2> DEFINE h == [i \in 0 .. m + 1 |-> IF i = m + 1 THEN Step[m + 1][g[m]] ELSE g[i]]
  <2>2. Step[m + 1][g[m]] \in S
    BY <2>1
  <2>3. h \in [0 .. m + 1 -> S]
    BY <2>1, <2>2
  <2>4. /\ h[m + 1] = Step[m + 1][g[m]] /\ h[m] = g[m] /\ h[0] = g[0]
        /\ \A i \in 1 .. m : h[i] = g[i] /\ h[i-1] = g[i-1]
    OBVIOUS
  <2> HIDE DEF h
  <2>5. Upto(h, m + 1)
    <3>1. ASSUME NEW i \in 1 .. m + 1
          PROVE  h[i] = Step[i][h[i-1]]
      <4>1. CASE i \in 1 .. m
        BY <2>1, <2>4, <4>1
      <4>2. CASE i = m + 1
        BY <2>4, <4>2
      <4> QED BY <4>1, <4>2
    <3> QED BY <2>1, <2>4, <3>1
  <2> QED BY <2>3, <2>5
<1> HIDE DEF T
<1>3. \A i \in 0 .. n - 1 : i \in T => i + 1 \in T
  BY <1>2
<1>4. \A i \in 0 .. n : i \in T
  BY <1>1, <1>3, UpTo, Zenon
<1>5. n \in T
  BY <1>4
<1> QED BY <1>5 DEF T, Runs, IsRun
=============================================================================
