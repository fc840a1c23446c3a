------------------------------ MODULE VfsProofs -------------------------------
(***************************************************************************)
(* Theorems about Heap, for every address space, kernel size and set of    *)
(* allocation sizes, and about the file system that shares its memory, for *)
(* every set of archives.                                                  *)
(***************************************************************************)
EXTENDS Vfs, Induction

AllBlocks == [addr : 0 .. ADDRESSES - 1, size : Sizes]

(* The blocks of bs lie in order between the kernel's end and address f. *)
Ordered(bs, f) ==
  /\ \A i \in DOMAIN bs :
       KernelEnd <= bs[i].addr /\ bs[i].addr + bs[i].size <= f
  /\ \A i, j \in DOMAIN bs : i < j => bs[i].addr + bs[i].size <= bs[j].addr

(* A block taken at f keeps the order and moves the limit by its size. *)
LEMMA AppendOrdered ==
  ASSUME NEW bs \in Seq(AllBlocks), NEW f \in 0 .. ADDRESSES - 1, NEW size \in Sizes,
         Ordered(bs, f), KernelEnd <= f
  PROVE  /\ Append(bs, Block(f, size)) \in Seq(AllBlocks)
         /\ Ordered(Append(bs, Block(f, size)), f + size)
<1> DEFINE b == Block(f, size)
           new == Append(bs, b)
<1>1. b \in AllBlocks /\ b.addr = f /\ b.size = size /\ size \in Nat /\ f \in Nat
  BY HeapAssumption DEF Block, AllBlocks
<1> HIDE DEF b
<1>2. /\ new \in Seq(AllBlocks) /\ Len(new) = Len(bs) + 1
      /\ \A i \in 1 .. Len(bs) : new[i] = bs[i]
      /\ new[Len(bs) + 1] = b
  BY <1>1, AppendProperties
<1> HIDE DEF new
<1>3. /\ DOMAIN new = 1 .. Len(bs) + 1 /\ DOMAIN bs = 1 .. Len(bs) /\ Len(bs) \in Nat
  BY <1>2
<1>4. \A i \in 1 .. Len(bs) : bs[i].addr \in Nat /\ bs[i].size \in Nat
  <2>1. \A i \in 1 .. Len(bs) : bs[i] \in AllBlocks
    BY <1>3
  <2>2. \A x \in AllBlocks : x.addr \in Nat /\ x.size \in Nat
    <3>1. \A x \in AllBlocks : x.addr \in 0 .. ADDRESSES - 1 /\ x.size \in Sizes
      BY DEF AllBlocks
    <3>2. Sizes \subseteq Nat /\ 0 .. ADDRESSES - 1 \subseteq Nat
      BY HeapAssumption
    <3> QED BY <3>1, <3>2
  <2> QED BY <2>1, <2>2
<1>5. ASSUME NEW i \in DOMAIN new
      PROVE  KernelEnd <= new[i].addr /\ new[i].addr + new[i].size <= f + size
  BY <1>1, <1>2, <1>3, <1>4, HeapAssumption, SMTT(20) DEF Ordered
<1>6. ASSUME NEW i \in DOMAIN new, NEW j \in DOMAIN new, i < j
      PROVE  new[i].addr + new[i].size <= new[j].addr
  <2>1. i \in 1 .. Len(bs) /\ new[i] = bs[i]
    BY <1>2, <1>3, <1>6
  <2>2. CASE j \in 1 .. Len(bs)
    BY <2>1, <2>2, <1>2, <1>3, <1>6 DEF Ordered
  <2>3. CASE j = Len(bs) + 1
    BY <2>1, <2>3, <1>1, <1>2, <1>3 DEF Ordered
  <2> QED BY <2>2, <2>3, <1>3
<1> QED BY <1>2, <1>5, <1>6 DEF Ordered, new, b

(* The inductive invariant.  Until the space is used up the next address   *)
(* is the kernel's end plus everything asked for, which is what rules a    *)
(* wrap out.                                                               *)
IInv ==
  /\ HeapTypeOK
  /\ Fits => free_memory_address = KernelEnd + total
  /\ BlocksInOrder

(* While it fits, an allocation adds its size. *)
LEMMA BumpFits ==
  ASSUME NEW f \in 0 .. ADDRESSES - 1, NEW size \in Sizes
  PROVE  /\ Bump(f, size) \in 0 .. ADDRESSES - 1
         /\ f + size < ADDRESSES => Bump(f, size) = f + size
  BY HeapAssumption DEF Bump

(* The heap begins at the kernel's end. *)
LEMMA InitIInv == HeapInit => IInv
  BY HeapAssumption DEF HeapInit, IInv, HeapTypeOK, Fits, BlocksInOrder

(* Every call of kmalloc keeps the invariant of the heap. *)
LEMMA NextIInv == IInv /\ [HeapNext]_heap => IInv'
<1> SUFFICES ASSUME IInv, [HeapNext]_heap
             PROVE  IInv'
  OBVIOUS
<1> DEFINE f == free_memory_address
<1>1. /\ f \in 0 .. ADDRESSES - 1 /\ blocks \in Seq(AllBlocks) /\ total \in Nat
      /\ Fits => f = KernelEnd + total /\ Ordered(blocks, f)
  BY DEF IInv, HeapTypeOK, AllBlocks, BlocksInOrder, Ordered
<1>2. ASSUME NEW size \in Sizes, kmalloc(size)
      PROVE  IInv'
  <2>1. /\ f' = Bump(f, size) /\ blocks' = Append(blocks, Block(f, size))
        /\ total' = total + size
        /\ size \in Nat \ {0} /\ KernelEnd \in Nat
    BY <1>2, HeapAssumption DEF kmalloc
  <2>2. Block(f, size) \in AllBlocks
    BY <1>1 DEF Block, AllBlocks
  <2>3. HeapTypeOK'
    BY <1>1, <2>1, <2>2, BumpFits DEF HeapTypeOK, AllBlocks
  <2>4. ASSUME Fits'
        PROVE  f' = KernelEnd + total' /\ Ordered(blocks', f')
    <3>1. Fits /\ f = KernelEnd + total /\ f + size < ADDRESSES
      BY <1>1, <2>1, <2>4, HeapAssumption DEF Fits
    <3>2. f' = f + size
      BY <1>1, <2>1, <3>1, BumpFits
    <3> QED BY <1>1, <2>1, <3>1, <3>2, AppendOrdered
  <2> QED BY <2>3, <2>4 DEF IInv, BlocksInOrder, Ordered
<1>3. CASE test_mem
  <2> DEFINE a == Bump(f, TestSize1)
             once == Append(blocks, Block(f, TestSize1))
  <2>1. /\ f' = Bump(a, TestSize2) /\ blocks' = Append(once, Block(a, TestSize2))
        /\ total' = total + TestSize1 + TestSize2
    BY <1>3 DEF test_mem
  <2>2. /\ TestSize1 \in Sizes /\ TestSize2 \in Sizes
        /\ TestSize1 \in Nat \ {0} /\ TestSize2 \in Nat \ {0} /\ KernelEnd \in Nat
    BY HeapAssumption
  <2>3. a \in 0 .. ADDRESSES - 1
    BY <1>1, <2>2, BumpFits
  <2>4. HeapTypeOK'
    <3>1. Block(f, TestSize1) \in AllBlocks /\ Block(a, TestSize2) \in AllBlocks
      BY <1>1, <2>2, <2>3 DEF Block, AllBlocks
    <3> HIDE DEF a
    <3>2. once \in Seq(AllBlocks)
      BY <1>1, <3>1
    <3> QED BY <1>1, <2>1, <2>2, <2>3, <3>1, <3>2, BumpFits DEF HeapTypeOK, AllBlocks
  <2>5. ASSUME Fits'
        PROVE  f' = KernelEnd + total' /\ Ordered(blocks', f')
    <3>1. /\ Fits /\ f = KernelEnd + total
          /\ f + TestSize1 < ADDRESSES /\ f + TestSize1 + TestSize2 < ADDRESSES
      BY <1>1, <2>1, <2>2, <2>5, HeapAssumption DEF Fits
    <3>2. a = f + TestSize1
      BY <1>1, <2>2, <3>1, BumpFits
    <3> HIDE DEF a
    <3>3. f' = a + TestSize2
      BY <2>1, <2>2, <2>3, <3>1, <3>2, BumpFits
    <3>4. once \in Seq(AllBlocks) /\ Ordered(once, a)
      BY <1>1, <2>2, <3>1, <3>2, AppendOrdered
    <3> HIDE DEF once
    <3>5. KernelEnd <= a
      BY <1>1, <2>2, <3>1, <3>2
    <3>6. Ordered(blocks', f')
      BY <2>1, <2>2, <2>3, <3>3, <3>4, <3>5, AppendOrdered
    <3>7. f' = KernelEnd + total'
      BY <1>1, <2>1, <2>2, <3>1, <3>2, <3>3
    <3> QED BY <3>6, <3>7
  <2> QED BY <2>4, <2>5 DEF IInv, BlocksInOrder, Ordered
<1>4. CASE UNCHANGED heap
  BY <1>4 DEF heap, IInv, HeapTypeOK, Fits, BlocksInOrder
<1> QED BY <1>2, <1>3, <1>4 DEF HeapNext

(* The invariant holds in every state of every behaviour. *)
THEOREM Invariance == HeapSpec => []IInv
  BY InitIInv, NextIInv, PTL DEF HeapSpec

(* The next address is always a uint32_t, blocks have the sizes asked for. *)
THEOREM TypeCorrect == HeapSpec => []HeapTypeOK
<1>1. IInv => HeapTypeOK
  BY DEF IInv
<1> QED BY <1>1, Invariance, PTL

(* Until the address space is used up, no two blocks share a byte, whatever*)
(* the sizes and the order of the calls.                                   *)
THEOREM BlocksApart == HeapSpec => []BlocksInOrder
<1>1. IInv => BlocksInOrder
  BY DEF IInv
<1> QED BY <1>1, Invariance, PTL

-----------------------------------------------------------------------------
(* The archive: where its headers lie, and what they hold. *)

LEMMA MultiplesApart ==
  ASSUME NEW p \in Nat, NEW q \in Nat, NEW b \in Nat \ {0}, p < q
  PROVE  p * b + b <= q * b
<1>1. (p + 1) * b <= q * b
  BY SMT
<1> QED BY <1>1

(* Rounding up gives the padded size, which is what the walk depends on.   *)
LEMMA PaddedIs ==
  ASSUME NEW size \in Nat
  PROVE  Padded(size) = RoundUp(size) /\ RoundUp(size) \in size .. size + BLOCK - 1
<1> DEFINE q == (size + BLOCK - 1) \div BLOCK
           R == q * BLOCK
           P == Padded(size)
<1>1. BLOCK \in Nat \ {0} /\ size + BLOCK - 1 \in Nat
  BY VfsAssumption
<1>2. Division(size + BLOCK - 1, BLOCK)
  BY <1>1, DivisionLaw
<1>3. q \in Nat
  BY <1>2 DEF Division
<1>4. R % BLOCK = 0 /\ R \in Nat
  <2> HIDE DEF q
  <2> QED BY <1>1, <1>3
<1>5. R \in size .. size + BLOCK - 1
  <2>1. size + BLOCK - 1 = R + ((size + BLOCK - 1) % BLOCK)
    BY <1>2 DEF Division
  <2>2. (size + BLOCK - 1) % BLOCK \in 0 .. BLOCK - 1
    BY <1>2 DEF Division
  <2> HIDE DEF R
  <2> QED BY <1>1, <1>4, <2>1, <2>2
<1>6. P \in size .. size + BLOCK - 1 /\ P % BLOCK = 0
  BY <1>4, <1>5 DEF Padded
<1> HIDE DEF P
<1>7. PICK p \in Nat : P = p * BLOCK
  <2>1. P \in Nat
    BY <1>1, <1>6
  <2>2. Division(P, BLOCK)
    BY <1>1, <2>1, DivisionLaw
  <2>3. P \div BLOCK \in Nat /\ P = (P \div BLOCK) * BLOCK
    BY <1>1, <1>6, <2>1, <2>2 DEF Division
  <2> QED BY <2>3
<1> HIDE DEF q
<1>8. ~ p < q
  <2> SUFFICES ASSUME p < q PROVE FALSE
    OBVIOUS
  <2>1. P + BLOCK <= R
    BY <1>1, <1>3, <1>7, MultiplesApart
  <2> HIDE DEF R
  <2> QED BY <1>1, <1>4, <1>5, <1>6, <2>1
<1>9. ~ q < p
  <2> SUFFICES ASSUME q < p PROVE FALSE
    OBVIOUS
  <2>1. R + BLOCK <= P
    BY <1>1, <1>3, <1>7, MultiplesApart
  <2> HIDE DEF R
  <2> QED BY <1>1, <1>4, <1>5, <1>6, <2>1
<1>10. P = R
  BY <1>3, <1>7, <1>8, <1>9
<1>11. RoundUp(size) = R
  BY DEF RoundUp, q
<1> QED BY <1>5, <1>10, <1>11 DEF P

(* An archive's entries. *)
LEMMA ArchiveIs ==
  ASSUME NEW a \in Archives
  PROVE  /\ DOMAIN a = 1 .. Len(a) /\ Len(a) \in Nat
         /\ EndOf(a) \in Memory
         /\ \A i \in 1 .. Len(a) : /\ a[i].size \in Nat /\ a[i].size + 1 \in Sizes
                                   /\ OctalLeft(a[i].size)[OctDigits] = 0
BY VfsAssumption

(* Where file i ends, filled up: the next header. *)
PastFile(a, i) == HeaderAt(a)[i] + BLOCK + Padded(a[i].size)

(* The headers follow each other from mod_start. *)
LEMMA HeaderLaw ==
  ASSUME NEW a \in Archives
  PROVE  /\ HeaderAt(a)[1] = mod_start
         /\ \A i \in 1 .. Len(a) : HeaderAt(a)[i + 1] = PastFile(a, i)
         /\ \A i \in 1 .. Len(a) + 1 : HeaderAt(a)[i] \in Nat
<1> DEFINE n == Len(a)
           pad(i) == Padded(a[i].size)
           Step == [i \in 1 .. n |-> [x \in Nat |-> x + BLOCK + pad(i)]]
           at == HeaderAt(a)
           IsAt(f) == f = [i \in 1 .. n + 1 |-> IF i = 1 THEN mod_start
                                                ELSE f[i-1] + BLOCK + Padded(a[i-1].size)]
<1>1. n \in Nat /\ BLOCK \in Nat /\ mod_start \in Nat
  BY ArchiveIs, VfsAssumption, HeapAssumption
<1>2. ASSUME NEW i \in 1 .. n
      PROVE  pad(i) \in Nat
  <2>1. a[i].size \in Nat
    BY <1>2, ArchiveIs
  <2>2. RoundUp(a[i].size) \in Nat
    BY <1>1, <2>1, PaddedIs
  <2> QED BY <2>1, <2>2, PaddedIs
<1>3. Step \in Steps(n, Nat) /\ \A i \in 1 .. n, x \in Nat : Step[i][x] = x + BLOCK + pad(i)
  <2> HIDE DEF n, pad
  <2> QED BY <1>1, <1>2 DEF Steps
<1> HIDE DEF Step
<1>4. PICK g \in Runs(n, Nat) : IsRun(g, n, mod_start, Step)
  BY <1>1, <1>3, StepsExist
<1> HIDE DEF n, pad
<1>5. IsAt([i \in 1 .. n + 1 |-> g[i-1]])
  <2> DEFINE f == [i \in 1 .. n + 1 |-> g[i-1]]
  <2>1. ASSUME NEW i \in 1 .. n + 1
        PROVE  f[i] = IF i = 1 THEN mod_start ELSE f[i-1] + BLOCK + Padded(a[i-1].size)
    <3>1. CASE i = 1
      BY <1>1, <1>4, <2>1, <3>1 DEF IsRun
    <3>2. CASE i # 1
      <4>1. i - 1 \in 1 .. n /\ i - 1 \in 1 .. n + 1 /\ (i - 1) - 1 \in 0 .. n
        BY <1>1, <3>2
      <4>2. f[i] = g[i-1] /\ f[i-1] = g[(i-1)-1]
        BY <2>1, <4>1
      <4>3. g[i-1] = Step[i-1][g[(i-1)-1]] /\ g[(i-1)-1] \in Nat
        BY <1>4, <4>1 DEF IsRun, Runs
      <4> HIDE DEF f
      <4>4. Step[i-1][g[(i-1)-1]] = g[(i-1)-1] + BLOCK + pad(i-1)
        BY <1>3, <4>1, <4>3
      <4> QED BY <3>2, <4>2, <4>3, <4>4 DEF pad
    <3> QED BY <3>1, <3>2
  <2> QED BY <2>1
<1>6. HeaderAt(a) = CHOOSE f : IsAt(f)
  BY DEF HeaderAt, n
<1>7. IsAt(at)
  <2> HIDE DEF IsAt
  <2> QED BY <1>5, <1>6
<1> HIDE DEF at
<1>8. at[1] = mod_start
  BY <1>1, <1>7
<1>9. ASSUME NEW i \in 1 .. n
      PROVE  at[i + 1] = at[i] + BLOCK + pad(i)
  <2>1. i + 1 \in 1 .. n + 1 /\ i + 1 # 1 /\ (i + 1) - 1 = i
    BY <1>1
  <2> QED BY <1>7, <2>1 DEF pad
<1>10. \A i \in 1 .. n + 1 : at[i] \in Nat
  <2> DEFINE T == {i \in 0 .. n : at[i + 1] \in Nat}
  <2>1. 0 \in T
    BY <1>1, <1>8
  <2>2. ASSUME NEW i \in 0 .. n - 1, i \in T
        PROVE  i + 1 \in T
    <3>1. i + 1 \in 1 .. n /\ i + 1 \in 0 .. n /\ at[i + 1] \in Nat
      BY <1>1, <2>2
    <3>2. at[(i + 1) + 1] = at[i + 1] + BLOCK + pad(i + 1)
      BY <1>9, <3>1
    <3> QED BY <1>1, <1>2, <3>1, <3>2
  <2> HIDE DEF T
  <2>3. \A i \in 0 .. n : i \in T
    BY <1>1, <2>1, <2>2, UpTo
  <2>4. ASSUME NEW i \in 1 .. n + 1
        PROVE  at[i] \in Nat
    <3>1. i - 1 \in 0 .. n /\ (i - 1) + 1 = i
      BY <1>1
    <3>2. i - 1 \in T
      BY <2>3, <3>1
    <3> QED BY <3>1, <3>2 DEF T
  <2> QED BY <2>4
<1> QED BY <1>8, <1>9, <1>10 DEF at, n, pad, PastFile

(* Entry i takes the bytes from its header to the end of its file: they    *)
(* lie in order, above mod_start and below the end.                        *)
Place(a, i) == HeaderAt(a)[i] .. HeaderAt(a)[i] + BLOCK + a[i].size - 1

(* A file ends before the next header begins, and the archive after the    *)
(* last.                                                                   *)
LEMMA HeadersInOrder ==
  ASSUME NEW a \in Archives
  PROVE  /\ \A i \in 1 .. Len(a), j \in 1 .. Len(a) + 1 :
              i < j => HeaderAt(a)[i] + BLOCK + a[i].size <= HeaderAt(a)[j]
         /\ \A i \in 1 .. Len(a) + 1 :
              mod_start <= HeaderAt(a)[i] /\ HeaderAt(a)[i] + 2 * BLOCK <= EndOf(a)
<1> DEFINE n == Len(a)
           at == HeaderAt(a)
           size(i) == a[i].size
<1>1. n \in Nat /\ BLOCK \in Nat \ {0} /\ mod_start \in Nat /\ \A i \in 1 .. n : size(i) \in Nat
  BY ArchiveIs, VfsAssumption, HeapAssumption
<1>2. /\ at[1] = mod_start
      /\ \A i \in 1 .. n + 1 : at[i] \in Nat
      /\ EndOf(a) = at[n + 1] + 2 * BLOCK
  BY HeaderLaw DEF EndOf
<1>3. \A i \in 1 .. n : at[i] + BLOCK + size(i) <= at[i + 1]
  <2>1. ASSUME NEW i \in 1 .. n
        PROVE  at[i] + BLOCK + size(i) <= at[i + 1]
    <3>1. at[i + 1] = at[i] + BLOCK + Padded(size(i))
      BY HeaderLaw DEF PastFile
    <3>2. size(i) \in Nat /\ at[i] \in Nat /\ BLOCK \in Nat
      BY <1>1, <1>2
    <3> HIDE DEF at, size
    <3>3. Padded(size(i)) >= size(i) /\ Padded(size(i)) \in Nat
      BY <3>2, PaddedIs
    <3> QED BY <3>1, <3>2, <3>3
  <2> QED BY <2>1
<1> HIDE DEF n, at, size
<1>4. \A j \in 1 .. n + 1 : mod_start <= at[j] /\ \A i \in 1 .. n : i < j => at[i] + BLOCK + size(i) <= at[j]
  <2> DEFINE T == {j \in 0 .. n : /\ mod_start <= at[j + 1]
                                  /\ \A i \in 1 .. j : at[i] + BLOCK + size(i) <= at[j + 1]}
  <2>1. 0 \in T
    BY <1>1, <1>2
  <2>2. ASSUME NEW j \in 0 .. n - 1, j \in T
        PROVE  j + 1 \in T
    <3>1. j + 1 \in 1 .. n /\ j + 1 \in 1 .. n + 1 /\ (j + 1) + 1 \in 1 .. n + 1 /\ j + 1 \in 0 .. n
      BY <1>1
    <3>2. at[j + 1] \in Nat /\ at[(j + 1) + 1] \in Nat /\ size(j + 1) \in Nat
      BY <1>1, <1>2, <3>1
    <3>3. at[j + 1] + BLOCK + size(j + 1) <= at[(j + 1) + 1]
      BY <1>3, <3>1
    <3>4. mod_start <= at[j + 1] /\ \A i \in 1 .. j : at[i] + BLOCK + size(i) <= at[j + 1]
      BY <2>2
    <3>5. at[j + 1] <= at[(j + 1) + 1]
      BY <1>1, <3>2, <3>3
    <3>6. ASSUME NEW i \in 1 .. j + 1
          PROVE  at[i] + BLOCK + size(i) <= at[(j + 1) + 1]
      <4>1. CASE i = j + 1
        BY <3>3, <4>1
      <4>2. CASE i # j + 1
        <5>1. i \in 1 .. j /\ i \in 1 .. n /\ i \in 1 .. n + 1
          BY <1>1, <4>2
        <5>2. at[i] \in Nat /\ size(i) \in Nat
          BY <1>1, <1>2, <5>1
        <5> QED BY <1>1, <3>2, <3>4, <3>5, <5>1, <5>2
      <4> QED BY <4>1, <4>2
    <3>7. mod_start <= at[(j + 1) + 1]
      BY <1>1, <3>2, <3>4, <3>5
    <3> QED BY <3>1, <3>6, <3>7
  <2> HIDE DEF T
  <2>3. \A j \in 0 .. n : j \in T
    BY <1>1, <2>1, <2>2, UpTo
  <2>4. ASSUME NEW j \in 1 .. n + 1
        PROVE  mod_start <= at[j] /\ \A i \in 1 .. n : i < j => at[i] + BLOCK + size(i) <= at[j]
    <3>1. j - 1 \in 0 .. n /\ (j - 1) + 1 = j
      BY <1>1
    <3>2. j - 1 \in T
      BY <2>3, <3>1
    <3> QED BY <3>1, <3>2 DEF T
  <2> QED BY <2>4
<1>5. ASSUME NEW i \in 1 .. n + 1
      PROVE  at[i] + 2 * BLOCK <= EndOf(a)
  <2>1. CASE i = n + 1
    BY <1>1, <1>2, <2>1
  <2>2. CASE i # n + 1
    <3>1. i \in 1 .. n /\ i < n + 1 /\ n + 1 \in 1 .. n + 1
      BY <1>1, <2>2
    <3>2. at[i] + BLOCK + size(i) <= at[n + 1] /\ at[i] \in Nat /\ at[n + 1] \in Nat /\ size(i) \in Nat
      BY <1>1, <1>2, <1>4, <3>1
    <3> QED BY <1>1, <1>2, <3>2
  <2> QED BY <2>1, <2>2
<1> QED BY <1>4, <1>5 DEF n, at, size

(* No byte of the archive belongs to two files. *)
LEMMA PlacesApart ==
  ASSUME NEW a \in Archives, NEW i \in 1 .. Len(a), NEW x \in Place(a, i)
  PROVE  /\ x \in mod_start .. EndOf(a) - 1
         /\ x \in Memory
         /\ x # HeaderAt(a)[Len(a) + 1]
         /\ \A j \in 1 .. Len(a) : x \in Place(a, j) => i = j
<1> DEFINE n == Len(a)
           at == HeaderAt(a)
           size(j) == a[j].size
<1>1. n \in Nat /\ BLOCK \in Nat \ {0} /\ mod_start \in Nat /\ \A j \in 1 .. n : size(j) \in Nat
  BY ArchiveIs, VfsAssumption, HeapAssumption
<1>2. \A j \in 1 .. n + 1 : at[j] \in Nat /\ mod_start <= at[j] /\ at[j] + 2 * BLOCK <= EndOf(a)
  BY HeaderLaw, HeadersInOrder
<1>3. \A j \in 1 .. n, k \in 1 .. n + 1 : j < k => at[j] + BLOCK + size(j) <= at[k]
  BY HeadersInOrder
<1>4. \A j \in 1 .. n : Place(a, j) = at[j] .. at[j] + BLOCK + size(j) - 1
  BY DEF Place
<1>5. EndOf(a) \in Nat /\ EndOf(a) < ADDRESSES /\ ADDRESSES \in Nat
  BY ArchiveIs, HeapAssumption DEF Memory
<1> HIDE DEF at, size
<1>6. i \in 1 .. n /\ i \in 1 .. n + 1 /\ n + 1 \in 1 .. n + 1 /\ i < n + 1
  BY <1>1
<1>7. x \in at[i] .. at[i] + BLOCK + size(i) - 1
  <2>1. x \in Place(a, i)
    OBVIOUS
  <2> QED BY <1>4, <1>6, <2>1
<1> HIDE DEF n
<1>8. at[i] \in Nat /\ at[n + 1] \in Nat /\ size(i) \in Nat /\ at[i] + BLOCK + size(i) <= at[n + 1]
  BY <1>1, <1>2, <1>3, <1>6
<1>9. x \in Nat /\ x >= mod_start /\ x < at[n + 1] /\ x < EndOf(a)
  <2>1. mod_start <= at[i] /\ at[n + 1] + 2 * BLOCK <= EndOf(a) /\ x >= at[i]
        /\ x < at[i] + BLOCK + size(i) /\ x \in Int
    BY <1>1, <1>2, <1>6, <1>8, <1>7
  <2>2. x >= mod_start /\ x \in Nat
    BY <1>1, <1>8, <2>1
  <2>3. x < at[n + 1]
    BY <1>1, <1>8, <2>1
  <2>4. x < EndOf(a)
    BY <1>1, <1>5, <1>8, <2>1, <2>3
  <2> QED BY <2>2, <2>3, <2>4
<1>10. ASSUME NEW j \in 1 .. n, x \in Place(a, j), i # j
      PROVE  FALSE
  <2>1. j \in 1 .. n + 1 /\ x \in at[j] .. at[j] + BLOCK + size(j) - 1 /\ at[j] \in Nat /\ size(j) \in Nat
    BY <1>1, <1>2, <1>4, <1>10
  <2>2. CASE i < j
    <3>1. at[i] + BLOCK + size(i) <= at[j]
      BY <1>3, <1>6, <2>1, <2>2
    <3> QED BY <1>1, <1>7, <1>8, <1>9, <2>1, <3>1, SMTT(20)
  <2>3. CASE j < i
    <3>1. at[j] + BLOCK + size(j) <= at[i]
      BY <1>3, <1>6, <2>1, <2>3
    <3> QED BY <1>1, <1>7, <1>8, <1>9, <2>1, <3>1, SMTT(20)
  <2> QED BY <1>6, <1>10, <2>2, <2>3
<1>11. x \in Memory /\ x \in mod_start .. EndOf(a) - 1 /\ x # at[n + 1]
  BY <1>1, <1>5, <1>8, <1>9 DEF Memory
<1>12. \A j \in 1 .. n : x \in Place(a, j) => i = j
  BY <1>10
<1> QED BY <1>11, <1>12 DEF n, at

Headers(a, x) == {i \in 1 .. Len(a) : x = HeaderAt(a)[i]}
Files(a, x) == {i \in 1 .. Len(a) : x - HeaderAt(a)[i] - BLOCK \in 0 .. a[i].size - 1}

(* What the boot loader put at an address. *)
LEMMA ImageIs ==
  ASSUME NEW a \in Archives, NEW x \in Memory
  PROVE  /\ Headers(a, x) # {} => Image(a)[x] = <<"header", CHOOSE i \in Headers(a, x) : TRUE>>
         /\ Headers(a, x) = {} /\ Files(a, x) # {} =>
              Image(a)[x] = LET i == CHOOSE i \in Files(a, x) : TRUE
                            IN  <<"data", i, x - HeaderAt(a)[i] - BLOCK>>
         /\ Headers(a, x) = {} /\ Files(a, x) = {} /\ x \in mod_start .. EndOf(a) - 1 =>
              Image(a)[x] = Zero
<1> DEFINE h == <<"header", CHOOSE i \in Headers(a, x) : TRUE>>
           d == LET i == CHOOSE i \in Files(a, x) : TRUE
                IN  <<"data", i, x - HeaderAt(a)[i] - BLOCK>>
<1>1. Image(a)[x] = IF Headers(a, x) # {} THEN h
                    ELSE IF Files(a, x) # {} THEN d
                    ELSE IF x \in mod_start .. EndOf(a) - 1 THEN Zero
                    ELSE Other
  BY Zenon DEF Image, Headers, Files
<1> HIDE DEF h, d
<1>2. /\ Headers(a, x) # {} => Image(a)[x] = h
      /\ Headers(a, x) = {} /\ Files(a, x) # {} => Image(a)[x] = d
      /\ Headers(a, x) = {} /\ Files(a, x) = {} /\ x \in mod_start .. EndOf(a) - 1 =>
           Image(a)[x] = Zero
  BY <1>1, Zenon
<1> QED BY <1>2, Zenon DEF h, d

(* A file's header and its data lie in its place. *)
LEMMA Places ==
  ASSUME NEW a \in Archives, NEW x \in Int, NEW i \in 1 .. Len(a)
  PROVE  /\ i \in Headers(a, x) => x \in Place(a, i)
         /\ i \in Files(a, x) => x \in Place(a, i)
<1>1. BLOCK \in Nat \ {0} /\ a[i].size \in Nat /\ i \in 1 .. Len(a) + 1
  BY ArchiveIs, VfsAssumption
<1>2. HeaderAt(a)[i] \in Nat
  BY <1>1, HeaderLaw
<1> QED BY <1>1, <1>2, SMTT(20) DEF Headers, Files, Place

(* What memory holds where the walk and the reads look. *)
LEMMA HeaderByte ==
  ASSUME NEW a \in Archives, NEW i \in 1 .. Len(a)
  PROVE  HeaderAt(a)[i] \in Memory /\ Image(a)[HeaderAt(a)[i]] = <<"header", i>>
<1> DEFINE x == HeaderAt(a)[i]
<1>1. BLOCK \in Nat \ {0} /\ a[i].size \in Nat /\ i \in 1 .. Len(a) + 1
  BY ArchiveIs, VfsAssumption
<1>2. x \in Nat
  BY <1>1, HeaderLaw
<1>3. x \in Place(a, i) /\ i \in Headers(a, x)
  BY <1>1, <1>2 DEF Place, Headers
<1> HIDE DEF x
<1>4. Headers(a, x) = {i}
  <2>1. ASSUME NEW j \in Headers(a, x)
        PROVE  j = i
    <3>1. j \in 1 .. Len(a)
      BY DEF Headers
    <3>2. x \in Place(a, j)
      BY <1>2, <3>1, Places
    <3> QED BY <1>3, <3>1, <3>2, PlacesApart
  <2> QED BY <1>3, <2>1
<1>5. x \in Memory
  BY <1>3, PlacesApart
<1>6. (CHOOSE j \in Headers(a, x) : TRUE) = i
  BY <1>4
<1>7. Headers(a, x) # {}
  BY <1>3
<1>8. Image(a)[x] = <<"header", CHOOSE j \in Headers(a, x) : TRUE>>
  BY <1>5, <1>7, ImageIs, Zenon
<1> QED BY <1>5, <1>6, <1>8 DEF x

(* The bytes of a file lie behind its header, in order. *)
LEMMA DataByte ==
  ASSUME NEW a \in Archives, NEW i \in 1 .. Len(a), NEW k \in 0 .. a[i].size - 1
  PROVE  /\ HeaderAt(a)[i] + BLOCK + k \in mod_start .. EndOf(a) - 1
         /\ HeaderAt(a)[i] + BLOCK + k \in Memory
         /\ Image(a)[HeaderAt(a)[i] + BLOCK + k] = <<"data", i, k>>
<1> DEFINE x == HeaderAt(a)[i] + BLOCK + k
<1>1. BLOCK \in Nat \ {0} /\ a[i].size \in Nat /\ i \in 1 .. Len(a) + 1 /\ k \in Nat
  BY ArchiveIs, VfsAssumption
<1>2. HeaderAt(a)[i] \in Nat
  BY <1>1, HeaderLaw
<1>3. x \in Nat /\ x # HeaderAt(a)[i] /\ x - HeaderAt(a)[i] - BLOCK = k
  BY <1>1, <1>2
<1>4. x \in Place(a, i)
  BY <1>1, <1>2, SMTT(20) DEF Place
<1> HIDE DEF x
<1>5. i \in Files(a, x)
  BY <1>3 DEF Files
<1>6. Files(a, x) = {i}
  <2>1. ASSUME NEW j \in Files(a, x)
        PROVE  j = i
    <3>1. j \in 1 .. Len(a)
      BY DEF Files
    <3>2. x \in Place(a, j)
      BY <1>3, <3>1, Places
    <3> QED BY <1>4, <3>1, <3>2, PlacesApart
  <2> QED BY <1>5, <2>1
<1>7. x \in Memory /\ x \in mod_start .. EndOf(a) - 1
  BY <1>4, PlacesApart
<1>8. (CHOOSE j \in Files(a, x) : TRUE) = i
  BY <1>6
<1>9. Files(a, x) # {}
  BY <1>5
<1>10. Headers(a, x) = {}
  <2>1. ASSUME NEW j \in Headers(a, x)
        PROVE  FALSE
    <3>1. j \in 1 .. Len(a) /\ x = HeaderAt(a)[j]
      BY DEF Headers
    <3>2. x \in Place(a, j)
      BY <1>3, <3>1, Places
    <3>3. j = i
      BY <1>4, <3>1, <3>2, PlacesApart
    <3> QED BY <1>3, <3>1, <3>3
  <2> QED BY <2>1
<1>11. Image(a)[x] = LET j == CHOOSE j \in Files(a, x) : TRUE
                    IN  <<"data", j, x - HeaderAt(a)[j] - BLOCK>>
  BY <1>7, <1>9, <1>10, ImageIs, Zenon
<1>12. Image(a)[x] = <<"data", i, x - HeaderAt(a)[i] - BLOCK>>
  BY <1>8, <1>11
<1> QED BY <1>3, <1>7, <1>12 DEF x

(* Behind the last file there is no header. *)
LEMMA EndByte ==
  ASSUME NEW a \in Archives
  PROVE  HeaderAt(a)[Len(a) + 1] \in Memory /\ Image(a)[HeaderAt(a)[Len(a) + 1]] = Zero
<1> DEFINE x == HeaderAt(a)[Len(a) + 1]
<1>1. BLOCK \in Nat \ {0} /\ Len(a) \in Nat /\ EndOf(a) \in Memory /\ mod_start \in Nat
  BY ArchiveIs, VfsAssumption, HeapAssumption
<1>2. x \in Nat /\ mod_start <= x /\ x + 2 * BLOCK <= EndOf(a)
  BY <1>1, HeaderLaw, HeadersInOrder
<1>3. x \in Memory /\ x \in mod_start .. EndOf(a) - 1
  BY <1>1, <1>2, HeapAssumption DEF Memory
<1>4. Headers(a, x) = {} /\ Files(a, x) = {}
  <2>1. ASSUME NEW j \in Headers(a, x) \cup Files(a, x)
        PROVE  FALSE
    <3>1. j \in 1 .. Len(a)
      BY <2>1 DEF Headers, Files
    <3>2. x \in Place(a, j)
      BY <1>2, <2>1, <3>1, Places
    <3> QED BY <3>1, <3>2, PlacesApart
  <2> QED BY <2>1
<1> HIDE DEF x
<1>5. Image(a)[x] = Zero
  BY <1>3, <1>4, ImageIs, Zenon
<1> QED BY <1>3, <1>5 DEF x

(* tar writes a size's digits from the last to the first, and the kernel   *)
(* reads them back from the first: it has left[k] when k are to come.      *)
LEMMA OctalLaw ==
  ASSUME NEW size \in Nat
  PROVE  /\ OctalLeft(size)[0] = size
         /\ \A k \in 0 .. OctDigits - 1 : OctalLeft(size)[k + 1] = OctalLeft(size)[k] \div 8
         /\ \A k \in 0 .. OctDigits : OctalLeft(size)[k] \in 0 .. size
<1> DEFINE n == OctDigits
           Step == [k \in 1 .. n |-> [x \in Nat |-> x \div 8]]
           left == OctalLeft(size)
           IsLeft(f) == f = [k \in 0 .. n |-> IF k = 0 THEN size ELSE f[k-1] \div 8]
<1>1. n \in Nat
  BY VfsAssumption
<1>2. ASSUME NEW x \in Nat
      PROVE  x \div 8 \in Nat /\ x \div 8 <= x /\ x = (x \div 8) * 8 + (x % 8)
  BY SMT
<1>3. Step \in Steps(n, Nat) /\ \A k \in 1 .. n, x \in Nat : Step[k][x] = x \div 8
  <2> HIDE DEF n
  <2> QED BY <1>1, <1>2 DEF Steps
<1> HIDE DEF Step
<1>4. PICK g \in Runs(n, Nat) : IsRun(g, n, size, Step)
  BY <1>1, <1>3, StepsExist
<1>5. IsLeft(g)
  <2>1. ASSUME NEW k \in 0 .. n
        PROVE  g[k] = IF k = 0 THEN size ELSE g[k-1] \div 8
    <3>1. CASE k = 0
      BY <1>4, <3>1 DEF IsRun
    <3>2. CASE k # 0
      <4>1. k \in 1 .. n /\ k - 1 \in 0 .. n
        BY <1>1, <3>2
      <4>2. g[k] = Step[k][g[k-1]] /\ g[k-1] \in Nat
        BY <1>4, <4>1 DEF IsRun, Runs
      <4> QED BY <1>3, <3>2, <4>1, <4>2
    <3> QED BY <3>1, <3>2
  <2>2. g \in [0 .. n -> Nat]
    BY <1>4 DEF Runs
  <2> QED BY <2>1, <2>2
<1>6. left = CHOOSE f : IsLeft(f)
  BY DEF OctalLeft
<1>7. IsLeft(left)
  <2> HIDE DEF IsLeft
  <2> QED BY <1>5, <1>6
<1> HIDE DEF left, n
<1>8. left[0] = size
  BY <1>1, <1>7
<1>9. ASSUME NEW k \in 0 .. n - 1
      PROVE  left[k + 1] = left[k] \div 8
  <2>1. k + 1 \in 0 .. n /\ k + 1 # 0 /\ (k + 1) - 1 = k
    BY <1>1
  <2> QED BY <1>7, <2>1
<1>10. \A k \in 0 .. n : left[k] \in 0 .. size
  <2> DEFINE T == {k \in 0 .. n : left[k] \in 0 .. size}
  <2>1. 0 \in T
    BY <1>1, <1>8
  <2>2. ASSUME NEW k \in 0 .. n - 1, k \in T
        PROVE  k + 1 \in T
    <3>1. k + 1 \in 0 .. n /\ left[k] \in 0 .. size
      BY <1>1, <2>2
    <3>2. left[k] \in Nat /\ left[k + 1] = left[k] \div 8
      BY <1>9, <3>1
    <3>3. left[k + 1] \in Nat /\ left[k + 1] <= left[k]
      BY <1>2, <3>2
    <3>4. left[k + 1] \in 0 .. size
      BY <3>1, <3>3
    <3> QED BY <3>1, <3>4
  <2> HIDE DEF T
  <2>3. \A k \in 0 .. n : k \in T
    BY <1>1, <2>1, <2>2, UpTo
  <2> QED BY <2>3 DEF T
<1> QED BY <1>8, <1>9, <1>10 DEF left, n

(* The kernel reads the sizes that tar wrote. *)
LEMMA OctalRead ==
  ASSUME NEW size \in Nat, size < ADDRESSES, OctalLeft(size)[OctDigits] = 0
  PROVE  oct_to_dec(Octal(size)) = size
<1> DEFINE n == OctDigits
           oct == Octal(size)
           left == OctalLeft(size)
           Step == [i \in 1 .. n |-> [x \in Int |-> (x * 8 + oct[i]) % ADDRESSES]]
           IsDec(f) == f = [i \in 0 .. Len(oct) |->
                              IF i = 0 THEN 0 ELSE (f[i-1] * 8 + oct[i]) % ADDRESSES]
<1>1. n \in Nat /\ ADDRESSES \in Nat \ {0}
  BY VfsAssumption, HeapAssumption
<1>2. ASSUME NEW x \in Nat
      PROVE  x % 8 \in 0 .. 7 /\ x = (x \div 8) * 8 + (x % 8)
  BY SMT
<1>3. /\ left[0] = size /\ left[n] = 0
      /\ \A k \in 0 .. n - 1 : left[k + 1] = left[k] \div 8
      /\ \A k \in 0 .. n : left[k] \in 0 .. size
  BY OctalLaw
<1>4. oct = [i \in 1 .. n |-> left[n - i] % 8]
  BY DEF Octal
<1> HIDE DEF oct, left, n
<1>5. ASSUME NEW i \in 1 .. n
      PROVE  /\ n - i \in 0 .. n - 1 /\ n - i \in 0 .. n /\ (n - i) + 1 = n - (i - 1)
             /\ oct[i] = left[n - i] % 8 /\ oct[i] \in 0 .. 7
             /\ left[n - i] \in Nat /\ left[n - (i - 1)] \in Nat
             /\ left[n - (i - 1)] * 8 + oct[i] = left[n - i]
  <2>1. n - i \in 0 .. n - 1 /\ n - i \in 0 .. n /\ (n - i) + 1 = n - (i - 1) /\ n - (i - 1) \in 0 .. n
    BY <1>1
  <2>2. left[n - i] \in Nat /\ left[n - (i - 1)] \in Nat
    BY <1>3, <2>1
  <2>3. oct[i] = left[n - i] % 8
    BY <1>4
  <2>4. left[(n - i) + 1] = left[n - i] \div 8
    BY <1>3, <2>1
  <2>5. left[n - (i - 1)] = left[n - i] \div 8
    BY <2>1, <2>4
  <2>6. left[n - i] % 8 \in 0 .. 7 /\ left[n - i] = (left[n - i] \div 8) * 8 + (left[n - i] % 8)
    BY <1>2, <2>2
  <2> QED BY <2>1, <2>2, <2>3, <2>5, <2>6
<1>6. Len(oct) = n
  BY <1>1, <1>4
<1>7. ASSUME NEW i \in 1 .. n, NEW x \in Int
      PROVE  (x * 8 + oct[i]) % ADDRESSES \in Int
  BY <1>1, <1>5
<1>8. Step \in Steps(n, Int) /\ \A i \in 1 .. n, x \in Int : Step[i][x] = (x * 8 + oct[i]) % ADDRESSES
  BY <1>7 DEF Steps
<1> HIDE DEF Step
<1>9. PICK g \in Runs(n, Int) : IsRun(g, n, 0, Step)
  <2> DEFINE S == Int
             base == 0
  <2>1. base \in S /\ Step \in Steps(n, S)
    BY <1>8
  <2> HIDE DEF S, base
  <2>2. \E g \in Runs(n, S) : IsRun(g, n, base, Step)
    BY <1>1, <2>1, StepsExist
  <2> QED BY <2>2 DEF S, base
<1>10. IsDec(g)
  <2>1. ASSUME NEW i \in 0 .. n
        PROVE  g[i] = IF i = 0 THEN 0 ELSE (g[i-1] * 8 + oct[i]) % ADDRESSES
    <3>1. CASE i = 0
      BY <1>9, <3>1 DEF IsRun
    <3>2. CASE i # 0
      <4>1. i \in 1 .. n /\ i - 1 \in 0 .. n
        BY <1>1, <3>2
      <4>2. g[i] = Step[i][g[i-1]] /\ g[i-1] \in Int
        BY <1>9, <4>1 DEF IsRun, Runs
      <4> QED BY <1>8, <3>2, <4>1, <4>2
    <3> QED BY <3>1, <3>2
  <2>2. g \in [0 .. n -> Int]
    BY <1>9 DEF Runs
  <2> QED BY <1>6, <2>1, <2>2
<1> DEFINE dec == CHOOSE f : IsDec(f)
<1>11. IsDec(dec)
  <2> HIDE DEF IsDec
  <2> QED BY <1>10
<1>12. oct_to_dec(oct) = dec[n]
  <2>1. oct_to_dec(oct) = dec[Len(oct)]
    BY DEF oct_to_dec
  <2> QED BY <1>6, <2>1
<1> HIDE DEF dec
<1>13. dec[n] = left[n - n]
  <2> DEFINE T == {i \in 0 .. n : dec[i] = left[n - i]}
  <2>1. 0 \in T
    <3>1. 0 \in 0 .. n /\ n - 0 = n
      BY <1>1
    <3>2. dec[0] = 0
      BY <1>6, <1>11, <3>1
    <3> QED BY <1>3, <3>1, <3>2
  <2>2. ASSUME NEW i \in 0 .. n - 1, i \in T
        PROVE  i + 1 \in T
    <3>1. i + 1 \in 1 .. n /\ i + 1 \in 0 .. n /\ i + 1 # 0 /\ (i + 1) - 1 = i /\ dec[i] = left[n - i]
      BY <1>1, <2>2
    <3>2. dec[i + 1] = (dec[i] * 8 + oct[i + 1]) % ADDRESSES
      BY <1>6, <1>11, <3>1
    <3>3. left[n - i] * 8 + oct[i + 1] = left[n - (i + 1)]
      BY <1>5, <3>1
    <3>4. n - (i + 1) \in 0 .. n
      BY <1>1
    <3>5. left[n - (i + 1)] \in 0 .. ADDRESSES - 1
      BY <1>1, <1>3, <3>4
    <3>6. dec[i + 1] = left[n - (i + 1)] % ADDRESSES
      BY <3>1, <3>2, <3>3
    <3>7. left[n - (i + 1)] % ADDRESSES = left[n - (i + 1)]
      BY <1>1, <3>5
    <3> QED BY <3>1, <3>6, <3>7
  <2> HIDE DEF T
  <2>3. \A i \in 0 .. n : i \in T
    BY <1>1, <2>1, <2>2, UpTo
  <2>4. n \in T
    BY <1>1, <2>3
  <2> QED BY <2>4 DEF T
<1>14. n - n = 0
  BY <1>1
<1> QED BY <1>3, <1>12, <1>13, <1>14 DEF oct

-----------------------------------------------------------------------------
(* What the operations of the shell's cat return. *)

(* f_open returns the index of an entry, or 0. *)
LEMMA OpenIs ==
  ASSUME NEW fname, NEW n \in Nat, DOMAIN file_tab = 1 .. n
  PROVE  f_open(fname) \in 0 .. n
<1> DEFINE found == {i \in DOMAIN file_tab : file_tab[i].name # fname}
<1>1. found \subseteq 1 .. n /\ found \subseteq Nat
  OBVIOUS
<1>2. f_open(fname) = IF found = {} THEN 0 ELSE Min(found)
  BY DEF f_open
<1> HIDE DEF found
<1>3. CASE found = {}
  BY <1>2, <1>3
<1>4. CASE found # {}
  <2>1. Min(found) \in found
    BY <1>1, <1>4, MinLeast
  <2>2. f_open(fname) = Min(found)
    BY <1>2, <1>4
  <2>3. f_open(fname) \in 1 .. n
    BY <1>1, <2>1, <2>2
  <2> QED BY <2>3
<1> QED BY <1>3, <1>4

(* Memory m with n bytes from src copied to dst. *)
Copied(m, dst, src, n) ==
  [x \in Memory |-> IF x \in dst .. dst + n - 1 THEN m[src + (x - dst)] ELSE m[x]]

(* A read into a place below the file copies it. *)
LEMMA ReadIs ==
  ASSUME NEW m, m = [x \in Memory |-> m[x]], m = mem,
         NEW idx, NEW size \in Nat, file_tab[idx].size = size,
         NEW src \in Nat, file_tab[idx].location = src, src + size < ADDRESSES,
         NEW dst \in Nat, dst + size <= src
  PROVE  f_read(idx, dst, size) = Copied(m, dst, src, size)
<1> DEFINE C(n) == Copied(m, dst, src, n)
           IsAfter(f) ==
             f = [n \in 0 .. size |->
                    IF n = 0 THEN m
                    ELSE LET k == f[n-1]
                         IN  [k EXCEPT ![dst + n - 1] = k[src + n - 1]]]
           g == [n \in 0 .. size |-> C(n)]
<1>1. C(0) = m
  <2>1. \A x \in Memory : C(0)[x] = m[x]
    <3>1. 0 .. 0 - 1 = {} /\ dst .. dst + 0 - 1 = {}
      OBVIOUS
    <3> QED BY <3>1 DEF Copied
  <2>2. C(0) = [x \in Memory |-> C(0)[x]]
    BY DEF Copied
  <2> HIDE DEF C
  <2> QED BY <2>1, <2>2
<1>2. ASSUME NEW n \in 1 .. size
      PROVE  C(n) = [C(n-1) EXCEPT ![dst + n - 1] = C(n-1)[src + n - 1]]
  <2> DEFINE e == C(n-1)[src + n - 1]
             d == [C(n-1) EXCEPT ![dst + n - 1] = e]
  <2>1. /\ n - 1 \in Nat /\ src + n - 1 \in Memory /\ dst + n - 1 \in Memory
        /\ ~(src + n - 1 \in dst .. dst + (n-1) - 1)
    BY HeapAssumption, SMTT(20) DEF Memory
  <2>2. e = m[src + n - 1]
    BY <2>1 DEF Copied
  <2> HIDE DEF e
  <2>3. d = [x \in Memory |-> IF x = dst + n - 1 THEN e ELSE C(n-1)[x]]
    BY <2>1 DEF Copied
  <2>4. \A x \in Memory : C(n)[x] = IF x = dst + n - 1 THEN e ELSE C(n-1)[x]
    <3>1. ASSUME NEW x \in Memory
          PROVE  C(n)[x] = IF x = dst + n - 1 THEN e ELSE C(n-1)[x]
      <4>1. x \in Int /\ n \in Nat
        BY HeapAssumption DEF Memory
      <4>2. CASE x = dst + n - 1
        <5>1. x \in dst .. dst + n - 1 /\ src + (x - dst) = src + n - 1
          BY <4>1, <4>2
        <5>2. C(n)[x] = m[src + (x - dst)]
          BY <5>1 DEF Copied
        <5> QED BY <2>2, <4>2, <5>1, <5>2
      <4>3. CASE x # dst + n - 1
        <5>1. x \in dst .. dst + n - 1 <=> x \in dst .. dst + (n-1) - 1
          BY <4>1, <4>3
        <5>2. C(n)[x] = C(n-1)[x]
          BY <5>1 DEF Copied
        <5> QED BY <4>3, <5>2
      <4> QED BY <4>2, <4>3
    <3> QED BY <3>1
  <2>5. C(n) = [x \in Memory |-> C(n)[x]]
    BY DEF Copied
  <2> HIDE DEF C
  <2>6. C(n) = d
    BY <2>3, <2>4, <2>5
  <2> QED BY <2>6 DEF e
<1> HIDE DEF C
<1>3. IsAfter(g)
  <2>1. ASSUME NEW n \in 0 .. size
        PROVE  g[n] = IF n = 0 THEN m
                      ELSE LET k == g[n-1]
                           IN  [k EXCEPT ![dst + n - 1] = k[src + n - 1]]
    <3>1. CASE n = 0
      BY <1>1, <3>1
    <3>2. CASE n # 0
      <4>1. n \in 1 .. size /\ n - 1 \in 0 .. size
        BY <3>2
      <4>2. g[n] = C(n) /\ g[n-1] = C(n-1)
        BY <4>1
      <4> QED BY <1>2, <3>2, <4>1, <4>2
    <3> QED BY <3>1, <3>2
  <2> QED BY <2>1
<1> HIDE DEF g
<1> DEFINE f == CHOOSE f : IsAfter(f)
<1>4. IsAfter(f)
  <2> HIDE DEF IsAfter
  <2> QED BY <1>3
<1>5. f_read(idx, dst, size) = f[size]
  <2> DEFINE bytes == IF size > file_tab[idx].size THEN file_tab[idx].size ELSE size
  <2>1. bytes = size
    OBVIOUS
  <2> DEFINE h == CHOOSE h : h = [n \in 0 .. bytes |->
                    IF n = 0 THEN mem
                    ELSE LET k == h[n-1]
                         IN  [k EXCEPT ![dst + n - 1] = k[file_tab[idx].location + n - 1]]]
  <2>2. f_read(idx, dst, size) = h[bytes]
    BY DEF f_read
  <2> HIDE DEF bytes
  <2>3. h = f
    BY <2>1
  <2> QED BY <2>1, <2>2, <2>3
<1> HIDE DEF f
<1>6. \A n \in 0 .. size : f[n] = C(n)
  <2> DEFINE T == {n \in 0 .. size : f[n] = C(n)}
  <2>1. 0 \in T
    <3>1. f[0] = m
      BY <1>4
    <3> QED BY <1>1, <3>1
  <2>2. ASSUME NEW n \in 0 .. size - 1, n \in T
        PROVE  n + 1 \in T
    <3>1. n + 1 \in 1 .. size /\ n + 1 \in 0 .. size /\ n + 1 # 0 /\ (n + 1) - 1 = n
      OBVIOUS
    <3>2. f[n + 1] = [f[n] EXCEPT ![dst + (n + 1) - 1] = f[n][src + (n + 1) - 1]]
      BY <1>4, <3>1
    <3>3. C(n + 1) = [C(n) EXCEPT ![dst + (n + 1) - 1] = C(n)[src + (n + 1) - 1]]
      BY <1>2, <3>1
    <3> QED BY <2>2, <3>1, <3>2, <3>3
  <2> HIDE DEF T
  <2>3. \A n \in 0 .. size : n \in T
    BY <2>1, <2>2, UpTo
  <2> QED BY <2>3 DEF T
<1>7. size \in 0 .. size
  OBVIOUS
<1> QED BY <1>5, <1>6, <1>7 DEF C

(* Memory m has a text of size bytes at a, and then a zero. *)
TextAt(m, a, size) ==
  (\A k \in 0 .. size - 1 : m[a + k] # Zero) /\ m[a + size] = Zero

(* A C string ends at its first zero. *)
LEMMA CStringIs ==
  ASSUME NEW m, NEW a \in Nat, NEW size \in Nat, a + size < ADDRESSES, TextAt(m, a, size)
  PROVE  CString(m, a) = [k \in 1 .. size |-> m[a + k - 1]]
<1> DEFINE T == {x - a : x \in {x \in a .. ADDRESSES - 1 : m[x] = Zero}} \cup {ADDRESSES - a}
<1>1. T \subseteq Nat /\ size \in T
  BY HeapAssumption DEF TextAt
<1>2. ASSUME NEW y \in T
      PROVE  size <= y
  <2>1. CASE y = ADDRESSES - a
    <3>1. ADDRESSES \in Int /\ size <= ADDRESSES - a
      BY HeapAssumption
    <3> QED BY <2>1, <3>1
  <2>2. CASE y # ADDRESSES - a
    <3>1. PICK x \in a .. ADDRESSES - 1 : m[x] = Zero /\ y = x - a
      BY <2>2
    <3>2. x = a + y /\ y \in Nat
      BY <3>1, HeapAssumption
    <3>3. ~(y \in 0 .. size - 1)
      BY <3>1, <3>2 DEF TextAt
    <3> QED BY <3>2, <3>3
  <2> QED BY <2>1, <2>2
<1>3. CString(m, a) = [k \in 1 .. Min(T) |-> m[a + k - 1]]
  BY DEF CString
<1> HIDE DEF T
<1>4. Min(T) = size
  BY <1>1, <1>2, MinIs
<1> QED BY <1>3, <1>4

-----------------------------------------------------------------------------
(* The invariant of the file system. *)

(* The entry that the walk makes of file i. *)
Entry(a, i) == [name |-> a[i].name, size |-> a[i].size, type |-> a[i].type,
                location |-> HeaderAt(a)[i] + BLOCK]

Entries(a) == {Entry(a, i) : i \in 1 .. Len(a)}

(* The table holds the archive's first entries. *)
Walked ==
  /\ file_tab \in Seq(Entries(archive))
  /\ Len(file_tab) <= Len(archive) /\ Len(file_tab) <= MAX_FILES
  /\ \A i \in 1 .. Len(file_tab) : file_tab[i] = Entry(archive, i)

(* Between two steps of the walk, addr is the header of the next file, and *)
(* memory is what the boot loader left.                                    *)
AtNextHeader ==
  pc = "scan" => /\ mods
                 /\ addr = HeaderAt(archive)[Len(file_tab) + 1]
                 /\ mem = Image(archive)

WalkDone ==
  pc = "shell" => IF mods THEN Len(file_tab) \in {Len(archive), MAX_FILES}
                  ELSE file_tab = <<>>

VInv ==
  /\ IInv
  /\ archive \in Archives /\ mods \in BOOLEAN /\ pc \in {"scan", "shell"}
  /\ Walked
  /\ AtNextHeader
  /\ WalkDone
  /\ mem = [x \in Memory |-> mem[x]] \/ ~HeapBelowInitrd
  /\ IntactBelow
  /\ CatPrintsFile

(* What vfs_init stores of a file, and where that lies. *)
LEMMA EntryIs ==
  ASSUME NEW a \in Archives, NEW i \in 1 .. Len(a)
  PROVE  /\ Entry(a, i) \in Entries(a)
         /\ Entry(a, i).size = a[i].size
         /\ Entry(a, i).location = HeaderAt(a)[i] + BLOCK
         /\ a[i].size \in Nat /\ a[i].size + 1 \in Sizes /\ a[i].size < ADDRESSES
         /\ HeaderAt(a)[i] + BLOCK \in Nat
         /\ mod_start <= HeaderAt(a)[i] + BLOCK
         /\ HeaderAt(a)[i] + BLOCK + a[i].size < ADDRESSES
<1>1. /\ a[i].size \in Nat /\ a[i].size + 1 \in Sizes /\ BLOCK \in Nat \ {0}
      /\ i \in 1 .. Len(a) + 1 /\ Len(a) + 1 \in 1 .. Len(a) + 1 /\ i < Len(a) + 1
      /\ mod_start \in Nat
  BY ArchiveIs, VfsAssumption, HeapAssumption
<1>2. /\ HeaderAt(a)[i] \in Nat /\ mod_start <= HeaderAt(a)[i]
      /\ HeaderAt(a)[i] + BLOCK + a[i].size <= HeaderAt(a)[Len(a) + 1]
      /\ HeaderAt(a)[Len(a) + 1] \in Nat
  BY <1>1, HeaderLaw, HeadersInOrder
<1>3. HeaderAt(a)[Len(a) + 1] \in Memory
  BY EndByte
<1>4. HeaderAt(a)[Len(a) + 1] < ADDRESSES /\ ADDRESSES \in Nat
  BY <1>3, HeapAssumption DEF Memory
<1>5. a[i].size < ADDRESSES
  BY <1>1, HeapAssumption
<1>6. HeaderAt(a)[i] + BLOCK + a[i].size < ADDRESSES
  BY <1>1, <1>2, <1>4
<1>7. HeaderAt(a)[i] + BLOCK \in Nat /\ mod_start <= HeaderAt(a)[i] + BLOCK
  BY <1>1, <1>2
<1>8. Entry(a, i).size = a[i].size /\ Entry(a, i).location = HeaderAt(a)[i] + BLOCK
  BY DEF Entry
<1>9. Entry(a, i) \in Entries(a)
  BY DEF Entries
<1> QED BY <1>1, <1>5, <1>6, <1>7, <1>8, <1>9

(* What the table says of a file that was found. *)
LEMMA FoundIs ==
  ASSUME archive \in Archives, Walked, NEW fname
  PROVE  /\ Len(file_tab) \in Nat /\ DOMAIN file_tab = 1 .. Len(file_tab)
         /\ f_open(fname) \in 0 .. Len(file_tab)
         /\ f_open(fname) # 0 =>
              /\ f_open(fname) \in 1 .. Len(archive)
              /\ file_tab # <<>>
              /\ file_tab[f_open(fname)] = Entry(archive, f_open(fname))
              /\ FoundSize(f_open(fname)) = archive[f_open(fname)].size
         /\ FoundSize(f_open(fname)) \in Nat
         /\ FoundSize(f_open(fname)) # 0 => SpaceFor(FoundSize(f_open(fname))) \in Sizes
<1> DEFINE idx == f_open(fname)
<1>1. /\ Len(file_tab) \in Nat /\ DOMAIN file_tab = 1 .. Len(file_tab)
      /\ Len(file_tab) <= Len(archive) /\ Len(archive) \in Nat
  BY ArchiveIs DEF Walked
<1>2. idx \in 0 .. Len(file_tab)
  BY <1>1, OpenIs
<1> HIDE DEF idx
<1>3. CASE idx = 0
  BY <1>1, <1>2, <1>3 DEF FoundSize, idx
<1>4. CASE idx # 0
  <2>1. idx \in 1 .. Len(file_tab) /\ idx \in 1 .. Len(archive)
    BY <1>1, <1>2, <1>4
  <2>2. file_tab[idx] = Entry(archive, idx)
    BY <2>1 DEF Walked
  <2>3. archive[idx].size \in Nat /\ archive[idx].size + 1 \in Sizes /\ file_tab[idx].size = archive[idx].size
    BY <2>1, <2>2, EntryIs
  <2>4. FoundSize(idx) = archive[idx].size
    BY <1>4, <2>3 DEF FoundSize
  <2>5. file_tab # <<>>
    BY <1>1, <2>1
  <2> QED BY <1>1, <1>2, <1>4, <2>1, <2>2, <2>3, <2>4, <2>5 DEF SpaceFor, idx
<1> QED BY <1>3, <1>4

(* Every step of the system is a step of the heap, or none of its. *)
LEMMA HeapStep ==
  ASSUME archive \in Archives, Walked, [Next]_vars
  PROVE  [HeapNext]_heap
<1>1. CASE vfs_init_file \/ vfs_init_end
  BY <1>1 DEF vfs_init_file, vfs_init_end
<1>2. ASSUME NEW fname \in Wanted, cat_missing(fname)
      PROVE  [HeapNext]_heap
  BY <1>2 DEF cat_missing
<1>3. ASSUME NEW fname \in Wanted, cat(fname)
      PROVE  [HeapNext]_heap
  <2> DEFINE size == FoundSize(f_open(fname))
  <2>1. size > 0 /\ kmalloc(SpaceFor(size))
    BY <1>3 DEF cat
  <2>2. SpaceFor(size) \in Sizes
    <3>1. size \in Nat /\ (size # 0 => SpaceFor(size) \in Sizes)
      BY FoundIs
    <3> QED BY <2>1, <3>1
  <2> HIDE DEF size
  <2> QED BY <2>1, <2>2 DEF HeapNext
<1>4. CASE OtherCode
  <2>1. Allocs \subseteq Sizes
    BY VfsAssumption
  <2> QED BY <1>4, <2>1 DEF OtherCode, HeapNext
<1>5. CASE UNCHANGED vars
  BY <1>5 DEF vars
<1> QED BY <1>1, <1>2, <1>3, <1>4, <1>5 DEF Next

(* An allocation below the limit takes size bytes and does not wrap. *)
LEMMA BelowLimit ==
  ASSUME HeapTypeOK, NEW size \in Sizes, InLimit(size)
  PROVE  /\ Bump(free_memory_address, size) = free_memory_address + size
         /\ free_memory_address + size < ADDRESSES
         /\ free_memory_address \in Nat /\ size \in Nat \ {0}
<1>1. free_memory_address \in 0 .. ADDRESSES - 1 /\ HeapLimit < ADDRESSES /\ HeapLimit \in Nat
  BY HeapAssumption, VfsAssumption DEF HeapTypeOK, Memory
<1>2. free_memory_address + size < ADDRESSES /\ size \in Nat \ {0}
  BY <1>1, HeapAssumption DEF InLimit
<1> QED BY <1>1, <1>2, BumpFits

(* The walk begins at the first header, before an empty table. *)
LEMMA InitVInv == Init => VInv
<1> SUFFICES ASSUME Init PROVE VInv
  OBVIOUS
<1>1. archive \in Archives /\ mods \in BOOLEAN /\ IInv
  BY InitIInv DEF Init
<1>2. Len(archive) \in Nat /\ MAX_FILES \in Nat
  BY <1>1, ArchiveIs, VfsAssumption
<1>3. file_tab = <<>> /\ file_tab \in Seq(Entries(archive)) /\ Len(file_tab) = 0
  BY EmptySeq DEF Init
<1>4. Walked
  BY <1>2, <1>3 DEF Walked
<1>5. pc \in {"scan", "shell"} /\ (pc = "scan" <=> mods) /\ printed.idx = 0 /\ addr = mod_start
      /\ mem = IF mods THEN Image(archive) ELSE [x \in Memory |-> Other]
  BY <1>1 DEF Init
<1>6. AtNextHeader
  <2>1. HeaderAt(archive)[1] = mod_start
    BY <1>1, HeaderLaw
  <2>2. Len(file_tab) + 1 = 1
    BY <1>3
  <2> QED BY <1>5, <2>1, <2>2 DEF AtNextHeader
<1>7. WalkDone
  BY <1>3, <1>5 DEF WalkDone
<1>8. mem = [x \in Memory |-> mem[x]]
  <2>1. Image(archive) = [x \in Memory |-> Image(archive)[x]]
    BY DEF Image
  <2> QED BY <1>1, <1>5, <2>1
<1>9. IntactBelow
  BY <1>5 DEF IntactBelow
<1> QED BY <1>1, <1>4, <1>5, <1>6, <1>7, <1>8, <1>9 DEF VInv, CatPrintsFile

(* A round of vfs_init stores the next file and lands on the header behind *)
(* it.                                                                     *)
LEMMA ScanStep ==
  ASSUME VInv, IInv', vfs_init_file
  PROVE  VInv'
<1> DEFINE n == Len(file_tab)
           a == archive
           entry == a[n + 1]
<1>1. /\ a \in Archives /\ mods \in BOOLEAN /\ pc = "scan" /\ mods
      /\ file_tab \in Seq(Entries(a)) /\ n <= Len(a) /\ n <= MAX_FILES
      /\ \A i \in 1 .. n : file_tab[i] = Entry(a, i)
      /\ addr = HeaderAt(a)[n + 1] /\ mem = Image(a)
  BY DEF VInv, Walked, AtNextHeader, vfs_init_file
<1>2. /\ n \in Nat /\ Len(a) \in Nat /\ MAX_FILES \in Nat /\ ADDRESSES \in Nat \ {0} /\ BLOCK \in Nat
  BY <1>1, ArchiveIs, VfsAssumption, HeapAssumption
<1>3. n < MAX_FILES /\ mem[addr] # Zero
  BY DEF vfs_init_file, MoreFiles
<1>4. n + 1 \in 1 .. Len(a)
  <2>1. n # Len(a)
    BY <1>1, <1>3, EndByte
  <2> QED BY <1>1, <1>2, <2>1
<1>5. mem[addr] = <<"header", n + 1>> /\ HeaderAt(a)[n + 1] \in Memory
  BY <1>1, <1>4, HeaderByte
<1>6. mem[addr][2] = n + 1
  BY <1>5
<1>7. /\ entry.size \in Nat /\ entry.size < ADDRESSES /\ OctalLeft(entry.size)[OctDigits] = 0
      /\ Entry(a, n + 1) \in Entries(a)
  BY <1>1, <1>4, ArchiveIs, EntryIs
<1>8. oct_to_dec(Octal(entry.size)) = entry.size
  BY <1>7, OctalRead
<1>9. /\ file_tab' = Append(file_tab, [name |-> entry.name, size |-> entry.size,
                                       type |-> entry.type, location |-> addr + BLOCK])
      /\ addr' = (addr + BLOCK + RoundUp(entry.size)) % ADDRESSES
  BY <1>6, <1>8 DEF vfs_init_file
<1>10. file_tab' = Append(file_tab, Entry(a, n + 1))
  BY <1>1, <1>9 DEF Entry
<1>11. UNCHANGED <<heap, mem, archive, mods, pc, printed>>
  BY DEF vfs_init_file
<1>12. addr' = HeaderAt(a)[(n + 1) + 1]
  <2>1. HeaderAt(a)[(n + 1) + 1] = HeaderAt(a)[n + 1] + BLOCK + Padded(entry.size)
    BY <1>1, <1>4, HeaderLaw DEF PastFile
  <2>2. Padded(entry.size) = RoundUp(entry.size)
    BY <1>7, PaddedIs
  <2>3. (n + 1) + 1 \in 1 .. Len(a) + 1
    BY <1>2, <1>4
  <2>4. /\ HeaderAt(a)[(n + 1) + 1] \in Nat /\ EndOf(a) \in Memory
        /\ HeaderAt(a)[(n + 1) + 1] + 2 * BLOCK <= EndOf(a)
    BY <1>1, <2>3, HeaderLaw, HeadersInOrder, ArchiveIs
  <2>5. HeaderAt(a)[(n + 1) + 1] \in 0 .. ADDRESSES - 1
    BY <1>2, <2>4 DEF Memory
  <2>6. HeaderAt(a)[(n + 1) + 1] % ADDRESSES = HeaderAt(a)[(n + 1) + 1]
    BY <1>2, <2>5
  <2> QED BY <1>1, <1>9, <2>1, <2>2, <2>6
<1>13. Len(file_tab') = n + 1 /\ Walked'
  <2> DEFINE e == Entry(a, n + 1)
             new == Append(file_tab, e)
  <2> HIDE DEF e
  <2>1. /\ new \in Seq(Entries(a)) /\ Len(new) = n + 1
        /\ \A i \in 1 .. n : new[i] = file_tab[i]
        /\ new[n + 1] = e
    <3>1. e \in Entries(a) /\ file_tab \in Seq(Entries(a))
      BY <1>1, <1>7 DEF e
    <3> QED BY <3>1, AppendProperties
  <2> HIDE DEF new
  <2>2. \A i \in 1 .. n + 1 : new[i] = Entry(a, i)
    <3>1. ASSUME NEW i \in 1 .. n + 1
          PROVE  new[i] = Entry(a, i)
      <4>1. CASE i = n + 1
        BY <2>1, <4>1 DEF e
      <4>2. CASE i # n + 1
        BY <1>1, <1>2, <2>1, <4>2
      <4> QED BY <4>1, <4>2
    <3> QED BY <3>1
  <2>3. file_tab' = new /\ archive' = a
    BY <1>10, <1>11 DEF new, e
  <2>4. n + 1 <= Len(a) /\ n + 1 <= MAX_FILES
    BY <1>2, <1>3, <1>4
  <2> QED BY <2>1, <2>2, <2>3, <2>4 DEF Walked
<1>14. AtNextHeader'
  BY <1>1, <1>11, <1>12, <1>13 DEF AtNextHeader
<1>15. WalkDone'
  BY <1>1, <1>11 DEF WalkDone
<1>16. (mem = [x \in Memory |-> mem[x]] \/ ~HeapBelowInitrd)' /\ IntactBelow' /\ CatPrintsFile'
  BY <1>11 DEF VInv, HeapBelowInitrd, IntactBelow, CatPrintsFile, FileData, heap, initrd_end
<1> QED BY <1>1, <1>11, <1>13, <1>14, <1>15, <1>16 DEF VInv

(* The walk ends at the end of the archive, or with the table full. *)
LEMMA ScanEnds ==
  ASSUME VInv, IInv', vfs_init_end
  PROVE  VInv'
<1> DEFINE n == Len(file_tab)
           a == archive
<1>1. /\ a \in Archives /\ mods \in BOOLEAN /\ pc = "scan" /\ mods
      /\ file_tab \in Seq(Entries(a)) /\ n <= Len(a) /\ n <= MAX_FILES
      /\ addr = HeaderAt(a)[n + 1] /\ mem = Image(a)
  BY DEF VInv, Walked, AtNextHeader, vfs_init_end
<1>2. /\ n \in Nat /\ Len(a) \in Nat /\ MAX_FILES \in Nat /\ BLOCK \in Nat \ {0}
  BY <1>1, ArchiveIs, VfsAssumption, HeapAssumption
<1>3. n + 1 \in 1 .. Len(a) + 1
  BY <1>1, <1>2
<1>4. addr < initrd_end
  <2>1. HeaderAt(a)[n + 1] \in Nat /\ HeaderAt(a)[n + 1] + 2 * BLOCK <= EndOf(a) /\ EndOf(a) \in Memory
    BY <1>1, <1>3, HeaderLaw, HeadersInOrder, ArchiveIs
  <2>2. EndOf(a) \in Nat
    BY <2>1, HeapAssumption DEF Memory
  <2> QED BY <1>1, <1>2, <2>1, <2>2 DEF initrd_end
<1>5. ~(n < MAX_FILES) \/ mem[addr] = Zero
  BY <1>4 DEF vfs_init_end, MoreFiles
<1>6. n \in {Len(a), MAX_FILES}
  <2>1. CASE ~(n < MAX_FILES)
    BY <1>1, <1>2, <2>1
  <2>2. CASE mem[addr] = Zero
    <3>1. ASSUME n # Len(a)
          PROVE  FALSE
      <4>1. n + 1 \in 1 .. Len(a)
        BY <1>1, <1>2, <3>1
      <4>2. mem[addr] = <<"header", n + 1>>
        BY <1>1, <4>1, HeaderByte
      <4>3. <<"header", n + 1>> # Zero
        BY DEF Zero
      <4> QED BY <2>2, <4>2, <4>3
    <3> QED BY <3>1
  <2> QED BY <1>5, <2>1, <2>2
<1>7. UNCHANGED <<heap, mem, archive, mods, file_tab, addr, printed>> /\ pc' = "shell"
  BY DEF vfs_init_end
<1>8. Walked' /\ AtNextHeader' /\ WalkDone'
  BY <1>1, <1>6, <1>7 DEF VInv, Walked, AtNextHeader, WalkDone
<1>9. (mem = [x \in Memory |-> mem[x]] \/ ~HeapBelowInitrd)' /\ IntactBelow' /\ CatPrintsFile'
  BY <1>7 DEF VInv, HeapBelowInitrd, IntactBelow, CatPrintsFile, FileData, heap, initrd_end
<1> QED BY <1>1, <1>7, <1>8, <1>9 DEF VInv

(* Memory with file idx copied to buffer, as cat does. *)
WithCopy(idx, buffer) ==
  LET size == archive[idx].size
  IN  [f_read(idx, buffer, size) EXCEPT ![buffer + NulAt(size)] = Zero]

(* A buffer below the archive takes a copy of the file and its terminator, *)
(* and no byte of the archive is written.                                  *)
LEMMA CopyBelow ==
  ASSUME VInv, mods, HeapBelowInitrd,
         NEW idx \in 1 .. Len(archive), file_tab[idx] = Entry(archive, idx),
         NEW buffer \in Nat, buffer + archive[idx].size + 1 <= mod_start
  PROVE  /\ WithCopy(idx, buffer) = [x \in Memory |-> WithCopy(idx, buffer)[x]]
         /\ \A x \in mod_start .. initrd_end - 1 : WithCopy(idx, buffer)[x] = mem[x]
         /\ CString(WithCopy(idx, buffer), buffer) = FileData(idx)
<1> DEFINE a == archive
           m == WithCopy(idx, buffer)
           size == a[idx].size
           src == HeaderAt(a)[idx] + BLOCK
           c == Copied(mem, buffer, src, size)
<1>1. /\ size \in Nat /\ src \in Nat /\ src + size < ADDRESSES /\ mod_start <= src
      /\ file_tab[idx].size = size /\ file_tab[idx].location = src
      /\ mod_start \in Nat /\ mod_start < ADDRESSES /\ ADDRESSES \in Nat /\ a \in Archives
  <2>1. a \in Archives /\ mod_start \in Nat /\ mod_start < ADDRESSES /\ ADDRESSES \in Nat
    BY VfsAssumption, HeapAssumption DEF VInv
  <2> QED BY <2>1, EntryIs
<1>2. buffer + size + 1 <= mod_start /\ buffer + size < ADDRESSES /\ buffer + size <= src
  BY <1>1
<1>3. mem = [x \in Memory |-> mem[x]]
  BY DEF VInv
<1>4. EndOf(a) \in Nat /\ EndOf(a) < ADDRESSES
  BY <1>1, ArchiveIs DEF Memory
<1>5. \A k \in 0 .. size - 1 : mem[src + k] = <<"data", idx, k>>
  <2>1. ASSUME NEW k \in 0 .. size - 1
        PROVE  mem[src + k] = <<"data", idx, k>>
    <3>1. /\ src + k \in mod_start .. EndOf(a) - 1
          /\ Image(a)[src + k] = <<"data", idx, k>>
      BY <1>1, DataByte
    <3>2. mem[src + k] = Image(a)[src + k]
      BY <3>1 DEF VInv, IntactBelow, initrd_end
    <3> QED BY <3>1, <3>2
  <2> QED BY <2>1
<1> HIDE DEF src, size, a
<1>6. f_read(idx, buffer, size) = c
  <2> DEFINE M == mem
  <2>1. M = [x \in Memory |-> M[x]] /\ M = mem /\ buffer + size <= src
    BY <1>3, <1>2
  <2> HIDE DEF M
  <2>2. f_read(idx, buffer, size) = Copied(M, buffer, src, size)
    BY <1>1, <2>1, ReadIs
  <2> QED BY <2>1, <2>2
<1>7. m = [c EXCEPT ![buffer + size] = Zero]
  BY <1>6 DEF NulAt, WithCopy, size, a
<1> HIDE DEF m
<1>8. \A x \in Memory : m[x] = IF x = buffer + size THEN Zero
                               ELSE IF x \in buffer .. buffer + size - 1 THEN mem[src + (x - buffer)]
                               ELSE mem[x]
  BY <1>7 DEF Copied
<1>9. m = [x \in Memory |-> m[x]]
  BY <1>7 DEF Copied
<1>10. \A x \in mod_start .. EndOf(a) - 1 : m[x] = mem[x]
  <2>1. ASSUME NEW x \in mod_start .. EndOf(a) - 1
        PROVE  m[x] = mem[x]
    <3>1. x \in Memory
      BY <1>1, <1>4 DEF Memory
    <3>2. x # buffer + size /\ ~(x \in buffer .. buffer + size - 1)
      BY <1>1, <1>4, <1>2
    <3> QED BY <1>8, <3>1, <3>2
  <2> QED BY <2>1
<1>11. \A k \in 0 .. size - 1 : m[buffer + k] = <<"data", idx, k>>
  <2>1. ASSUME NEW k \in 0 .. size - 1
        PROVE  m[buffer + k] = <<"data", idx, k>>
    <3>1. /\ buffer + k \in Memory /\ buffer + k # buffer + size
          /\ buffer + k \in buffer .. buffer + size - 1 /\ (buffer + k) - buffer = k
      BY <1>1, <1>2 DEF Memory
    <3>2. m[buffer + k] = mem[src + k]
      BY <1>8, <3>1
    <3> QED BY <1>5, <3>2
  <2> QED BY <2>1
<1>12. m[buffer + size] = Zero
  <2>1. buffer + size \in Memory
    BY <1>1, <1>2 DEF Memory
  <2> QED BY <1>8, <2>1
<1>13. CString(m, buffer) = [k \in 1 .. size |-> m[buffer + k - 1]]
  <2>1. TextAt(m, buffer, size)
    <3>1. \A k \in 0 .. size - 1 : <<"data", idx, k>> # Zero
      BY DEF Zero
    <3> QED BY <1>11, <1>12, <3>1 DEF TextAt
  <2> QED BY <1>1, <1>2, <2>1, CStringIs
<1>14. \A k \in 1 .. size : m[buffer + k - 1] = <<"data", idx, k - 1>>
  <2>1. ASSUME NEW k \in 1 .. size
        PROVE  m[buffer + k - 1] = <<"data", idx, k - 1>>
    <3>1. k - 1 \in 0 .. size - 1 /\ buffer + (k - 1) = buffer + k - 1
      BY <1>1
    <3> QED BY <1>11, <3>1
  <2> QED BY <2>1
<1>15. CString(m, buffer) = FileData(idx)
  BY <1>13, <1>14 DEF FileData, size, a
<1> QED BY <1>9, <1>10, <1>15 DEF initrd_end, m, a

(* cat reads the file that f_open returned and writes to its own buffer. *)
LEMMA CatStep ==
  ASSUME VInv, IInv', NEW fname, cat(fname)
  PROVE  VInv'
<1> DEFINE idx == f_open(fname)
           size == FoundSize(idx)
           buffer == free_memory_address
<1>1. /\ archive \in Archives /\ mods \in BOOLEAN /\ Walked /\ HeapTypeOK
  BY DEF VInv, IInv
<1>2. /\ Len(file_tab) \in Nat /\ size \in Nat /\ (size # 0 => SpaceFor(size) \in Sizes)
      /\ idx # 0 => /\ idx \in 1 .. Len(archive) /\ file_tab # <<>>
                    /\ file_tab[idx] = Entry(archive, idx) /\ size = archive[idx].size
  BY <1>1, FoundIs
<1>3. /\ pc = "shell" /\ size > 0 /\ InLimit(size + 1) /\ kmalloc(SpaceFor(size))
      /\ mem' = [f_read(idx, buffer, size) EXCEPT ![buffer + NulAt(size)] = Zero]
      /\ printed' = [name |-> fname, idx |-> idx, text |-> CString(mem', buffer)]
      /\ UNCHANGED <<archive, mods, file_tab, addr, pc>>
  BY DEF cat
<1>4. idx # 0
  BY <1>3 DEF FoundSize
<1> HIDE DEF idx, size
<1>5. mods
  BY <1>1, <1>2, <1>3, <1>4 DEF VInv, WalkDone
<1>6. buffer' = buffer + (size + 1) /\ buffer \in Nat
  <2>1. SpaceFor(size) = size + 1 /\ size + 1 \in Sizes
    BY <1>2, <1>3 DEF SpaceFor
  <2> QED BY <1>1, <1>3, <2>1, BelowLimit DEF kmalloc
<1>7. Walked' /\ AtNextHeader' /\ WalkDone'
  BY <1>1, <1>3 DEF VInv, Walked, AtNextHeader, WalkDone
<1>8. (mem = [x \in Memory |-> mem[x]] \/ ~HeapBelowInitrd)' /\ IntactBelow' /\ CatPrintsFile'
  <2>1. CASE ~HeapBelowInitrd'
    BY <2>1 DEF IntactBelow, CatPrintsFile
  <2>2. CASE HeapBelowInitrd'
    <3>1. buffer + size + 1 <= mod_start /\ buffer <= mod_start
      BY <1>2, <1>6, <2>2, VfsAssumption, HeapAssumption DEF HeapBelowInitrd
    <3>2. HeapBelowInitrd
      BY <3>1 DEF HeapBelowInitrd
    <3>3. mem' = WithCopy(idx, buffer)
      BY <1>2, <1>3, <1>4 DEF WithCopy
    <3>4. /\ mem' = [x \in Memory |-> mem'[x]]
          /\ \A x \in mod_start .. initrd_end - 1 : mem'[x] = mem[x]
          /\ CString(mem', buffer) = FileData(idx)
      BY <1>2, <1>4, <1>5, <1>6, <3>1, <3>2, <3>3, CopyBelow
    <3>5. IntactBelow'
      BY <1>3, <1>5, <3>2, <3>4 DEF VInv, IntactBelow, initrd_end
    <3>6. CatPrintsFile'
      <4>1. printed'.idx = idx /\ printed'.text = FileData(idx)
        BY <1>3, <3>4
      <4>2. CatPrintsFile' <=> (HeapBelowInitrd' /\ printed'.idx # 0 =>
                                 printed'.text = FileData(printed'.idx))
        BY <1>3 DEF CatPrintsFile, FileData
      <4> QED BY <4>1, <4>2
    <3> QED BY <3>4, <3>5, <3>6
  <2> QED BY <2>1, <2>2
<1> QED BY <1>1, <1>3, <1>7, <1>8 DEF VInv

(* Nothing but the heap changes. *)
LEMMA OtherStep ==
  ASSUME VInv, IInv', OtherCode
  PROVE  VInv'
<1>1. UNCHANGED <<mem, archive, mods, file_tab, addr, pc, printed>>
  BY DEF OtherCode
<1>2. HeapTypeOK /\ IInv
  BY DEF VInv, IInv
<1>3. free_memory_address <= free_memory_address'
  <2>1. ASSUME NEW size \in Allocs, InLimit(size), kmalloc(size)
        PROVE  free_memory_address <= free_memory_address'
    <3>1. size \in Sizes
      BY VfsAssumption
    <3> QED BY <1>2, <2>1, <3>1, BelowLimit DEF kmalloc
  <2>2. CASE InLimit(TestSize1 + TestSize2) /\ test_mem
    <3> DEFINE f == free_memory_address
    <3>1. /\ TestSize1 \in Nat /\ TestSize2 \in Nat /\ f \in Nat /\ HeapLimit \in Nat
          /\ HeapLimit < ADDRESSES /\ ADDRESSES \in Nat
      BY <1>2, HeapAssumption, VfsAssumption DEF HeapTypeOK, Memory
    <3>2. f + TestSize1 + TestSize2 < ADDRESSES
      BY <2>2, <3>1 DEF InLimit
    <3>3. Bump(f, TestSize1) = f + TestSize1
      BY <3>1, <3>2 DEF Bump
    <3>4. f' = Bump(f + TestSize1, TestSize2)
      BY <2>2, <3>3 DEF test_mem
    <3> HIDE DEF f
    <3>5. f' = f + TestSize1 + TestSize2
      BY <3>1, <3>2, <3>4 DEF Bump
    <3>6. f <= f'
      BY <3>1, <3>5
    <3> QED BY <3>6 DEF f
  <2> QED BY <2>1, <2>2 DEF OtherCode
<1>4. HeapBelowInitrd' => HeapBelowInitrd
  <2>1. free_memory_address \in Nat /\ free_memory_address' \in Nat /\ mod_start \in Nat
    BY <1>2, HeapAssumption, VfsAssumption DEF IInv, HeapTypeOK
  <2> QED BY <1>3, <2>1 DEF HeapBelowInitrd
<1>5. Walked' /\ AtNextHeader' /\ WalkDone'
  BY <1>1 DEF VInv, Walked, AtNextHeader, WalkDone
<1>6. (mem = [x \in Memory |-> mem[x]] \/ ~HeapBelowInitrd)' /\ IntactBelow' /\ CatPrintsFile'
  BY <1>1, <1>4 DEF VInv, IntactBelow, CatPrintsFile, FileData, initrd_end
<1> QED BY <1>1, <1>5, <1>6 DEF VInv

(* cat of a file that is empty, or that f_open does not find, changes no   *)
(* memory.                                                                 *)
LEMMA MissingStep ==
  ASSUME VInv, IInv', NEW fname, cat_missing(fname)
  PROVE  VInv'
<1>1. /\ FoundSize(f_open(fname)) = 0
      /\ printed' = [name |-> fname, idx |-> f_open(fname), text |-> <<>>]
      /\ UNCHANGED <<heap, mem, archive, mods, file_tab, addr, pc>>
  BY DEF cat_missing
<1>2. archive \in Archives /\ Walked
  BY DEF VInv
<1>3. printed'.idx = f_open(fname) /\ printed'.text = <<>>
  BY <1>1
<1>4. f_open(fname) # 0 => FileData(f_open(fname)) = <<>>
  <2>1. f_open(fname) # 0 => archive[f_open(fname)].size = 0
    BY <1>1, <1>2, FoundIs
  <2>2. 1 .. 0 = {}
    OBVIOUS
  <2> QED BY <2>1, <2>2 DEF FileData
<1>5. CatPrintsFile'
  BY <1>1, <1>3, <1>4 DEF CatPrintsFile, FileData
<1>6. Walked' /\ AtNextHeader' /\ WalkDone'
  BY <1>1 DEF VInv, Walked, AtNextHeader, WalkDone
<1>7. (mem = [x \in Memory |-> mem[x]] \/ ~HeapBelowInitrd)' /\ IntactBelow'
  BY <1>1 DEF VInv, IntactBelow, HeapBelowInitrd, heap, initrd_end
<1> QED BY <1>1, <1>5, <1>6, <1>7 DEF VInv

(* Every step keeps the invariant. *)
LEMMA NextVInv == VInv /\ [Next]_vars => VInv'
<1> SUFFICES ASSUME VInv, [Next]_vars PROVE VInv'
  OBVIOUS
<1>1. IInv'
  <2>1. [HeapNext]_heap /\ IInv
    BY HeapStep DEF VInv
  <2> QED BY <2>1, NextIInv
<1>2. CASE vfs_init_file
  BY <1>1, <1>2, ScanStep
<1>3. CASE vfs_init_end
  BY <1>1, <1>3, ScanEnds
<1>4. ASSUME NEW fname \in Wanted, cat_missing(fname)
      PROVE  VInv'
  BY <1>1, <1>4, MissingStep
<1>5. ASSUME NEW fname \in Wanted, cat(fname)
      PROVE  VInv'
  BY <1>1, <1>5, CatStep
<1>6. CASE OtherCode
  BY <1>1, <1>6, OtherStep
<1>7. CASE UNCHANGED vars
  BY <1>1, <1>7 DEF vars, VInv, Walked, AtNextHeader, WalkDone, HeapBelowInitrd,
                    IntactBelow, CatPrintsFile, FileData, heap, initrd_end
<1> QED BY <1>2, <1>3, <1>4, <1>5, <1>6, <1>7 DEF Next

(* The invariant holds in every state, for every archive whose sizes fit   *)
(* their headers and that ends in memory, and every limit on the heap.     *)
THEOREM VfsInvariance == Spec => []VInv
  BY InitVInv, NextVInv, PTL DEF Spec

(* The file system and the shell use the heap as Heap describes, with no   *)
(* other step on its variables: what is proved of Heap holds here too.     *)
THEOREM VfsUsesHeap == Spec => HeapSpec
<1>1. Init => HeapInit
  BY DEF Init
<1>2. VInv /\ [Next]_vars => [HeapNext]_heap
  BY HeapStep DEF VInv
<1> QED BY <1>1, <1>2, VfsInvariance, PTL DEF Spec, HeapSpec

(* The table never overflows, and its sizes and locations are addresses.   *)
THEOREM VfsTypeCorrect == Spec => []TypeOK
<1>1. VInv => TypeOK
  <2> SUFFICES ASSUME VInv PROVE TypeOK
    OBVIOUS
  <2>1. /\ archive \in Archives /\ Len(file_tab) <= MAX_FILES /\ Len(file_tab) <= Len(archive)
        /\ file_tab \in Seq(Entries(archive))
        /\ HeapTypeOK /\ pc \in {"scan", "shell"}
        /\ \A i \in 1 .. Len(file_tab) : file_tab[i] = Entry(archive, i)
    BY DEF VInv, IInv, Walked
  <2>2. Len(file_tab) \in Nat /\ DOMAIN file_tab = 1 .. Len(file_tab) /\ Len(archive) \in Nat
    BY <2>1, ArchiveIs
  <2>3. ASSUME NEW i \in DOMAIN file_tab
        PROVE  file_tab[i].location \in Memory /\ file_tab[i].size \in Memory
    <3>1. i \in 1 .. Len(archive) /\ file_tab[i] = Entry(archive, i)
      BY <2>1, <2>2
    <3>2. /\ file_tab[i].size \in Nat /\ file_tab[i].size < ADDRESSES
          /\ file_tab[i].location \in Nat
          /\ file_tab[i].location + file_tab[i].size < ADDRESSES
      BY <2>1, <3>1, EntryIs
    <3> QED BY <3>2, HeapAssumption DEF Memory
  <2> QED BY <2>1, <2>3 DEF TypeOK
<1> QED BY <1>1, VfsInvariance, PTL

(* The walk finds every file of the archive, in order and with its size    *)
(* and place, as far as the table goes: rounding up lands on the headers,  *)
(* and the octal digits give back the sizes that tar wrote.                *)
THEOREM ScanFindsAll == Spec => []ScanComplete
<1>1. VInv => ScanComplete
  <2> SUFFICES ASSUME VInv, pc = "shell", mods
               PROVE  /\ Len(file_tab) = Min({Len(archive), MAX_FILES})
                      /\ \A i \in DOMAIN file_tab :
                           /\ file_tab[i].name = archive[i].name
                           /\ file_tab[i].size = archive[i].size
                           /\ file_tab[i].type = archive[i].type
                           /\ file_tab[i].location = HeaderAt(archive)[i] + BLOCK
    BY DEF ScanComplete
  <2> DEFINE n == Len(file_tab)
             T == {Len(archive), MAX_FILES}
  <2>1. /\ archive \in Archives /\ n \in T /\ n <= Len(archive) /\ n <= MAX_FILES
        /\ file_tab \in Seq(Entries(archive))
        /\ \A i \in 1 .. n : file_tab[i] = Entry(archive, i)
    BY DEF VInv, Walked, WalkDone
  <2>2. Len(archive) \in Nat /\ MAX_FILES \in Nat
    BY <2>1, ArchiveIs, VfsAssumption
  <2>3. Min(T) = n
    <3>1. T \subseteq Nat /\ \A y \in T : n <= y
      BY <2>1, <2>2
    <3> HIDE DEF T
    <3> QED BY <2>1, <3>1, MinIs
  <2>4. DOMAIN file_tab = 1 .. n
    BY <2>1
  <2>5. ASSUME NEW i \in DOMAIN file_tab
        PROVE  /\ file_tab[i].name = archive[i].name
               /\ file_tab[i].size = archive[i].size
               /\ file_tab[i].type = archive[i].type
               /\ file_tab[i].location = HeaderAt(archive)[i] + BLOCK
    <3>1. file_tab[i] = Entry(archive, i)
      BY <2>1, <2>4
    <3> QED BY <3>1 DEF Entry
  <2> QED BY <2>3, <2>5
<1> QED BY <1>1, VfsInvariance, PTL

(* No buffer touches the archive while the heap is below it.               *)
THEOREM ArchiveIntact == Spec => []IntactBelow
<1>1. VInv => IntactBelow
  BY DEF VInv
<1> QED BY <1>1, VfsInvariance, PTL

(* So far, cat prints the whole of the file that f_open found, no more and *)
(* no less.                                                                *)
THEOREM CatPrintsIt == Spec => []CatPrintsFile
<1>1. VInv => CatPrintsFile
  BY DEF VInv
<1> QED BY <1>1, VfsInvariance, PTL
=============================================================================
