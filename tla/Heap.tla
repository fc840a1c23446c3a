-------------------------------- MODULE Heap --------------------------------
(***************************************************************************)
(* The kernel heap: one address, bumped by kmalloc and never moved back.   *)
(* Addresses are uint32_t and wrap at ADDRESSES; nothing tests for it.     *)
(***************************************************************************)
EXTENDS Integers, Sequences

CONSTANTS
  ADDRESSES,             (* size of the address space, 2^32                *)
  KernelEnd,             (* the linker's symbol end                        *)
  Sizes,                 (* sizes that kmalloc is called with              *)
  TestSize1, TestSize2   (* the two sizes of test_mem                      *)

ASSUME HeapAssumption ==
  /\ ADDRESSES \in Nat \ {0}
  /\ KernelEnd \in 0 .. ADDRESSES - 1
  /\ Sizes \subseteq 1 .. ADDRESSES - 1
  /\ TestSize1 \in Sizes /\ TestSize2 \in Sizes

VARIABLES
  free_memory_address,
  blocks,      (* history: what kmalloc returned, with the size asked for  *)
  total        (* history: bytes asked for                                 *)

heap == <<free_memory_address, blocks, total>>

(* mem_init, and nothing allocated. *)
HeapInit ==
  /\ free_memory_address = KernelEnd
  /\ blocks = <<>> /\ total = 0

(* Slip: the last byte of a block is handed out again.                     *)
BumpShort(address, size) == (address + size - 1) % ADDRESSES

Bump(address, size) == (address + size) % ADDRESSES

Block(address, size) == [addr |-> address, size |-> size]

kmalloc(size) ==
  /\ free_memory_address' = Bump(free_memory_address, size)
  /\ blocks' = Append(blocks, Block(free_memory_address, size))
  /\ total' = total + size

(* Two blocks.  What it prints of their addresses is left out: of two      *)
(* blocks in order the second has the higher one.                          *)
test_mem ==
  LET addr1 == free_memory_address
      addr2 == Bump(addr1, TestSize1)
  IN  /\ free_memory_address' = Bump(addr2, TestSize2)
      /\ blocks' = Append(Append(blocks, Block(addr1, TestSize1)), Block(addr2, TestSize2))
      /\ total' = total + TestSize1 + TestSize2

HeapNext == (\E size \in Sizes : kmalloc(size)) \/ test_mem

HeapSpec == HeapInit /\ [][HeapNext]_heap

-----------------------------------------------------------------------------

HeapTypeOK ==
  /\ free_memory_address \in 0 .. ADDRESSES - 1
  /\ blocks \in Seq([addr : 0 .. ADDRESSES - 1, size : Sizes])
  /\ total \in Nat

(* Fewer bytes were asked for than there are above the kernel. *)
Fits == KernelEnd + total < ADDRESSES

(* Until the address space is used up, blocks lie one after the other      *)
(* above the kernel: no two share a byte, and the next one is free.        *)
BlocksInOrder ==
  Fits => /\ \A i \in DOMAIN blocks :
               /\ KernelEnd <= blocks[i].addr
               /\ blocks[i].addr + blocks[i].size <= free_memory_address
          /\ \A i, j \in DOMAIN blocks :
               i < j => blocks[i].addr + blocks[i].size <= blocks[j].addr
=============================================================================
