-------------------------------- MODULE Vfs --------------------------------
(***************************************************************************)
(* The file system over the memory it shares with the kernel heap.  The    *)
(* boot loader has put a tar archive at mod_start, above the kernel;       *)
(* vfs_init walks its headers (one action per file), then the shell's cat  *)
(* finds a file, takes a buffer from kmalloc, which never gives one back,  *)
(* copies the file into it and prints it.                                  *)
(*                                                                         *)
(* A byte of memory is <<"header", i>> (the header of entry i, all of it), *)
(* <<"data", i, k>> (byte k of the file), Zero, or Other.                  *)
(***************************************************************************)
EXTENDS Heap, SequencesExt

CONSTANTS
  mod_start,   (* where the archive lies                                   *)
  BLOCK,       (* a tar block, 512 bytes                                   *)
  OctDigits,   (* digits of a size in a header, 11                         *)
  MAX_FILES,
  Archives,    (* archives to boot with: sequences of [name, size, type]   *)
  Wanted,      (* file names typed after cat                               *)
  Allocs,      (* sizes of kmalloc's other calls: the block of task_init   *)
  HeapLimit    (* the bound: kmalloc is called up to this address          *)

Memory == 0 .. ADDRESSES - 1

VARIABLES
  mem,
  archive, mods,         (* what the boot loader passed, and if it did     *)
  file_tab,              (* the first file_count entries                   *)
  addr,                  (* vfs_init's local                               *)
  pc,
  printed                (* the last cat: name typed, entry found, text    *)

vars == <<heap, mem, archive, mods, file_tab, addr, pc, printed>>

Zero  == <<>>
Other == <<"other">>

-----------------------------------------------------------------------------
(* The archive in memory. *)

(* tar fills the last block of a file up. *)
Padded(size) == CHOOSE n \in size .. size + BLOCK - 1 : n % BLOCK = 0

(* The addresses of the headers, and of the zero blocks at the end. *)
HeaderAt(a) ==
  LET at[i \in 1 .. Len(a) + 1] ==
        IF i = 1 THEN mod_start ELSE at[i-1] + BLOCK + Padded(a[i-1].size)
  IN  at

EndOf(a) == HeaderAt(a)[Len(a) + 1] + 2 * BLOCK

initrd_end == EndOf(archive)

Image(a) ==
  [x \in Memory |->
     LET at == HeaderAt(a)
         headers == {i \in 1 .. Len(a) : x = at[i]}
         files   == {i \in 1 .. Len(a) : x - at[i] - BLOCK \in 0 .. a[i].size - 1}
     IN  IF headers # {} THEN <<"header", CHOOSE i \in headers : TRUE>>
         ELSE IF files # {} THEN LET i == CHOOSE i \in files : TRUE
                                 IN  <<"data", i, x - at[i] - BLOCK>>
         ELSE IF x \in mod_start .. EndOf(a) - 1 THEN Zero
         ELSE Other]

(* What is left of a size when tar has written its last digits. *)
OctalLeft(size) ==
  LET left[k \in 0 .. OctDigits] == IF k = 0 THEN size ELSE left[k-1] \div 8
  IN  left

(* A size as tar writes it, and as the kernel reads it back. *)
Octal(size) == [i \in 1 .. OctDigits |-> OctalLeft(size)[OctDigits - i] % 8]

oct_to_dec(oct) ==
  LET dec[i \in 0 .. Len(oct)] ==
        IF i = 0 THEN 0 ELSE (dec[i-1] * 8 + oct[i]) % ADDRESSES
  IN  dec[Len(oct)]

(* Archives have an end in memory, and sizes that their headers can hold.  *)
ASSUME VfsAssumption ==
  /\ mod_start \in KernelEnd .. ADDRESSES - 1
  /\ HeapLimit \in Memory
  /\ Allocs \subseteq Sizes
  /\ BLOCK \in Nat \ {0} /\ OctDigits \in Nat /\ MAX_FILES \in Nat
  /\ \A a \in Archives :
       /\ DOMAIN a = 1 .. Len(a) /\ Len(a) \in Nat
       /\ EndOf(a) \in Memory
       /\ \A i \in DOMAIN a : /\ a[i].size \in Nat /\ a[i].size + 1 \in Sizes
                              /\ OctalLeft(a[i].size)[OctDigits] = 0

-----------------------------------------------------------------------------

Init ==
  /\ archive \in Archives
  /\ mods \in BOOLEAN
  /\ mem = IF mods THEN Image(archive) ELSE [x \in Memory |-> Other]
  /\ file_tab = <<>>
  /\ addr = mod_start
  /\ pc = IF mods THEN "scan" ELSE "shell"
  /\ HeapInit
  /\ printed = [name |-> "", idx |-> 0, text |-> <<>>]

(* Slip: the table may overflow by one. *)
MoreFilesOneTooMany ==
  addr < initrd_end /\ Len(file_tab) <= MAX_FILES /\ mem[addr] # Zero

MoreFiles ==
  addr < initrd_end /\ Len(file_tab) < MAX_FILES /\ mem[addr] # Zero

(* Slip: a file that ends on a block's end is skipped with a block more. *)
RoundUpTooFar(size) == ((size + BLOCK) \div BLOCK) * BLOCK

(* (size + 511) & ~511 *)
RoundUp(size) == ((size + BLOCK - 1) \div BLOCK) * BLOCK

vfs_init_file ==
  /\ pc = "scan" /\ MoreFiles
  /\ LET entry == archive[mem[addr][2]]
         size  == oct_to_dec(Octal(entry.size))
     IN  /\ file_tab' = Append(file_tab, [name |-> entry.name, size |-> size,
                                          type |-> entry.type, location |-> addr + BLOCK])
         /\ addr' = (addr + BLOCK + RoundUp(size)) % ADDRESSES
  /\ UNCHANGED <<heap, mem, archive, mods, pc, printed>>

vfs_init_end ==
  /\ pc = "scan" /\ ~MoreFiles
  /\ pc' = "shell"
  /\ UNCHANGED <<heap, mem, archive, mods, file_tab, addr, printed>>

(* strcmp is true for equal names and f_open tests it with == 0: it finds  *)
(* the first file of another name.  0 stands for the invalid index.        *)
f_open(fname) ==
  LET found == {i \in DOMAIN file_tab : file_tab[i].name # fname}
  IN  IF found = {} THEN 0 ELSE Min(found)

(* f_read into address to: byte after byte, also onto itself. *)
f_read(idx, to, size) ==
  LET node == file_tab[idx]
      bytes_to_read == IF size > node.size THEN node.size ELSE size
      after[n \in 0 .. bytes_to_read] ==
        IF n = 0 THEN mem
        ELSE LET m == after[n-1]
             IN  [m EXCEPT ![to + n - 1] = m[node.location + n - 1]]
  IN  after[bytes_to_read]

(* The C string at an address, cut at the end of memory. *)
CString(m, a) ==
  LET n == Min({x - a : x \in {x \in a .. ADDRESSES - 1 : m[x] = Zero}} \cup {ADDRESSES - a})
  IN  [k \in 1 .. n |-> m[a + k - 1]]

(* Slips: no byte for the terminator; the terminator on the last byte.     *)
NoSpaceForNul(size) == size
NulTooEarly(size) == size - 1

SpaceFor(size) == size + 1
NulAt(size) == size

InLimit(size) == free_memory_address + size <= HeapLimit

(* What cat finds to print: nothing if there is no file, or an empty one.  *)
FoundSize(idx) == IF idx = 0 THEN 0 ELSE file_tab[idx].size

cat_missing(fname) ==
  /\ pc = "shell"
  /\ FoundSize(f_open(fname)) = 0
  /\ printed' = [name |-> fname, idx |-> f_open(fname), text |-> <<>>]
  /\ UNCHANGED <<heap, mem, archive, mods, file_tab, addr, pc>>

cat(fname) ==
  /\ pc = "shell"
  /\ LET idx    == f_open(fname)
         size   == FoundSize(idx)
         buffer == free_memory_address
     IN  /\ size > 0 /\ InLimit(size + 1)
         /\ kmalloc(SpaceFor(size))
         /\ mem' = [f_read(idx, buffer, size) EXCEPT ![buffer + NulAt(size)] = Zero]
         /\ printed' = [name |-> fname, idx |-> idx, text |-> CString(mem', buffer)]
  /\ UNCHANGED <<archive, mods, file_tab, addr, pc>>

(* task_init, "test 1": blocks are taken and not written. *)
OtherCode ==
  /\ pc = "shell"
  /\ \/ \E size \in Allocs : InLimit(size) /\ kmalloc(size)
     \/ InLimit(TestSize1 + TestSize2) /\ test_mem
  /\ UNCHANGED <<mem, archive, mods, file_tab, addr, pc, printed>>

Next ==
  \/ vfs_init_file
  \/ vfs_init_end
  \/ \E fname \in Wanted : cat_missing(fname) \/ cat(fname)
  \/ OtherCode

Spec == Init /\ [][Next]_vars

-----------------------------------------------------------------------------

TypeOK ==
  /\ HeapTypeOK
  /\ pc \in {"scan", "shell"}
  /\ Len(file_tab) <= MAX_FILES
  /\ \A i \in DOMAIN file_tab :
       file_tab[i].location \in Memory /\ file_tab[i].size \in Memory

(* The data of file i as the archive has it, and as it lies in memory. *)
FileData(i) == [k \in 1 .. archive[i].size |-> <<"data", i, k - 1>>]
Contents(i) == [k \in 1 .. file_tab[i].size |-> mem[file_tab[i].location + k - 1]]

(* The walk finds every file of the archive, in order, up to the table's   *)
(* size, and its location, size and type.                                  *)
ScanComplete ==
  pc = "shell" /\ mods =>
    /\ Len(file_tab) = Min({Len(archive), MAX_FILES})
    /\ \A i \in DOMAIN file_tab :
         /\ file_tab[i].name = archive[i].name
         /\ file_tab[i].size = archive[i].size
         /\ file_tab[i].type = archive[i].type
         /\ file_tab[i].location = HeaderAt(archive)[i] + BLOCK

(* The heap has not reached the archive. *)
HeapBelowInitrd == free_memory_address <= mod_start

(* Until it does, no buffer touches a byte of it ...                       *)
IntactBelow ==
  mods /\ HeapBelowInitrd =>
    \A x \in mod_start .. initrd_end - 1 : mem[x] = Image(archive)[x]

(* ... and cat prints the whole of the file that was found.                *)
CatPrintsFile ==
  HeapBelowInitrd /\ printed.idx # 0 => printed.text = FileData(printed.idx)

(* "The memory should be free after the kernel ends": what kmalloc hands   *)
(* out is nobody else's, so that files never change.                       *)
FilesIntact == mods => \A i \in DOMAIN file_tab : Contents(i) = FileData(i)

(* "Locate a file, given a name, return index in the file_tab".            *)
OpenFindsName ==
  printed.idx # 0 => file_tab[printed.idx].name = printed.name
=============================================================================
