# A TLA+ verification project for Kurios32

Kurios32 is a small 32-bit x86 kernel in C++ and assembly: it boots from a
multiboot loader, sets up the GDT, the IDT and the PIC, reads the files of an
initial ramdisk, and runs a shell on the text console that takes its input from
an interrupt-driven keyboard driver. Everything runs in ring 0 in one address
space. This directory holds TLA+ models of its components, translated from the
source, the TLC configurations that check them on small instances, and proofs
that TLAPS checks for every instance.

## 1. Inventory

| Component | Source | State | Operations |
|---|---|---|---|
| keyboard driver | `kbd.cpp`, stub in `boot.asm` | `kbd_buff`, `buff_ridx`, `buff_widx` | `kbd_handler_main` (IRQ 1), `getchar`, `kbd_init` |
| interrupts | `idt.cpp`, `boot.asm` | `idt`, `idt_p`, the PIC's mask and vectors | `idt_init`, `timer_handler_main` (IRQ 0), `fault_handler` |
| console | `kernel.cpp` | text memory at 0xB8000, `cx`, `cy`, the hardware cursor | `print_char`, `print_char_color`, `print`, `clear`, `scroll`, `update_cursor`, `print_dec`, `print_hex` |
| shell | `sh.cpp` | `cmd_buffer`, `buff_pos` | `sh_loop`, `handle_cmd`, `strcomp`, `strcomp_n`, `atoi` |
| kernel heap | `kernel.cpp`, `mem.h` | `free_memory_address` | `mem_init`, `kmalloc` |
| file system | `vfs.cpp`, `vfs.h` | `file_tab`, `file_count` | `vfs_init`, `f_open`, `f_read`, `f_stat`, `ls` |
| tasking | `task.cpp`, `task.h`, `switch.asm` | `active_task`, `ready_tasks`, the ring of task blocks | `task_init`, `task_new`, `scheduler`, `context_switch` |
| boot | `kernel.cpp` (`kmain`), `boot.asm`, `linker.ld` | what is initialised so far | `start`, `kmain` |
| segments | `gdt.cpp`, `gdt_asm.asm` | `gdt`, `tss`, the CPU's registers for them | `gdt_set_gate`, `write_tss`, `gdt_init`, `flush_gdt`, `flush_tss` |
| graphics | `graphics/graphics.cpp` | `fb`, `sw`, `sh`, `sp`, `bpp` | `graphics_init`, `draw_pixel`, `draw_rect_full`, `graphics_clear` |
| kernel tests | `testing/` | `test_reg`, `test_count` | `test_add`, `test_list`, `test_exec`, `test_mem` |
| fonts | `fontman.cpp` | | not built: the Makefile does not compile it and the calls to it are commented out |
| toolchain | `toolchain/` | | a vendored GCC, not part of the kernel |

### How the parts interact

* **Calls.** `kmain` initialises everything with interrupts off, executes `sti`
  and stays in `sh_loop`. The shell calls `getchar`, the console, the file
  system, the heap and the kernel tests; all of that runs to completion in the
  kernel's one thread.
* **Interrupts.** Two lines are unmasked, the timer (IRQ 0) and the keyboard
  (IRQ 1). The keyboard handler shares the ring buffer with `getchar`; the timer
  handler shares the task list with `task_new` and may switch stacks. IDT entries
  are interrupt gates, so a handler is not interrupted. No handler prints,
  allocates or touches a file: everything else in the kernel is sequential.
* **Shared memory.** The heap starts at the linker's symbol `end` and grows
  without a limit; the boot loader places the initial ramdisk above the kernel.
  `cat` reads from the one and writes to the other.
* **Screen and buffer.** `sh_loop` keeps the line twice, in `cmd_buffer` and, by
  way of `print_char`, on the screen.

### What is hard here

The interleavings of `getchar` with the handlers and of `task_new` with the
timer; the hardware protocol of the keyboard controller and the PIC (a byte left
in port 0x60, or an end of interrupt too few, silences the keyboard for good);
the order of `kmain`'s calls and of the bytes for the PIC, while keys already
arrive; a frame buffer whose rows are longer than what is seen of them;
the limits (a full ring, a full line, a full file table, a full test table, a
heap without one); text that wraps and scrolls under an editor that believes in
one line; comparisons and conversions with edge cases. PROJECT.json lists these
hazards at their lines, with the properties that each one would break or a note why
none would.

### What makes each component correct

| Component | Correct means |
|---|---|
| keyboard driver | a bounded FIFO queue, whatever the interleaving; the line never gets stuck; each interrupt acknowledged once; every character read in the end |
| console | the screen is the end of an endless text; the cursor is on it, with blank rows below; the hardware cursor follows |
| shell | what Enter runs is the line as edited, it is the line on the screen, and it reaches the command it names |
| heap | blocks in order and apart, for as long as there is memory |
| file system | the walk finds the files of the archive; nobody changes them as long as the heap is below them; `cat` prints all of the file that `f_open` found (which is not the one that was named: `vfs_open`) |
| tasking | the ring is closed and in order after every `task_new`; within it, of the blocks that ticks can come to only the new one may have no link yet, for the length of one store; a lone task is never switched (that new tasks cannot run is what `tasking_switch` shows) |
| kernel tests | the number that `test list` shows runs the test it shows |
| boot, interrupts, segments | the tables and the PIC bring every interrupt to its handler, and none too early; no key is lost for good, but one from before the PIC was initialised; without a multiboot loader tables, PIC and interrupt flag stay as they were found, while the screen, and memory, may have been drawn on before the magic number is looked at |
| graphics | on a multiboot loader's screen what is drawn is what is seen, on the pixels that `graphics_clear` reaches, and lies inside the frame buffer |

## 2. The modules

Definitions keep the names of the source (`kmalloc`, `buff_ridx`, `Scroll` for
`scroll`); PROJECT.json maps each of them to its lines. Definitions marked
*Slip* are plausible mistakes in the definition that follows; each is used to
show that a property would notice it, and occurs in no specification.

| Module | Models | Abstract specification |
|---|---|---|
| `Boot` | `kmain` as a list of calls, the GDT, the IDT, both PICs byte by byte; from `sh_loop` on the actions of `Keyboard` | `Keyboard` |
| `Graphics` | the graphics driver as functions of memory, called by `Boot` | `Canvas`: a picture |
| `Keyboard` | handlers, ring, `getchar`, PIC, CPU halt | `KeyQueue`: a bounded queue |
| `Console`, `Screen` | the console as functions from state to state; arbitrary calls of it | `Teletype`: a roll of paper |
| `Commands`, `Shell` | the string functions and `handle_cmd`'s order of tests; `sh_loop` | `LineEdit`: a line that is edited and submitted |
| `Terminal` | `Shell` composed with `Console` | `LineEdit`, again |
| `Heap` | `mem_init`, `kmalloc`, the blocks of `test_mem` | |
| `Vfs` | `vfs_init`, `f_open`, `f_read`, `cat`, over the memory of `Heap` | |
| `Tasking` | `task_init`, `task_new`, `scheduler`, `context_switch` | |
| `Numbers`, `KernelTests` | `print_dec`, `print_hex`, `atoi`; `test_add`, `test_list`, `test_exec` | |
| `Ascii` | names of characters | |

`MC*` modules give the constants for model checking and, where a run needs one, a
bound; `*Proofs` modules hold the theorems, and `Induction` the lemmas about
numbers and recursive functions that several of them need.

**Boot.** `kmain` is a tuple of 33 calls, among them one `ob` for each byte that
`idt_init` sends to the PICs; `at` is the index of the next. An action is one
call, since interrupts are off; keys (`Types`), ticks and other requests come
between any two of them. The PIC is modelled as far as `idt_init` uses it: the
first initialisation word forgets requests and mask, the words after it set the
vector base, the wiring and the mode, later bytes the mask. Where an interrupt
leads (`Entry`) is looked up as the CPU does it: the vector from the PIC, the gate
from the IDT, the code segment from the GDT; a lookup that fails gives `"fault"`,
which no type allows. The refinement of `Keyboard` (`KeyboardSpec`) maps port
0x60 and the latched lines: before the PIC is initialised `Keyboard` sees neither,
afterwards its two lines. The history variable `reset` remembers whether port
0x60 was empty at this moment; if it was not (`"lost"`), the byte stays there, no
request will be made for it, and `Keyboard` sees a keyboard that nobody uses.
`kmain` reads `mbt` and draws through it before it looks at the magic number.
With a multiboot loader `mbt` is one of `Framebuffers`, which tell the truth of
a usable frame buffer (`ScreenAssumption`); with any other it is one of those or
of `Garbage`, of which nothing is assumed: any address, pitch and size. Drawing
through garbage may hit the kernel itself. `KernelIntact` says that it has not,
and is a guard of `kmain`'s calls: what a kernel does that was drawn over is not
known, and the model does not guess. With a multiboot loader the guard is always
true (`KernelNotDrawnOn`). So `OnlyFramebufferWritten` bounds the drawing with a
multiboot loader only, and for others says no more than that garbage which does
not look usable is not drawn through; `BadMagicInert` is about the tables, the
PIC and the interrupt flag. The words of a descriptor are pairs of 16-bit
halves, since the checker's integers are 32 bits wide and signed.

**Graphics, Canvas.** Memory is a function from the addresses of words to colours.
Addresses and the number of pixels wrap at `ADDRESSES`, and a store at an address
that is no word's touches the two words it lies in (`Touches`): with garbage for
a screen both happen.
`DrawRectFull` and `GraphicsClear` are whole calls, as nothing interrupts them that looks
at the screen. `Canvas` has a picture and no memory: it is wiped, or a rectangle
is painted over it. The refinement shows the pixels of `Reached`, those that
`graphics_clear` gets to: it writes width times height words in one run, which are
all pixels only if the rows are packed. The rest is left out of the refinement,
which therefore does not see that a padded screen is not cleared to its end; the
theorem `PaddedNotReached` says so.

**Keyboard.** A byte arrives at port 0x60 (`KeyPress`) and latches IRQ 1; the
CPU accepts the request of highest priority unless a line of the same or of
higher priority is in service. The keyboard handler is split in two, `KbdRead`
(everything up to the end of the outer `if`) and `KbdEoi`, because a new byte may
arrive in between, once the port has been read. `getchar` is split at every
access to what it shares with the handler: `Check`, `Halt`, `Load`, `Store`. A
halted CPU wakes up behind the `hlt`, at the loop's test. `SpuriousKbd` is a
request without a byte, which the handler's test of the status port is for;
`SpuriousIrq7` a request that is gone when the CPU acknowledges it, which goes to
the generic handler `isr_stub`, with an end of interrupt that nobody needs. The
scancode table is a constant: any table will do. The timer handler's call of the
scheduler returns at once while there is one task, which is what
`AloneNotSwitched` of `Tasking` shows.

**Console, Screen, Teletype.** `Put` is a whole call of `print_char`: the branch
on the character (`Place`), the full line (`Wrap`), `Scroll` and `UpdateCursor`,
in this order. `char` is signed, so that codes from 128 up are negative and not
printable. `Screen` adds the history variable `above`, the rows scrolled off;
`above` and the rows down to the cursor's are the text of `Teletype`, which knows
nothing of rows moving in memory. The hardware cursor is written by `print_char`
only, not by `clear`.

**Commands, Shell, LineEdit.** `Dispatch` reads the memory of `cmd_buffer`, with
whatever older lines left in it, the way the string functions do: up to the first
difference, terminator or count. `strcomp_n` ends in `== 2` where `strcomp` has
`== 0`, and is modelled so. One action of `Shell` is one iteration of `sh_loop`,
which is sound because no handler touches its variables.

**Terminal.** What `sh_loop` prints for each key, next to what it does to the
buffer. `\b` does nothing in column 0, so that the erasure of a wrapped
character does not reach the row above. The history variable `clean` is FALSE
once a key was typed that has no glyph (a tab: it is stored and not shown) or a
character was erased with the cursor in column 0. A command prints one of
`Outputs` or clears the screen.

**Heap, Vfs.** `Vfs` extends `Heap` and is the one that is run: heap, archive and
file table lie in one memory `mem`, with addresses that wrap. A byte of memory
says what it is: all of a header is `<<"header", i>>`, a byte of a file is
`<<"data", i, k>>`. `vfs_init_file` is one round of the loop in `vfs_init`. `cat`
takes a buffer with `kmalloc`, copies byte by byte and prints the C string in it.
`BlocksInOrder` holds until the address space is used up (`Fits`); behind the
wrap the heap lies over the kernel, and nothing is claimed of it. Of `test_mem`
the model has the two blocks and not the message: that the second address is the
higher one follows from their order.
`f_open` compares with `strcmp(...) == 0`, where `strcmp` is TRUE for equal
names, and is modelled so: it returns the first entry of another name. With the
Makefile's archive, whose first entry is the empty directory `./`, `cat` of any
file finds that entry and says that the file is empty.

**Tasking.** `task_new` is split at its accesses to the ring, in the order the
code stores; the timer may strike between any two. `context_switch` saves and
loads the stack pointer in the first word of a block, `task_new` writes other
words: `saved` says whether a first word was ever written. `running = Wild` is a
CPU on a stack that nobody set up; nothing happens after it. The kernel calls
`task_init` and never `task_new` as it stands: the model is of the interface.
Since the first switch to a new task already ends there, the scheduler of the
model gets to no second block. `LinksSet` therefore speaks of the links, at every
moment, and not of the scheduler's pointer: of the blocks that it could come to,
tick after tick, all have their link set but the new one between the stores of
`task.cpp:52` and `task.cpp:53`. That window is real, and would be the next thing
to close once switches work.

**Numbers, KernelTests.** Texts are sequences of bytes; `DigitsOf` is the loop
that `print_dec` and `print_hex` share. `atoi` wraps, as the compiled code does;
a negative result is refused by `handle_cmd` or by `test_exec`, which the model
does not tell apart. `print_hex` writes `0x` and, for 0, a digit into the left end
of its buffer (`kernel.cpp:120-127`), which shows what was meant; but it prints
from behind the last digit that the loop wrote, so that `0x` is never printed and
for 0 nothing is. `AddressShown` states what is printed: the digits, the first of
them not zero, and nothing for 0.

## 3. The runs

| Run | Configuration | Shows | States |
|---|---|---|---|
| `keyboard` | `Keyboard.cfg` | safety, the refinement of `KeyQueue`, and both liveness properties | 112 430 |
| `boot` | `Boot.cfg` | from power-on to the shell: the refinement of `Keyboard` and of `Canvas`, tables, PIC, lost keys, a bad magic number with anything behind `mbt` | 52 464 |
| `screen` | `Screen.cfg` | cursor, blank rows, the refinement of `Teletype` | 419 435 |
| `terminal` | `Terminal.cfg` | shell and console: types, commands, the line on the screen, the refinement of `LineEdit` | 1 292 679 |
| `terminal_erase` | `TerminalErase.cfg` | *violated*: after an erasure in column 0 the screen shows another line than the one that will run | |
| `shell_cat` | `ShellCat.cfg` | *violated*: the line `e` is taken for `cat` | |
| `vfs` | `Vfs.cfg` | the walk, the heap, `cat`, for three archives | 8 706 |
| `vfs_open` | `VfsOpen.cfg` | *violated*: `f_open` finds another file | |
| `vfs_heap` | `VfsHeap.cfg` | *violated*: the heap grows into the archive | |
| `tasking` | `Tasking.cfg` | the ring, its links at every moment, the lone task, `task_new` returns | 148 |
| `tasking_switch` | `TaskingSwitch.cfg` | *violated*: the first switch to a new task runs on no stack | |
| `tests` | `KernelTests.cfg` | listed numbers run the listed tests, overflowing ones nothing that is not registered; what is printed of an address | 127 940 |

A violated property states what a comment or README.md says; PROJECT.json quotes
the line. The counterexample of each is the shortest way to the disagreement.

### Bounds, and why they are enough

* **boot**: six frame buffers: one that holds `kmain`'s rectangles (with `Unit`
  1 in place of 50 pixels), one with packed rows and one with padded ones that cut
  them off, and three the driver must refuse. With another loader four more: one
  that lies over the kernel's image and past the end of memory (67 words, the
  kernel's the last 7), one with rows that overlap at odd addresses, one with a
  pitch of 0, and one with as many pixels as there are addresses, so that their
  number wraps to 0. An IDT of 48 entries (256 in the
  code) has all the vectors of both PICs. A ring of 3 and two scancodes: the
  details of the ring are the business of `keyboard`. `tss` lies where adding its
  size changes the lower half of the address; the proof covers the carry.
* **keyboard**: a ring of 4 holds 3 characters: it can be
  empty, partly filled, full, and wrap at every index. Five scancodes: two with a
  character, one without, the unused entry 0 and one past the table's end. The
  proofs cover every size.
* **screen**: 2 by 3, so that every character is next to an edge; the two rows
  that may scroll off (`MaxAbove`) are enough to scroll a screen whose rows have
  all been written, and to scroll it again.
* **terminal**: a buffer of 10, the shortest that holds every command; a screen
  of 3 by 2, where `test list` wraps three times and scrolls; the user types and
  erases along the lines in `Lines`, of which one is longer than the buffer. The
  stack's garbage is `x`, no terminator, so that a forgotten one shows.
* **vfs**: blocks of 2 bytes, files of 0 to 4: no data, part of a block, a whole
  block, more than one. A table of 3 entries, an archive of 4. `HeapLimit`
  lets the heap grow 3 bytes into the archive (8 bytes lie between kernel and
  archive): over the first header and into the first file or the next header.
* **tasking**: 8 tasks; from the third on every call is alike, since the walk is
  only longer.
* **tests**: ten tests, so that numbers have one digit or two; an 8-bit `int`
  (`INT_END` is 128) and 16-bit words (`WORDS` is 65536), so that four digits
  overflow the one and four hexadecimal ones fill the other; the texts include the empty one, a sign, a
  leading zero and numbers that wrap to a valid one.

### Deadlock

Checked everywhere but in `tasking`, where the model stops at a CPU that runs on
a wild stack, and in `boot`, where the kernel halts with interrupts off after a
wrong magic number.

### Fairness

`Keyboard` assumes that the timer is periodic, that the CPU accepts its
interrupts and does not stop in a handler (weak fairness), and that interrupts
leave time for the rest (strong fairness): a handler is a few dozen instructions
and the timer's period 55 ms, so that again and again the timer handler ends
before the next tick, the keyboard's request gets its turn and the thread takes
a step. No fairness for keys: nobody has to press one. An interrupt between
`getchar`'s test and its `hlt` leaves the CPU halted with a character available
("Await an available character", `kbd.cpp:77`); the timer is what bounds the
delay: without ticks `EveryCharRead` fails. `Boot` assumes the same, and that
`kmain` gets on.
`Tasking` assumes that the thread gets on inside `task_new` between two ticks.

## 4. The proofs

All are for every value of the constants, under the named assumptions that the
modules state.

Every safety property, action property and refinement that a passing run checks
is also a theorem.

* **BootProofs**, the keyboard driver. The inductive invariant `IInv` is the type
  invariant, `NoStuckByte`, `InServiceWhileHandled` and `ReaderSlotStable`; the
  last is not inductive without the first, which keeps the slot that the handler
  writes inside the ring. The refinement of `KeyQueue` (`Refinement`) needs the
  last, to know that what `Store` returns is the head of the queue, and lemmas
  about the ring without its modulus: the distance between the indices, and how
  the contents change when either moves.
* **BootProofs**, the graphics driver. Rows do not overlap, so that different
  pixels have different addresses; hence what a rectangle and a wipe do to each
  pixel (`RectShown`, `ClearShown`) and that they write nowhere else, whatever
  coordinates, pitch and size. `PackedReached` and `PaddedNotReached` say when
  `graphics_clear` keeps its comment "Make the whole screen a given color"
  (`graphics.cpp:79`): with packed rows always, with padded ones never (from two
  rows on). Products of variables are kept opaque by small lemmas.
* **BootProofs**, `kmain`. `BInv` says, in terms of `at`, what has been set up:
  `Flow` (nothing interrupts before the shell; `reset`), `Tables`, `Master` (the
  words that the master PIC still awaits, base, mode, mask) and `Others`. With it,
  an interrupt that is accepted meets its own handler (`AcceptMeets`), which is
  what the refinement of `Keyboard` (`BootedKeyboard`) needs; all that is proved
  of `Keyboard` thus holds of the booted kernel. `SegmentsCorrect` needs that
  `tss` does not lie across the end of a megabyte (`TssAssumption`): `write_tss`
  gives the address behind it for a limit, of which a descriptor keeps 20 bits.
  From the graphics driver follow `DrawnAsSeen`, `DrawsInFramebuffer` and
  `KernelNotDrawnOn`, for a multiboot loader, under `ScreenAssumption`: what it
  says of a usable frame buffer is true, and it does not lie over the kernel. On
  such a screen no address wraps and a pixel is a word (`NoWrap`,
  `TouchesItself`). For any other loader `BadMagicLeavesMachine` holds whatever
  `mbt` points to, under its own condition `KernelIntact`.
* **ConsoleProofs**, **ScreenProofs.** `On(k, maxx, maxy)` says of a console that
  its cursor lies within these limits and that the rows below it are blank.
  `print_char` takes the cursor one past the row or the screen and back; one lemma
  for each of its steps (`PlaceOn`, `WrapOn`, `ScrollOn`, `UpdateCursorOn`). The
  arithmetic of rows and cells is kept in four lemmas of its own, since products
  of variables are hard for the provers. `ScreenIsPaper` is the refinement of
  `Teletype`: the rows scrolled off (`above`) and the rows down to the cursor's
  are glued to one roll, and a character that is placed, wraps, scrolls or erases
  does to the roll what `Teletype` says (`CharacterWritten`, `LineEnded`,
  `Erased`). It needs `On`, since rows scroll in from below as blank ones only if
  they were. A screen has at most 65 536 cells, as the hardware cursor's two
  registers require (`ConsoleAssumption`).
* **TerminalProofs**, the shell. The bytes below `buff_pos` were typed for this
  line (`LineInv`); with the terminator they are the C string that `handle_cmd`
  gets, whatever lies behind. From that follow the refinement of `LineEdit` and,
  with what `strcomp` and `strcomp_n` decide (`StrcompEqual`, `PrefixMatches`),
  that a line that is a command reaches it (`CommandsCorrect`). The places where
  the string functions stop exist by a least-number argument (`LeastNat`).
* **TerminalProofs**, shell and console. `TInv` adds to `LineInv` that the
  hardware cursor is at the console's, and that, while `clean`, the cells before
  it show the prompt and the line. The second is inductive only because
  `ConsoleProofs` says of every character, on whatever row and across a scroll,
  that what was shown before it still is (`Shown`, `WrapShown`, `ScrollShown`),
  and that an erasure away from column 0 takes back exactly the last one
  (`BackShown`). `HardwareCursorCorrect` and `LineShownCorrect` follow;
  `TerminalRunsShell` carries what is proved of `Shell` over to the terminal.
* **VfsProofs**, the heap. While the bytes asked for fit, the heap's pointer is the
  kernel's end plus their sum; the wrap of addresses makes this conditional.
* **VfsProofs**, the file system. First what an archive in memory is: headers lie in
  order and apart from the data (`HeadersInOrder`, `PlacesApart`), so that every
  byte of the image is what its place says (`HeaderByte`, `DataByte`, `EndByte`);
  the padded size is the least multiple of a block (`PaddedIs`), and the octal
  digits of a size, read back, are the size (`OctalLaw`, `OctalRead`). `VInv` then
  says that the table holds the entries of the first files of the archive
  (`Walked`), that `addr` is at the header of the next one while memory is still
  the loader's (`AtNextHeader`), and that the walk ended at the archive's end or
  with a full table (`WalkDone`). `AtNextHeader` is what makes it inductive: from
  the entries alone nothing is known of where the loop goes on. `ScanFindsAll`,
  `ArchiveIntact` and `CatPrintsIt` follow, and `VfsUsesHeap`, the refinement of
  `Heap`. Assumed of an archive (`VfsAssumption`): it ends inside memory, and its
  sizes fit the octal digits of a header.
* **TaskingProofs.** `RingInv` says for each point of `task_new` which links
  are set; `RunInv` that until the first switch the boot task runs and no other
  has a stack. `FreshInv` adds that a block not yet linked in still has the link
  of `kmalloc`'s memory; the tasks of the ring, or of the chain up to the new
  block, are closed under links, which bounds what ticks can come to
  (`ReachIsRing`) and gives `LinksSetInTime`. `WalkHasEnd` is the part of `TaskNewReturns` that is not fairness:
  the walk goes through the tasks in order, for any number of them.
* **KernelTestsProofs.** What the conversions do to every number:
  the loop's digits, spelled in any alphabet and read in the same base, are the
  number (`SpelledValue`), and begin with none that is zero (`LeadingDigit`), whence
  `PrintDecIs` and `PrintHexIs`; and `atoi` reads
  the digits at the beginning of a text, exactly if an int can hold them
  (`AtoiIs`). `KInv` says that the list, once printed, is that of the table, since
  nothing is registered after boot, and that what was said is what `test_exec`
  says to some text. `ListRuns`, `NumbersMeant`, `AddressesShown` and
  `TestsTypeCorrect` follow for any width of a word and of an int; there may be as
  many tests as an int can count (`KernelTestsAssumption`).

**Recursion.** The digits of a number, the value of a text, the bytes of an
archive and the string that `print` writes are recursive functions. The library's
induction theorems cannot be used, as they take an operator as a parameter, so
that `Induction` proves what is needed from the least-number principle: induction
over a set of numbers (`UpTo`), and that a recursion whose steps stay in a set
defines a function (`StepsExist`). Each recursive definition is then shown to be
that function before anything else is said about it.

**Only model-checked**: liveness (`EveryCharRead`, `EveryByteTaken`,
`EveryKeyTaken`, `TaskNewReturns`), since the provers treat neither `ENABLED` nor
fairness. The five violated properties are refuted by TLC on small instances; a
counterexample needs no larger one.

## 5. What is not modelled

* **Texts that commands print** (`help`, `ls`, messages), colours by name, and the
  attribute bits beyond a byte: no property is about them.
* **The console in graphics mode.** `print` still writes the text memory at
  0xB8000, which is not seen then, and `clear` puts the cursor back without
  blanking it. `Console` is the console of text mode. `kmain`'s messages before
  the test of the magic number write there too, whatever the loader.
* **Faults of the CPU.** The generic handler is entered only by a spurious
  interrupt; it would leave the error code of a fault on the stack. Nothing in the
  models raises a fault, since memory is not protected.
* **A frame buffer above 4 GB** that a multiboot loader describes, whose 64-bit
  address `graphics_init` truncates: `ScreenAssumption` excludes it. With
  another loader any address may be found, and the kernel be drawn over: there
  the model stops (`KernelIntact`).
* **What lies behind a heap that has wrapped** at the end of the address space.
* **`f_stat`, `file_get_count`, `ls`**: they read `file_tab` and change nothing.
* **fontman** is not built. **toolchain/** is a vendored cross compiler, third-party,
  with no part in the kernel; as it makes up nearly all of the lines of the
  repository, the share of lines that PROJECT.json maps is small although it
  covers most of the kernel's own code (about 1 800 lines).

## 6. What could follow

1. **End to end**: `Keyboard`'s queue in front of `Terminal`, so that what the user
   types is what is shown and run, over lost keys on a full ring.
2. **Proofs**: when the two parts of `LineShown` that `clean` excludes cannot
   occur (lines shorter than a row); that names without a common prefix make
   `f_open` wrong for every archive, and a theorem for the repaired one; the
   invariants behind liveness, as `WalkHasEnd` is for `TaskNewReturns`.
