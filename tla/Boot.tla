-------------------------------- MODULE Boot --------------------------------
(***************************************************************************)
(* From the boot loader to the shell.  kmain is a list of calls with       *)
(* interrupts off; at says which one is next.  Meanwhile the hardware goes *)
(* on: keys arrive, the timer ticks, and the PIC latches their lines as    *)
(* the boot loader or idt_init have set it up.  The last call is sh_loop,  *)
(* where the kernel's thread, its handlers and the keyboard are those of   *)
(* Keyboard; but which handler an interrupt enters is now found through    *)
(* the PIC's base, the IDT and the GDT, as the kernel filled them.         *)
(***************************************************************************)
EXTENDS Keyboard, Sequences, Graphics

CONSTANTS
  IDT_SIZE,      (* entries of the IDT                                     *)
  Framebuffers,  (* what a multiboot loader may say of the frame buffer    *)
  Garbage,       (* what else kmain may find where mbt points to, if the   *)
                 (* loader is no multiboot one                             *)
  RAM,           (* addresses of the words of memory that the screen is in *)
  KernelImage,   (* and of the kernel's own                                *)
  Unit,          (* the unit of kmain's rectangles, 50 pixels              *)
  TssAddress,    (* where the linker puts tss                              *)
  Was, Black, Red, Green, Blue,  (* colours; Was is what memory held before*)
  None           (* no handler, no table, no register                      *)

ASSUME BootAssumption == IDT_SIZE \in Nat /\ IDT_SIZE >= 40 /\ Unit \in Nat

(* What a multiboot loader says of a usable frame buffer is true, and it   *)
(* does not lie over the kernel.  Of Garbage nothing is assumed.           *)
ASSUME ScreenAssumption ==
  /\ RAM \subseteq WordAddresses /\ KernelImage \subseteq RAM
  /\ \A fb \in Framebuffers : Supported(fb) =>
       /\ ValidScreen(fb)
       /\ \A p \in Pixels(fb) : PixelAddress(fb, p[1], p[2]) \in RAM
       /\ \A a \in KernelImage : a \notin fb.addr .. fb.addr + fb.height * fb.pitch - 1

(* The values of the half of a 32-bit word.                                *)
HALF == 65536

(* tss does not lie across the end of a megabyte: write_tss gives          *)
(* gdt_set_gate the address behind tss for a limit, and a descriptor keeps *)
(* 20 bits of it.                                                          *)
ASSUME TssAssumption ==
  /\ TssAddress \in (0 .. HALF - 1) \X (0 .. HALF - 1)
  /\ HALF * (TssAddress[1] % 16) + TssAddress[2] + 104 < 16 * HALF

VARIABLES
  at,     (* index of kmain's next call; 0 once kmain has returned         *)
  magic,  (* the boot loader is a multiboot one, and says so               *)
  mbt, graphics_mode, mem,
  gdt,    (* the table in memory                                           *)
  gdtr,   (* the GDT the CPU uses: the loader's or the kernel's            *)
  tr,     (* the task register: a selector                                 *)
  idt, idtr,
  iflag,  (* the thread's interrupt flag                                   *)
  pic,    (* per chip: vector base, masked lines, initialisation words     *)
          (* still to come, the fourth of them                             *)
  free_memory_address,  (* blocks between the kernel's end and the pointer *)
  active_task,          (* the number of its block, 0 for NULL             *)
  reset   (* history: was port 0x60 empty when the PIC was initialised?    *)

display == <<mbt, graphics_mode, mem>>
tables  == <<gdt, gdtr, tr, idt, idtr>>
heap    == <<free_memory_address, active_task>>
setup   == <<magic, display, tables, iflag, pic, heap, reset>>
bootVars == <<vars, at, setup>>

DEVICE == 5  \* a line with some other device on it

-----------------------------------------------------------------------------
(* The list of calls. *)

Do(name)        == [call |-> name]
ob(port, value) == [call |-> "ob", port |-> port, value |-> value]
Rect(x, y, w, h, color) ==
  [call |-> "draw_rect_full", color |-> color,
   rect |-> [x |-> x * Unit, y |-> y * Unit, w |-> w * Unit, h |-> h * Unit]]

PIC1_COMMAND == 32   \* port 0x20, the master
PIC1_DATA    == 33
PIC2_COMMAND == 160  \* port 0xA0, the slave
PIC2_DATA    == 161

(* Slips: the last mask leaves only the timer; the bases are exchanged;    *)
(* 0x11 goes to the master twice.                                          *)
MaskPicTimerOnly ==
  <<ob(PIC1_DATA, 253), ob(PIC1_DATA, 254), ob(PIC2_DATA, 255)>>
RemapPicExchanged ==
  <<ob(PIC1_COMMAND, 17), ob(PIC2_COMMAND, 17), ob(PIC1_DATA, 40), ob(PIC2_DATA, 32),
    ob(PIC1_DATA, 4), ob(PIC2_DATA, 2), ob(PIC1_DATA, 1), ob(PIC2_DATA, 1),
    ob(PIC1_DATA, 0), ob(PIC2_DATA, 0), ob(PIC1_DATA, 255), ob(PIC2_DATA, 255)>>

RemapPicMasterTwice ==
  <<ob(PIC1_COMMAND, 17), ob(PIC1_COMMAND, 17), ob(PIC1_DATA, 32), ob(PIC2_DATA, 40),
    ob(PIC1_DATA, 4), ob(PIC2_DATA, 2), ob(PIC1_DATA, 1), ob(PIC2_DATA, 1),
    ob(PIC1_DATA, 0), ob(PIC2_DATA, 0), ob(PIC1_DATA, 255), ob(PIC2_DATA, 255)>>

(* 0x11 starts an initialisation of four words: 0x20 and 0x28 are the      *)
(* vector bases, 4 and 2 wire the chips together, 1 is 8086 mode; then     *)
(* everything is unmasked and masked again.                                *)
RemapPic ==
  <<ob(PIC1_COMMAND, 17), ob(PIC2_COMMAND, 17), ob(PIC1_DATA, 32), ob(PIC2_DATA, 40),
    ob(PIC1_DATA, 4), ob(PIC2_DATA, 2), ob(PIC1_DATA, 1), ob(PIC2_DATA, 1),
    ob(PIC1_DATA, 0), ob(PIC2_DATA, 0), ob(PIC1_DATA, 255), ob(PIC2_DATA, 255)>>

(* The keyboard is unmasked, then the timer as well. *)
MaskPic == <<ob(PIC1_DATA, 253), ob(PIC1_DATA, 252), ob(PIC2_DATA, 255)>>

idt_init == <<Do("idt_set_gate")>> \o RemapPic \o MaskPic \o <<Do("load_idt")>>

Early ==
  <<Do("graphics_init"), Do("clear"), Do("mem_init"),
    Rect(2, 2, 4, 3, Red), Rect(3, 3, 4, 3, Green), Rect(4, 4, 4, 3, Blue),
    Do("magic"), Do("gdt_init")>>

(* Slip: the second mem_init comes late. *)
kmainLateMemInit ==
  Early \o <<Do("vfs_init")>> \o idt_init
    \o <<Do("kbd_init"), Do("task_init"), Do("mem_init"), Do("test_init"),
         Do("sh_init"), Do("sti"), Do("sh_loop")>>

kmain ==
  Early \o <<Do("mem_init"), Do("vfs_init")>> \o idt_init
    \o <<Do("kbd_init"), Do("task_init"), Do("test_init"), Do("sh_init"),
         Do("sti"), Do("sh_loop")>>

Reaches(name) == at # 0 /\ kmain[at].call = name
Return        == at' = at + 1

InShell == Reaches("sh_loop")

-----------------------------------------------------------------------------
(* The descriptor tables.  A 32-bit word is a pair of 16-bit halves, the   *)
(* upper one first.                                                        *)

(* Slip: the upper half of granularity is lost. *)
DescriptorNoFlags(base, limit, access, granularity) ==
  [base_low |-> base[2], base_mid |-> base[1] % 256, base_high |-> base[1] \div 256,
   limit_low |-> limit[2], gran |-> limit[1] % 16, access |-> access]

(* gdt_set_gate. *)
Descriptor(base, limit, access, granularity) ==
  [base_low |-> base[2], base_mid |-> base[1] % 256, base_high |-> base[1] \div 256,
   limit_low |-> limit[2],
   gran |-> (limit[1] % 16) + (granularity - (granularity % 16)), access |-> access]

Plus(word, n) ==
  <<(word[1] + (word[2] + n) \div HALF) % HALF, (word[2] + n) % HALF>>

TssSize == 104
Zero == <<0, 0>>
Max  == <<HALF - 1, HALF - 1>>

(* Null, kernel code and data, user code and data, tss. *)
SegmentList ==
  <<Descriptor(Zero, Zero, 0, 0),
    Descriptor(Zero, Max, 154, 207), Descriptor(Zero, Max, 146, 207),   \* 0x9A, 0x92, 0xCF
    Descriptor(Zero, Max, 250, 207), Descriptor(Zero, Max, 242, 207),   \* 0xFA, 0xF2
    Descriptor(TssAddress, Plus(TssAddress, TssSize), 233, 0)>>         \* 0xE9

Segments == [i \in 0 .. 5 |-> SegmentList[i + 1]]

(* What the CPU makes of a descriptor. *)
BaseOf(d) == <<256 * d.base_high + d.base_mid, d.base_low>>
LimitOf(d) == HALF * (d.gran % 16) + d.limit_low
InPages(d) == d.gran \div 128 = 1
IsCode(d)  == d.access \in {154, 155}
IsData(d)  == d.access \in {146, 147}
Selected(selector) == gdt[selector \div 8]

Gate(handler, selector) == [base |-> handler, sel |-> selector, flags |-> 142]  \* 0x8E

(* Slip: the gates name the data segment. *)
GatesInData ==
  [v \in 0 .. IDT_SIZE-1 |->
     Gate(IF v = 32 THEN "timer_handler" ELSE IF v = 33 THEN "kbd_handler" ELSE "isr_stub", 16)]

(* idt_init's gates. *)
Gates ==
  [v \in 0 .. IDT_SIZE-1 |->
     Gate(IF v = 32 THEN "timer_handler" ELSE IF v = 33 THEN "kbd_handler" ELSE "isr_stub", 8)]

(* Where the CPU goes on vector v: the gate's handler, if the tables give  *)
(* it an interrupt gate into a code segment.                               *)
Entry(v) ==
  IF /\ idtr = "kernel" /\ gdtr = "kernel" /\ v \in DOMAIN idt
     /\ idt[v].flags = 142 /\ IsCode(Selected(idt[v].sel))
  THEN idt[v].base
  ELSE "fault"

-----------------------------------------------------------------------------
(* The interrupt controllers. *)

Weight == <<1, 2, 4, 8, 16, 32, 64, 128>>
Bits(byte) == {line \in 0 .. 7 : (byte \div Weight[line + 1]) % 2 = 1}

(* A byte for a chip's data port: the next initialisation word, or the mask.*)
AfterData(chip, value) ==
  IF chip.awaits = <<>> THEN [chip EXCEPT !.mask = Bits(value)]
  ELSE [chip EXCEPT !.awaits = Tail(@),
                    !.base = IF Head(chip.awaits) = "base" THEN value - (value % 8) ELSE @,
                    !.mode = IF Head(chip.awaits) = "mode" THEN value ELSE @]

(* The first initialisation word, for the command port. *)
Restarted(chip, value) ==
  [chip EXCEPT !.mask = {}, !.mode = 0,
               !.awaits = <<"base", "cascade">> \o (IF 0 \in Bits(value) THEN <<"mode">> ELSE <<>>)]

(* It also forgets the master's requests: an edge that was latched is lost,*)
(* and the line, which stays high, makes no other.                         *)
WritePic(port, value) ==
  LET chip == IF port \in {PIC1_COMMAND, PIC1_DATA} THEN "master" ELSE "slave"
  IN  IF port \in {PIC1_DATA, PIC2_DATA}
      THEN /\ pic' = [pic EXCEPT ![chip] = AfterData(@, value)]
           /\ UNCHANGED <<irr, isr, reset>>
      ELSE /\ pic' = [pic EXCEPT ![chip] = Restarted(@, value)]
           /\ IF chip = "master"
              THEN /\ irr' = {} /\ isr' = {}
                   /\ reset' = IF reset # "no" THEN reset
                               ELSE IF obf = Empty THEN "clean" ELSE "lost"
              ELSE UNCHANGED <<irr, isr, reset>>

Pending == irr \ pic.master.mask

(* The vector of a line; the master must be initialised, in 8086 mode and  *)
(* with an explicit end of interrupt.                                      *)
Vector(line) ==
  IF pic.master.awaits = <<>> /\ pic.master.mode = 1
  THEN pic.master.base + line ELSE None

(* The CPU accepts an interrupt, as in Keyboard. *)
Accept(irq) ==
  /\ iflag /\ cpu \in {"main", "halted"}
  /\ irq \in Pending
  /\ \A other \in Pending : irq <= other
  /\ \A other \in isr : irq < other
  /\ irr' = irr \ {irq}
  /\ isr' = isr \cup {irq}
  /\ cpu' = Entry(Vector(irq))
  /\ WakeUp
  /\ UNCHANGED <<kbd_buff, buff_ridx, buff_widx, obf, c, ret, at, setup>>

AcceptSpurious ==
  /\ iflag /\ cpu \in {"main", "halted"} /\ Pending = {}
  /\ cpu' = Entry(Vector(7))
  /\ WakeUp
  /\ UNCHANGED <<kbd_buff, buff_ridx, buff_widx, obf, irr, isr, c, ret, at, setup>>

-----------------------------------------------------------------------------
(* kmain's calls. *)

GraphicsInit ==
  /\ Reaches("graphics_init") /\ Return
  /\ graphics_mode' = Supported(mbt)
  /\ UNCHANGED <<vars, magic, mbt, mem, tables, iflag, pic, heap, reset>>

(* What clear does to the frame buffer; without one, see Console.          *)
WipeScreen == mem' = IF graphics_mode THEN GraphicsClear(mem, mbt, Black) ELSE mem

Clear ==
  /\ Reaches("clear") /\ Return
  /\ WipeScreen
  /\ UNCHANGED <<vars, magic, mbt, graphics_mode, tables, iflag, pic, heap, reset>>

DrawRect ==
  /\ Reaches("draw_rect_full") /\ Return
  /\ LET r == kmain[at].rect
     IN  mem' = IF graphics_mode
                THEN DrawRectFull(mem, mbt, r.x, r.y, r.w, r.h, kmain[at].color)
                ELSE mem
  /\ UNCHANGED <<vars, magic, mbt, graphics_mode, tables, iflag, pic, heap, reset>>

(* Slip: the message is printed and kmain goes on. *)
CheckMagicGoesOn ==
  /\ Reaches("magic") /\ Return
  /\ UNCHANGED <<vars, setup>>

(* A wrong magic number: kmain returns to start, which halts for good.     *)
CheckMagic ==
  /\ Reaches("magic")
  /\ at' = IF magic THEN at + 1 ELSE 0
  /\ UNCHANGED <<vars, setup>>

GdtInit ==
  /\ Reaches("gdt_init") /\ Return
  /\ gdt' = Segments /\ gdtr' = "kernel" /\ tr' = 43   \* 0x2B
  /\ UNCHANGED <<vars, magic, display, idt, idtr, iflag, pic, heap, reset>>

MemInit ==
  /\ Reaches("mem_init") /\ Return
  /\ free_memory_address' = 0
  /\ UNCHANGED <<vars, magic, display, tables, iflag, pic, active_task, reset>>

IdtSetGates ==
  /\ Reaches("idt_set_gate") /\ Return
  /\ idt' = Gates
  /\ UNCHANGED <<vars, magic, display, gdt, gdtr, tr, idtr, iflag, pic, heap, reset>>

OutByte ==
  /\ Reaches("ob") /\ Return
  /\ WritePic(kmain[at].port, kmain[at].value)
  /\ UNCHANGED <<ring, local, obf, cpu, magic, display, tables, iflag, heap>>

LoadIdt ==
  /\ Reaches("load_idt") /\ Return
  /\ idtr' = "kernel"
  /\ UNCHANGED <<vars, magic, display, gdt, gdtr, tr, idt, iflag, pic, heap, reset>>

(* The boot task's block is the next one of the heap. *)
TaskInit ==
  /\ Reaches("task_init") /\ Return
  /\ free_memory_address' = free_memory_address + 1
  /\ active_task' = free_memory_address + 1
  /\ UNCHANGED <<vars, magic, display, tables, iflag, pic, reset>>

(* Calls that print, or whose effects are in Vfs and KernelTests. *)
OtherCall ==
  /\ \E name \in {"vfs_init", "kbd_init", "test_init", "sh_init"} : Reaches(name)
  /\ Return
  /\ UNCHANGED <<vars, setup>>

Sti ==
  /\ Reaches("sti") /\ Return
  /\ iflag' = TRUE
  /\ UNCHANGED <<vars, magic, display, tables, pic, heap, reset>>

(* Nothing was drawn over the kernel.  What a kernel does that was drawn   *)
(* over is not known; here it does nothing more.                           *)
KernelIntact == \A a \in KernelImage : mem[a] = Was

Kmain ==
  /\ KernelIntact
  /\ \/ GraphicsInit \/ Clear \/ DrawRect \/ CheckMagic \/ GdtInit \/ MemInit
     \/ IdtSetGates \/ OutByte \/ LoadIdt \/ TaskInit \/ OtherCall \/ Sti

-----------------------------------------------------------------------------
(* The shell, the handlers and the hardware. *)

(* The command clear, between two calls of getchar. *)
ShellClear ==
  /\ InShell /\ cpu = "main" /\ pc = "caller" /\ graphics_mode
  /\ WipeScreen
  /\ UNCHANGED <<vars, at, magic, mbt, graphics_mode, tables, iflag, pic, heap, reset>>

Shell == InShell /\ Thread /\ UNCHANGED <<at, setup>>

TimerStep == TimerHandler /\ UNCHANGED <<at, setup>>
StubStep  == IsrStub /\ UNCHANGED <<at, setup>>
KbdStep   == (KbdRead \/ KbdEoi) /\ UNCHANGED <<at, setup>>

Ticks == Tick /\ UNCHANGED <<at, setup>>
Types(sc) == KeyPress(sc) /\ UNCHANGED <<at, setup>>

(* Any other line rises, or the keyboard's without a byte. *)
OtherRequest ==
  /\ \/ SpuriousKbd
     \/ /\ DEVICE \notin irr
        /\ irr' = irr \cup {DEVICE}
        /\ UNCHANGED <<kbd_buff, buff_ridx, buff_widx, obf, isr, cpu, pc, c, ret>>
  /\ UNCHANGED <<at, setup>>

(* The boot loader leaves interrupts off (start also says so) and the PIC  *)
(* as the BIOS has set it up; keys may have been pressed.  A loader that   *)
(* is not a multiboot one leaves anything where mbt points to, and kmain   *)
(* reads it, and draws, before it looks at the magic number.               *)
BootInit ==
  /\ kbd_buff = [i \in Slots |-> NUL] /\ buff_ridx = 0 /\ buff_widx = 0
  /\ cpu = "main" /\ pc = "check" /\ c = NUL /\ ret = NUL
  /\ \/ obf = Empty /\ irr \in SUBSET {TIMER, KBD, DEVICE}
     \/ obf \in Scancodes /\ irr \in {{KBD} \cup lines : lines \in SUBSET {TIMER, DEVICE}}
  /\ isr = {}
  /\ at = 1 /\ magic \in BOOLEAN
  /\ mbt \in IF magic THEN Framebuffers ELSE Framebuffers \cup Garbage
  /\ graphics_mode = FALSE /\ mem = [a \in RAM |-> Was]
  /\ gdt = [i \in 0 .. 5 |-> Descriptor(Zero, Zero, 0, 0)]
  /\ gdtr = "loader" /\ tr = None
  /\ idt = [v \in 0 .. IDT_SIZE-1 |-> [base |-> None, sel |-> 0, flags |-> 0]]
  /\ idtr = "loader" /\ iflag = FALSE
  /\ pic = [chip \in {"master", "slave"} |->
              [base |-> IF chip = "master" THEN 8 ELSE 112, mask |-> {},
               awaits |-> <<>>, mode |-> 1]]
  /\ free_memory_address = 0 /\ active_task = 0
  /\ reset = "no"

BootNext ==
  \/ Kmain
  \/ Shell \/ ShellClear
  \/ KbdStep \/ TimerStep \/ StubStep
  \/ \E irq \in 0 .. 7 : Accept(irq)
  \/ AcceptSpurious
  \/ Ticks \/ OtherRequest
  \/ \E sc \in Scancodes : Types(sc)

BootSpec == BootInit /\ [][BootNext]_bootVars

(* As in Keyboard; and kmain gets on. *)
BootFairness ==
  /\ WF_bootVars(Kmain)
  /\ WF_bootVars(Ticks)
  /\ WF_bootVars(Accept(TIMER))
  /\ SF_bootVars(TimerStep /\ TIMER \notin irr)
  /\ SF_bootVars(Accept(KBD))
  /\ WF_bootVars(KbdStep) /\ WF_bootVars(TimerStep) /\ WF_bootVars(StubStep)
  /\ SF_bootVars(Shell)

FairBootSpec == BootSpec /\ BootFairness

-----------------------------------------------------------------------------
(* Properties. *)

Chip == [base : 0 .. 255, mask : SUBSET (0 .. 7), mode : 0 .. 255,
         awaits : {<<>>, <<"mode">>, <<"cascade", "mode">>, <<"base", "cascade", "mode">>}]

BootTypeOK ==
  /\ at \in 0 .. Len(kmain) /\ magic \in BOOLEAN
  /\ kbd_buff \in [Slots -> Chars \cup {NUL}]
  /\ buff_ridx \in Slots /\ buff_widx \in Slots
  /\ obf \in Scancodes \cup {Empty}
  /\ irr \subseteq {TIMER, KBD, DEVICE} /\ isr \subseteq {TIMER, KBD}
  /\ cpu \in {"main", "halted", "kbd_handler", "kbd_eoi", "timer_handler", "isr_stub"}
  /\ pc \in {"check", "hlt", "load", "store", "caller"}
  /\ mbt \in Framebuffers \cup Garbage /\ (magic => mbt \in Framebuffers)
  /\ graphics_mode \in BOOLEAN
  /\ mem \in [RAM -> {Was, Black, Red, Green, Blue}]
  /\ pic \in [{"master", "slave"} -> Chip]
  /\ iflag \in BOOLEAN /\ reset \in {"no", "clean", "lost"}
  /\ free_memory_address \in Nat /\ active_task \in Nat

(* What boot sets up is what Keyboard takes for granted: its initial       *)
(* state, two lines and no other, each at its handler, with interrupts off *)
(* till then.  Seen from Keyboard, keys and ticks begin when idt_init      *)
(* initialises the PIC; a byte that lies in port 0x60 at this moment is    *)
(* not seen at all.                                                        *)
SeenByte  == IF reset = "clean" THEN obf ELSE Empty
SeenLines == IF reset = "no" THEN {} ELSE irr \cap {TIMER, KBD}

Driver == INSTANCE Keyboard WITH obf <- SeenByte, irr <- SeenLines

KeyboardSpec == Driver!Spec

(* The one way to silence the keyboard: a byte that was in port 0x60 when  *)
(* the PIC was initialised.  Every other waits with a request latched, or  *)
(* has its handler running, from power-on to the shell.                    *)
StuckOnlyIfLost ==
  (obf # Empty /\ reset # "lost") => (KBD \in irr \/ cpu = "kbd_handler")

(* A key pressed at any time, also while the kernel boots, is taken from   *)
(* port 0x60, unless it was there when the PIC was initialised or the      *)
(* loader is not a multiboot one, so that kmain gives up.                  *)
EveryKeyTaken == (obf # Empty) ~> (obf = Empty \/ reset = "lost" \/ ~magic)

(* On the pixels that graphics_clear reaches the screen shows what was     *)
(* drawn, rectangles cut off at its edges; a screen is what a multiboot    *)
(* loader calls one.                                                       *)
Screen ==
  IF magic /\ Supported(mbt) THEN Picture(mem, mbt, Reached(mbt)) ELSE <<>>
Drawn      == {i \in DOMAIN kmain : kmain[i].call = "draw_rect_full"}
Rectangles == {kmain[i].rect : i \in Drawn}

Shown == INSTANCE Canvas WITH
  Colors <- {Black, Red, Green, Blue}, picture <- Screen

CanvasSpec == Shown!Spec

(* With a multiboot loader nothing is written outside the frame buffer;    *)
(* with any other nothing, unless what mbt points to has the looks of one  *)
(* that the driver can use.                                                *)
OnlyFramebufferWritten ==
  \A a \in RAM :
    mem[a] # Was =>
      /\ Supported(mbt)
      /\ magic => a \in mbt.addr .. mbt.addr + mbt.height * mbt.pitch - 1

(* From gdt_init on: code and data segments start at 0 and cover all of    *)
(* memory (2^20 pages); the task register's segment holds all of tss.      *)
SegmentsCover ==
  gdtr = "kernel" =>
    /\ IsCode(Selected(8)) /\ IsData(Selected(16))
    /\ \A selector \in {8, 16} :
         /\ BaseOf(Selected(selector)) = Zero
         /\ LimitOf(Selected(selector)) = 16 * HALF - 1 /\ InPages(Selected(selector))
    /\ BaseOf(Selected(tr)) = TssAddress
    /\ LimitOf(Selected(tr)) >= TssSize - 1 /\ ~InPages(Selected(tr))

(* mem_init runs twice; the boot task's block is never given out again.    *)
BootTaskKept == active_task # 0 => active_task <= free_memory_address

(* Without a multiboot loader the tables, the interrupt controllers and    *)
(* the interrupt flag stay as they were found, unless the kernel has drawn *)
(* over itself before it notices.                                          *)
BadMagicInert ==
  ~magic /\ KernelIntact =>
    /\ ~iflag /\ gdtr = "loader" /\ idtr = "loader"
    /\ pic.master.base = 8 /\ reset = "no"
=============================================================================
