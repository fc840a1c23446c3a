------------------------------ MODULE Keyboard ------------------------------
(***************************************************************************)
(* The keyboard path of the kernel, from the controller to the shell:      *)
(* the interrupt handler that fills the ring buffer (kbd.cpp), the stubs   *)
(* that the IDT points at (boot.asm), the timer handler that shares the    *)
(* interrupt controller with it (idt.cpp), and getchar, which the shell    *)
(* calls with interrupts enabled and which therefore races with both.      *)
(*                                                                         *)
(* IDT entries 32 and 33 are interrupt gates (0x8E): the CPU clears IF on  *)
(* entry, so a handler is never interrupted.  It is still split where the  *)
(* hardware can act: a new byte may arrive once port 0x60 has been read,   *)
(* before the end-of-interrupt is sent.  getchar is split at every access  *)
(* to what the handler shares with it.                                     *)
(***************************************************************************)
EXTENDS Integers

CONSTANTS
  KBD_BUFF,           (* slots of the ring buffer                          *)
  Scancodes,          (* bytes the keyboard may send                       *)
  TableSize,          (* sizeof(scancode_to_ascii)                         *)
  scancode_to_ascii,  (* the table: 0 .. TableSize-1 to a character or NUL *)
  Chars,              (* the characters in the table                       *)
  NUL,                (* '\0': the key has no character                    *)
  Empty               (* port 0x60 holds no byte                           *)

ASSUME KeyboardAssumption ==
  /\ KBD_BUFF \in Nat \ {0}
  /\ TableSize \in Nat
  /\ Scancodes \subseteq Nat
  /\ Empty \notin Scancodes
  /\ NUL \notin Chars
  /\ scancode_to_ascii \in [0 .. TableSize-1 -> Chars \cup {NUL}]

VARIABLES
  kbd_buff, buff_ridx, buff_widx,  (* the ring buffer and its two indices  *)
  obf,  (* the controller's output register: a scancode or Empty           *)
  irr,  (* PIC: interrupt lines with a latched request                     *)
  isr,  (* PIC: interrupt lines in service                                 *)
  cpu,  (* what the CPU runs: the kernel's thread or a handler             *)
  pc,   (* where the kernel's thread is in getchar                         *)
  c,    (* getchar's local                                                 *)
  ret   (* what getchar last returned                                      *)

ring  == <<kbd_buff, buff_ridx, buff_widx>>
local == <<pc, c, ret>>
vars  == <<kbd_buff, buff_ridx, buff_widx, obf, irr, isr, cpu, pc, c, ret>>

TIMER == 0  \* IRQ 0, vector 32
KBD   == 1  \* IRQ 1, vector 33: the only two lines idt_init unmasks

Handler == [irq \in {TIMER, KBD} |->
              IF irq = TIMER THEN "timer_handler" ELSE "kbd_handler"]

Slots == 0 .. KBD_BUFF-1

Init ==
  /\ kbd_buff = [i \in Slots |-> NUL]
  /\ buff_ridx = 0 /\ buff_widx = 0
  /\ obf = Empty /\ irr = {} /\ isr = {}
  /\ cpu = "main" /\ pc = "check"
  /\ c = NUL /\ ret = NUL

-----------------------------------------------------------------------------
(* The hardware. *)

(* A byte arrives at port 0x60: the line rises and the PIC latches it. *)
KeyPress(sc) ==
  /\ obf = Empty
  /\ obf' = sc
  /\ irr' = irr \cup {KBD}
  /\ UNCHANGED <<kbd_buff, buff_ridx, buff_widx, isr, cpu, pc, c, ret>>

(* A request with no byte behind it: what the handler's status test is for.*)
SpuriousKbd ==
  /\ obf = Empty /\ KBD \notin irr
  /\ irr' = irr \cup {KBD}
  /\ UNCHANGED <<kbd_buff, buff_ridx, buff_widx, obf, isr, cpu, pc, c, ret>>

(* The periodic timer. *)
Tick ==
  /\ TIMER \notin irr
  /\ irr' = irr \cup {TIMER}
  /\ UNCHANGED <<kbd_buff, buff_ridx, buff_widx, obf, isr, cpu, pc, c, ret>>

(* A halted CPU wakes up: the handler will return behind the hlt, to the   *)
(* test of the loop.                                                       *)
WakeUp == pc' = IF cpu = "halted" THEN "check" ELSE pc

(* The CPU accepts the request of highest priority, unless a line of the   *)
(* same or of higher priority is in service.                               *)
Interrupt(irq) ==
  /\ cpu \in {"main", "halted"}
  /\ irq \in irr
  /\ \A other \in irr : irq <= other
  /\ \A other \in isr : irq < other
  /\ irr' = irr \ {irq}
  /\ isr' = isr \cup {irq}
  /\ cpu' = Handler[irq]
  /\ WakeUp
  /\ UNCHANGED <<kbd_buff, buff_ridx, buff_widx, obf, c, ret>>

(* A request that is gone when the CPU acknowledges it: the PIC answers    *)
(* with its lowest line, 7, and takes nothing into service.  Vector 39 has *)
(* the generic handler.                                                    *)
SpuriousIrq7 ==
  /\ cpu \in {"main", "halted"} /\ irr = {}
  /\ cpu' = "isr_stub"
  /\ WakeUp
  /\ UNCHANGED <<kbd_buff, buff_ridx, buff_widx, obf, irr, isr, c, ret>>

(* Slip: the handler forgets ob(0x20, 0x20). *)
NoEndOfInterrupt == isr' = isr

(* ob(0x20, 0x20): a non-specific end of interrupt. *)
EndOfInterrupt == isr' = {irq \in isr : \E other \in isr : other < irq}

-----------------------------------------------------------------------------
(* The handlers. *)

(* Slip: the index is not wrapped. *)
NextSlotUnwrapped(i) == i + 1

NextSlot(i) == (i + 1) % KBD_BUFF

(* Slips: no test for a full ring; a test that gives up one slot too early.*)
AlwaysRoom  == TRUE
EarlyNoRoom == buff_ridx \notin {NextSlot(buff_widx), NextSlot(NextSlot(buff_widx))}

(* next_idx != buff_ridx *)
HasRoom == NextSlot(buff_widx) # buff_ridx

(* The character of a scancode; releases and keys without one give NUL. *)
Ascii(sc) == IF sc > 0 /\ sc < TableSize THEN scancode_to_ascii[sc] ELSE NUL

(* Slip: a key without a character is stored as '\0'. *)
AnyIsChar(a) == TRUE

IsChar(a) == a # NUL

(* Slip: the port is read only when the ring has room for the byte. *)
ReadDataIfRoom == obf' = IF HasRoom THEN Empty ELSE obf

(* ib(KBD_DATA): reading port 0x60 frees it. *)
ReadData == obf' = Empty

(* kbd_handler_main up to the end of the outer if. *)
KbdRead ==
  /\ cpu = "kbd_handler"
  /\ cpu' = "kbd_eoi"
  /\ IF obf = Empty
     THEN UNCHANGED <<obf, kbd_buff, buff_widx>>
     ELSE /\ ReadData
          /\ IF IsChar(Ascii(obf)) /\ HasRoom
             THEN /\ kbd_buff' = [kbd_buff EXCEPT ![buff_widx] = Ascii(obf)]
                  /\ buff_widx' = NextSlot(buff_widx)
             ELSE UNCHANGED <<kbd_buff, buff_widx>>
  /\ UNCHANGED <<buff_ridx, irr, isr, pc, c, ret>>

(* Slip: kbd_handler_main returns without the end of interrupt. *)
KbdNoEoi ==
  /\ cpu = "kbd_eoi"
  /\ cpu' = "main"
  /\ UNCHANGED <<kbd_buff, buff_ridx, buff_widx, obf, irr, isr, pc, c, ret>>

(* Its last statement, and the stub's iretd. *)
KbdEoi ==
  /\ cpu = "kbd_eoi"
  /\ cpu' = "main"
  /\ EndOfInterrupt
  /\ UNCHANGED <<kbd_buff, buff_ridx, buff_widx, obf, irr, pc, c, ret>>

(* Slip: timer_handler_main returns without the end of interrupt. *)
TimerNoEoi ==
  /\ cpu = "timer_handler"
  /\ cpu' = "main"
  /\ UNCHANGED <<kbd_buff, buff_ridx, buff_widx, obf, irr, isr, pc, c, ret>>

(* timer_handler_main: end of interrupt, then the scheduler, which returns *)
(* at once because the boot task is the only one (its next is NULL).       *)
TimerHandler ==
  /\ cpu = "timer_handler"
  /\ cpu' = "main"
  /\ EndOfInterrupt
  /\ UNCHANGED <<kbd_buff, buff_ridx, buff_widx, obf, irr, pc, c, ret>>

(* isr_stub and fault_handler, which sends an end of interrupt for         *)
(* whatever brought it here.                                               *)
IsrStub ==
  /\ cpu = "isr_stub"
  /\ cpu' = "main"
  /\ EndOfInterrupt
  /\ UNCHANGED <<kbd_buff, buff_ridx, buff_widx, obf, irr, pc, c, ret>>

-----------------------------------------------------------------------------
(* getchar. *)

Check ==
  /\ cpu = "main" /\ pc = "check"
  /\ pc' = IF buff_ridx = buff_widx THEN "hlt" ELSE "load"
  /\ UNCHANGED <<kbd_buff, buff_ridx, buff_widx, obf, irr, isr, cpu, c, ret>>

Halt ==
  /\ cpu = "main" /\ pc = "hlt"
  /\ cpu' = "halted"
  /\ UNCHANGED <<kbd_buff, buff_ridx, buff_widx, obf, irr, isr, pc, c, ret>>

Load ==
  /\ cpu = "main" /\ pc = "load"
  /\ c' = kbd_buff[buff_ridx]
  /\ pc' = "store"
  /\ UNCHANGED <<kbd_buff, buff_ridx, buff_widx, obf, irr, isr, cpu, ret>>

Store ==
  /\ cpu = "main" /\ pc = "store"
  /\ buff_ridx' = NextSlot(buff_ridx)
  /\ ret' = c
  /\ pc' = "caller"
  /\ UNCHANGED <<kbd_buff, buff_widx, obf, irr, isr, cpu, c>>

(* The shell has dealt with the character and asks for the next one. *)
Call ==
  /\ cpu = "main" /\ pc = "caller"
  /\ pc' = "check"
  /\ UNCHANGED <<kbd_buff, buff_ridx, buff_widx, obf, irr, isr, cpu, c, ret>>

Thread == Check \/ Halt \/ Load \/ Store \/ Call

Next ==
  \/ \E sc \in Scancodes : KeyPress(sc)
  \/ SpuriousKbd
  \/ Tick
  \/ \E irq \in {TIMER, KBD} : Interrupt(irq)
  \/ SpuriousIrq7
  \/ KbdRead \/ KbdEoi \/ TimerHandler \/ IsrStub
  \/ Thread

Spec == Init /\ [][Next]_vars

(***************************************************************************)
(* The timer is periodic and the CPU does not stop inside a handler.       *)
(* Strong fairness says that interrupts leave time for the rest: a handler *)
(* is a few dozen instructions and the timer's period is 55 ms, so that    *)
(* again and again the timer handler ends before the next tick, the        *)
(* keyboard's line gets its turn, and the thread takes a step.  Nobody has *)
(* to press a key.                                                         *)
(***************************************************************************)
Fairness ==
  /\ WF_vars(Tick)
  /\ WF_vars(Interrupt(TIMER))
  /\ SF_vars(TimerHandler /\ TIMER \notin irr)
  /\ SF_vars(Interrupt(KBD))
  /\ WF_vars(KbdRead) /\ WF_vars(KbdEoi) /\ WF_vars(TimerHandler)
  /\ WF_vars(IsrStub)
  /\ SF_vars(Thread)

FairSpec == Spec /\ Fairness

-----------------------------------------------------------------------------
(* Properties. *)

TypeOK ==
  /\ kbd_buff \in [Slots -> Chars \cup {NUL}]
  /\ buff_ridx \in Slots /\ buff_widx \in Slots
  /\ obf \in Scancodes \cup {Empty}
  /\ irr \subseteq {TIMER, KBD} /\ isr \subseteq {TIMER, KBD}
  /\ cpu \in {"main", "halted", "kbd_handler", "kbd_eoi", "timer_handler",
              "isr_stub"}
  /\ pc \in {"check", "hlt", "load", "store", "caller"}
  /\ c \in Chars \cup {NUL} /\ ret \in Chars \cup {NUL}

(* The number of unread characters, and the characters, oldest first. *)
Unread == (buff_widx - buff_ridx) % KBD_BUFF
UnreadChars ==
  [i \in 1 .. Unread |-> kbd_buff[(buff_ridx + i - 1) % KBD_BUFF]]

(* The keyboard cannot get stuck: a byte waiting at port 0x60 always has a *)
(* request latched for it, or a handler that is about to read it.  The     *)
(* line only rises again once the byte has been read, so a byte left there *)
(* without a request would silence the keyboard for good.                  *)
NoStuckByte == obf # Empty => (KBD \in irr \/ cpu = "kbd_handler")

(* A PIC line is in service exactly while its handler has yet to send the  *)
(* end of interrupt; with a missing or doubled one, the line and those     *)
(* below it would stay blocked, or a request would nest.                   *)
InServiceWhileHandled ==
  isr = CASE cpu \in {"kbd_handler", "kbd_eoi"} -> {KBD}
          [] cpu = "timer_handler"              -> {TIMER}
          [] OTHER                              -> {}

(* getchar acts on a test that may be stale: between the test and the      *)
(* read, and between the read of the slot and the move of buff_ridx, the   *)
(* handler may have run any number of times.  What it relies on is still   *)
(* true: there is an unread character, and the slot still holds what c was *)
(* loaded from it.                                                         *)
ReaderSlotStable ==
  /\ pc \in {"load", "store"} => buff_ridx # buff_widx
  /\ pc = "store" => c = kbd_buff[buff_ridx]

(* Every unread slot holds a character of the table, never NUL: the shell  *)
(* builds C strings from what getchar returns.                             *)
UnreadAreChars == \A i \in 1 .. Unread : UnreadChars[i] \in Chars

(* The driver implements the bounded queue: order, no duplicate, no loss   *)
(* but on a full queue of KBD_BUFF-1 characters.                           *)
Queue == INSTANCE KeyQueue WITH
  Keys <- Scancodes, NoKey <- Empty, CharOf <- Ascii, Capacity <- KBD_BUFF-1,
  key <- obf, queue <- UnreadChars, last <- ret

QueueSpec == Queue!Spec

(* An interrupt between getchar's test and its hlt leaves the CPU halted   *)
(* with a character available.  Whatever the wait missed, the oldest       *)
(* unread character is read eventually.                                    *)
EveryCharRead ==
  \A i \in Slots :
    (buff_ridx = i /\ buff_ridx # buff_widx) ~> (buff_ridx # i)

(* Every byte the keyboard sends is taken from port 0x60 eventually. *)
EveryByteTaken == (obf # Empty) ~> (obf = Empty)
=============================================================================
