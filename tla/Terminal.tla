------------------------------ MODULE Terminal ------------------------------
(***************************************************************************)
(* The shell on its console: what sh_loop prints for each character, next  *)
(* to what it does to its buffer (Shell).  What a command prints is one of *)
(* Outputs; only clear's effect on the screen is modelled.                 *)
(***************************************************************************)
EXTENDS Shell, Console

CONSTANTS
  Prompt,      (* "kurios32> "                                             *)
  Outputs      (* what commands may print                                  *)

ASSUME TerminalAssumption ==
  /\ Prompt \in Seq(Printable) /\ Prompt # <<>>
  /\ Outputs \subseteq Seq(Nat)

VARIABLES
  con,         (* the console                                              *)
  clean        (* history: no key since the prompt that print_char cannot  *)
               (* undo or show (see Erasable)                              *)

vars == <<cmd_buffer, buff_pos, ran, con, clean>>

PutChars(k, str) == PrintString(k, str, DEFAULT)

NewPrompt == <<NL>> \o Prompt

(* Slip: the second step back is forgotten. *)
ErasureNoBack == <<BS, SPACE>>

Erasure == <<BS, SPACE, BS>>

TInit ==
  /\ Init
  /\ con = PutChars([vmem |-> [i \in Index |-> Blank], cx |-> 0, cy |-> 0, hw |-> 0], Prompt)
  /\ clean = TRUE

(* handle_cmd on the console. *)
AfterCommand ==
  IF ran'.kind = "clear" THEN {Clear(con)} ELSE {PutChars(con, out) : out \in Outputs}

TEnter(c) ==
  /\ Enter(c)
  /\ \E k \in (IF buff_pos > 0 THEN AfterCommand ELSE {con}) :
       con' = PutChars(k, NewPrompt)
  /\ clean' = TRUE

(* print_char('\b') does nothing in column 0. *)
TBackspace(c) ==
  /\ Backspace(c)
  /\ con' = IF buff_pos > 0 THEN PutChars(con, Erasure) ELSE con
  /\ clean' = (clean /\ ~(buff_pos > 0 /\ con.cx = 0))

TInsert(c) ==
  /\ Insert(c)
  /\ con' = IF HasSpace THEN PutChars(con, <<c>>) ELSE con
  /\ clean' = (clean /\ (HasSpace => c \in Printable))

TNext == \E c \in Typed : TEnter(c) \/ TBackspace(c) \/ TInsert(c)

TSpec == TInit /\ [][TNext]_vars

-----------------------------------------------------------------------------

(* The cells before the cursor show the prompt and the line that Enter     *)
(* would run, across wrapped lines and as far as it has not scrolled off.  *)
LineShown ==
  LET shown == Prompt \o TypedLine
      first == Pos(con) - Len(shown)
  IN  \A i \in DOMAIN shown :
        first + i - 1 >= 0 => con.vmem[first + i - 1].ch = shown[i]

(* The user sees the line that will be run, unless a key was typed that    *)
(* has no glyph, or the first character of a row was waiting to be typed   *)
(* when the last one of the row above was erased.                          *)
LineShownIfClean == clean => LineShown

(* While the shell waits for a key the hardware cursor blinks where the    *)
(* next character goes, although clear leaves it behind.                   *)
HardwareCursorHere == con.hw = Pos(con)
=============================================================================
