------------------------------- MODULE Shell -------------------------------
(***************************************************************************)
(* sh_loop: one action per iteration, for the character that getchar       *)
(* returned.  Interrupts only touch the keyboard's ring (see Keyboard), so *)
(* that an iteration is one step.  A command is recognised by Dispatch on  *)
(* the bytes that cmd_buffer holds, old ones included.                     *)
(***************************************************************************)
EXTENDS Commands

CONSTANTS
  Typed,       (* characters the keyboard driver delivers: never NUL       *)
  Garbage      (* what a byte of the stack may hold when sh_loop starts    *)

ASSUME ShellAssumption ==
  /\ Typed \subseteq 1 .. 127
  /\ Garbage \subseteq 0 .. 255

VARIABLES
  cmd_buffer,
  buff_pos,
  ran          (* the last call of handle_cmd: the string and what it did  *)

shell == <<cmd_buffer, buff_pos, ran>>

Init ==
  /\ \E junk \in Garbage : cmd_buffer = [i \in Mem |-> junk]
  /\ buff_pos = 0
  /\ ran = [cmd |-> <<>>, kind |-> "none", arg |-> <<>>]

(* Slip: the terminator is forgotten. *)
NotTerminated == cmd_buffer

(* cmd_buffer with its terminator written. *)
Terminated == [cmd_buffer EXCEPT ![buff_pos] = NUL]

Enter(c) ==
  /\ c \in {NL, CR}
  /\ IF buff_pos > 0
     THEN /\ cmd_buffer' = Terminated
          /\ LET did == Dispatch(Terminated)
             IN  ran' = [cmd |-> CString(Terminated, 0), kind |-> did.kind, arg |-> did.arg]
          /\ buff_pos' = 0
     ELSE UNCHANGED shell

Backspace(c) ==
  /\ c = BS
  /\ buff_pos' = IF buff_pos > 0 THEN buff_pos - 1 ELSE buff_pos
  /\ UNCHANGED <<cmd_buffer, ran>>

(* Slip: the last byte is not kept for the terminator. *)
HasSpaceForNul == buff_pos < MAX_CMD_LENGTH

HasSpace == buff_pos < MAX_CMD_LENGTH - 1

Insert(c) ==
  /\ c \notin {NL, CR, BS}
  /\ IF HasSpace
     THEN /\ cmd_buffer' = [cmd_buffer EXCEPT ![buff_pos] = c]
          /\ buff_pos' = buff_pos + 1
     ELSE UNCHANGED <<cmd_buffer, buff_pos>>
  /\ UNCHANGED ran

Key(c) == Enter(c) \/ Backspace(c) \/ Insert(c)

Next == \E c \in Typed : Key(c)

Spec == Init /\ [][Next]_shell

-----------------------------------------------------------------------------

(* buff_pos always leaves room for the terminator. *)
TypeOK ==
  /\ cmd_buffer \in [Mem -> 0 .. 255]
  /\ buff_pos \in Mem
  /\ ran.cmd \in Seq(0 .. 255) /\ ran.arg \in Seq(0 .. 255)
  /\ ran.kind \in {CommandTable[i].kind : i \in DOMAIN CommandTable} \cup {"none", "not found"}

(* The line being edited. *)
TypedLine == [i \in 1 .. buff_pos |-> cmd_buffer[i - 1]]

(* The buffer implements the editable line, and handle_cmd gets the line   *)
(* as it was typed: no byte of an earlier line, none lost at the limit.    *)
Line == INSTANCE LineEdit WITH
  LineChars <- Typed \ {NL, CR, BS}, Capacity <- MAX_CMD_LENGTH - 1,
  line <- TypedLine, submitted <- ran.cmd

LineSpec == Line!Spec

(* What a line means to a reader of the help text: the first command whose *)
(* text it is, or, for a command with an argument, begins with.            *)
Means(line, cmd) ==
  IF cmd.n = 0 THEN line = cmd.text ELSE IsPrefix(cmd.text, line)

(* A line that is a command reaches that command with the rest of the line *)
(* as its argument; "test list" is not taken for a test's number.          *)
CommandsRun ==
  \A cmd \in {CLEAR, CAT, HELP, LS, TEST, TLIST, TRUN} :
    Means(ran.cmd, cmd) /\ ~(cmd = TRUN /\ Means(ran.cmd, TLIST)) =>
      /\ ran.kind = cmd.kind
      /\ cmd.n > 0 => ran.arg = SubSeq(ran.cmd, cmd.n + 1, Len(ran.cmd))

(* README.md: cat is not recognized without a space after it. *)
CatNeedsSpace == ran.kind = "cat" => IsPrefix(CAT.text, ran.cmd)
=============================================================================
