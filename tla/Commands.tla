------------------------------ MODULE Commands ------------------------------
(***************************************************************************)
(* How sh.cpp recognises a command: its string functions, read over the    *)
(* memory m of cmd_buffer, and the order of handle_cmd's tests.  A byte is *)
(* a number; a literal is the sequence of its bytes.                       *)
(***************************************************************************)
EXTENDS Ascii, Integers, SequencesExt

CONSTANT MAX_CMD_LENGTH   (* bytes of cmd_buffer, 256 in the code          *)

(* The longest command fits. *)
ASSUME CommandsAssumption == MAX_CMD_LENGTH \in Nat /\ MAX_CMD_LENGTH >= 10

Mem == 0 .. MAX_CMD_LENGTH - 1

(* The byte i of a literal, its terminator included. *)
Lit(s, i) == IF i < Len(s) THEN s[i + 1] ELSE NUL

(* Where the loop of strcomp_n stops: the index n, or the first difference *)
(* or terminator before it.  strcomp has no n and stops at the literal's   *)
(* terminator at the latest.                                               *)
Stop(m, s, n) ==
  CHOOSE i \in 0 .. n :
    /\ i = n \/ m[i] = NUL \/ m[i] # Lit(s, i)
    /\ \A j \in 0 .. i-1 : m[j] # NUL /\ m[j] = Lit(s, j)

strcomp(m, s) ==
  LET i == Stop(m, s, Len(s)) IN m[i] = Lit(s, i)

(* A mismatch counts as equal when the bytes differ by two: == 2. *)
strcomp_n(m, s, n) ==
  LET i == Stop(m, s, n) IN i = n \/ m[i] - Lit(s, i) = 2

(* The C string at address a; a string that is not terminated inside the   *)
(* buffer is cut at its end.                                               *)
CString(m, a) ==
  LET e == CHOOSE i \in a .. MAX_CMD_LENGTH :
             /\ i = MAX_CMD_LENGTH \/ m[i] = NUL
             /\ \A j \in a .. i-1 : m[j] # NUL
  IN  [i \in 1 .. e - a |-> m[a + i - 1]]

(* The tests of handle_cmd in their order.  A command with n = 0 is tested *)
(* with strcomp, the others with strcomp_n; their argument is the string n *)
(* bytes into the command.                                                 *)
Cmd(kind, text, n) == [kind |-> kind, text |-> text, n |-> n]

CLEAR == Cmd("clear", <<99, 108, 101, 97, 114>>, 0)
CAT   == Cmd("cat",   <<99, 97, 116, SPACE>>, 4)
HELP  == Cmd("help",  <<104, 101, 108, 112>>, 0)
LS    == Cmd("ls",    <<108, 115>>, 0)
TEST  == Cmd("test",  <<116, 101, 115, 116>>, 0)
TLIST == Cmd("test list", <<116, 101, 115, 116, SPACE, 108, 105, 115, 116>>, 0)
TRUN  == Cmd("test run",  <<116, 101, 115, 116, SPACE>>, 5)
OTHER_CMD == Cmd("not found", <<>>, 0)

(* Slip: the general test comes first. *)
TestRunFirst == <<CLEAR, CAT, HELP, LS, TEST, TRUN, TLIST>>

CommandTable == <<CLEAR, CAT, HELP, LS, TEST, TLIST, TRUN>>

Matches(m, cmd) ==
  IF cmd.n = 0 THEN strcomp(m, cmd.text) ELSE strcomp_n(m, cmd.text, cmd.n)

(* handle_cmd: what it runs, and the argument it hands over. *)
Dispatch(m) ==
  LET matching == {i \in DOMAIN CommandTable : Matches(m, CommandTable[i])}
      cmd == IF matching = {} THEN OTHER_CMD ELSE CommandTable[Min(matching)]
  IN  [kind |-> cmd.kind, arg |-> CString(m, cmd.n)]
=============================================================================
