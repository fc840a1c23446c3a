------------------------------ MODULE LineEdit ------------------------------
(***************************************************************************)
(* What the shell promises the user at the keyboard: a line of at most     *)
(* Capacity characters to type into and erase from, and that a command is  *)
(* run exactly on the line as it stands when Enter is pressed.             *)
(***************************************************************************)
EXTENDS Naturals, Sequences

CONSTANTS LineChars, Capacity

VARIABLES
  line,      (* the line being edited                                      *)
  submitted  (* the line the last command was run on                       *)

vars == <<line, submitted>>

Init == line = <<>> /\ submitted = <<>>

Type(c) ==
  /\ Len(line) < Capacity
  /\ line' = Append(line, c)
  /\ UNCHANGED submitted

Erase ==
  /\ line # <<>>
  /\ line' = SubSeq(line, 1, Len(line) - 1)
  /\ UNCHANGED submitted

Enter ==
  /\ line # <<>>
  /\ submitted' = line
  /\ line' = <<>>

Next == (\E c \in LineChars : Type(c)) \/ Erase \/ Enter

Spec == Init /\ [][Next]_vars
=============================================================================
