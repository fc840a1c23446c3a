------------------------------ MODULE Teletype ------------------------------
(***************************************************************************)
(* What the console promises: a roll of paper.  Text is a sequence of rows *)
(* of W cells that only grows at its end; characters go to the last row,   *)
(* a full row or a newline starts the next one, a backspace erases the     *)
(* last character of the row, and clear takes a new roll.                  *)
(***************************************************************************)
EXTENDS Integers, Sequences

CONSTANTS W, Printable, Attrs, SPACE, DEFAULT

VARIABLES text, col

vars == <<text, col>>

BlankRow == [x \in 0 .. W-1 |-> [ch |-> SPACE, attr |-> DEFAULT]]

Init == text = <<BlankRow>> /\ col = 0

Type(c, attr) ==
  LET typed == [text EXCEPT ![Len(text)][col] = [ch |-> c, attr |-> attr]]
  IN  IF col + 1 < W THEN text' = typed /\ col' = col + 1
                     ELSE text' = Append(typed, BlankRow) /\ col' = 0

Newline == text' = Append(text, BlankRow) /\ col' = 0

Erase(attr) ==
  /\ col > 0
  /\ text' = [text EXCEPT ![Len(text)][col - 1] = [ch |-> SPACE, attr |-> attr]]
  /\ col' = col - 1

Clear == text' = <<BlankRow>> /\ col' = 0

Next ==
  \/ \E attr \in Attrs : Erase(attr) \/ \E c \in Printable : Type(c, attr)
  \/ Newline
  \/ Clear

Spec == Init /\ [][Next]_vars
=============================================================================
