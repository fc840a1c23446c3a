------------------------------- MODULE Screen -------------------------------
(***************************************************************************)
(* The console driven by arbitrary calls of print_char, print_char_color   *)
(* and clear, with a history variable for the rows that have been scrolled *)
(* off, from which the abstract text is put together again.                *)
(***************************************************************************)
EXTENDS Console

CONSTANTS PrintChars,    (* characters printed                             *)
          PrintAttrs     (* attribute bytes of print_char_color            *)

ASSUME ScreenAssumption ==
  /\ PrintChars \subseteq Nat
  /\ PrintAttrs \subseteq Attrs

VARIABLES
  con,                   (* the console                                    *)
  above                  (* history: rows scrolled off since the last clear*)

vars == <<con, above>>

Row(k, y) == [x \in 0 .. W-1 |-> k.vmem[y * W + x]]

(* Init is the state after kmain's clear. *)
Init ==
  /\ con = [vmem |-> [i \in Index |-> Blank], cx |-> 0, cy |-> 0, hw |-> 0]
  /\ above = <<>>

print_char_color(c, attr) ==
  LET full == Wrap(Place(con, c, attr))
  IN  /\ con' = Put(con, c, attr)
      /\ above' = IF full.cy < H THEN above ELSE Append(above, Row(full, 0))

print_char(c) == print_char_color(c, DEFAULT)

clear ==
  /\ con' = Clear(con)
  /\ above' = <<>>

Next ==
  \/ \E c \in PrintChars : print_char(c)
  \/ \E c \in PrintChars, attr \in PrintAttrs : print_char_color(c, attr)
  \/ clear

Spec == Init /\ [][Next]_vars

-----------------------------------------------------------------------------

(* Between two calls the cursor is on the screen: every index that         *)
(* print_char and scroll compute lies inside the video memory.             *)
TypeOK ==
  /\ con \in Consoles
  /\ con.cx \in 0 .. W-1 /\ con.cy \in 0 .. H-1
  /\ above \in Seq([0 .. W-1 -> Cells])

(* The rows below the cursor's are blank, so that a line that starts there *)
(* is not mixed with old text.                                             *)
BelowBlank == \A y \in con.cy + 1 .. H-1, x \in 0 .. W-1 : Row(con, y)[x] = Blank

(* The screen is the end of an endless text: scrolling neither loses nor   *)
(* repeats a row, a full row and a newline never skip one, and nothing     *)
(* but a backspace rewrites a cell.                                        *)
Paper == INSTANCE Teletype WITH
  Printable <- Printable \cap PrintChars, Attrs <- PrintAttrs \cup {DEFAULT},
  text <- above \o [y \in 1 .. con.cy + 1 |-> Row(con, y - 1)],
  col  <- con.cx

PaperSpec == Paper!Spec
=============================================================================
