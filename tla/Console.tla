------------------------------ MODULE Console ------------------------------
(***************************************************************************)
(* The text console of kernel.cpp as functions from one console state to   *)
(* the next: k.vmem is the video memory, k.cx and k.cy the cursor, k.hw    *)
(* the position last sent to the hardware cursor.  No interrupt handler    *)
(* prints, so a call of print is one step for everybody else.              *)
(*                                                                         *)
(* A character is its code.  char is signed, so that the codes from 128 on *)
(* are negative and fail the test c >= ' '.                                *)
(***************************************************************************)
EXTENDS Ascii, Integers, SequencesExt

CONSTANTS W, H           (* columns and rows, 80 and 25 in the code        *)

(* The two bytes that update_cursor sends hold a position.                 *)
Positions == 65536

ASSUME ConsoleAssumption ==
  /\ W \in Nat \ {0}
  /\ H \in Nat \ {0}
  /\ W * H <= Positions

Printable == SPACE .. 127
Attrs == 0 .. 255
DEFAULT == 7             \* attr_byte: light grey on black

Cell(ch, attr) == [ch |-> ch, attr |-> attr]
Blank == Cell(SPACE, DEFAULT)
Cells == [ch : Printable, attr : Attrs]

Index == 0 .. W * H - 1
Pos(k) == k.cy * W + k.cx

Consoles == [vmem : [Index -> Cells], cx : Int, cy : Int, hw : Nat]

(* The branches on c of print_char and print_char_color. *)
Place(k, c, attr) ==
  IF c = BS /\ k.cx > 0 THEN
    [k EXCEPT !.cx = k.cx - 1, !.vmem[Pos(k) - 1] = Cell(SPACE, attr)]
  ELSE IF c = NL THEN
    [k EXCEPT !.cx = 0, !.cy = k.cy + 1]
  ELSE IF c \in Printable THEN
    [k EXCEPT !.cx = k.cx + 1, !.vmem[Pos(k)] = Cell(c, attr)]
  ELSE k

(* Slip: the line is full one character too late. *)
WrapLate(k) == IF k.cx > W THEN [k EXCEPT !.cx = 0, !.cy = k.cy + 1] ELSE k

Wrap(k) == IF k.cx >= W THEN [k EXCEPT !.cx = 0, !.cy = k.cy + 1] ELSE k

(* Slip: the last line is not cleared. *)
ScrollKeepLast(k) ==
  IF k.cy < H THEN k
  ELSE [k EXCEPT !.vmem = [i \in Index |-> IF i < (H-1) * W THEN k.vmem[i + W]
                                                           ELSE k.vmem[i]],
                 !.cy = H - 1]

Scroll(k) ==
  IF k.cy < H THEN k
  ELSE [k EXCEPT !.vmem = [i \in Index |-> IF i < (H-1) * W THEN k.vmem[i + W]
                                                           ELSE Blank],
                 !.cy = H - 1]

UpdateCursor(k) == [k EXCEPT !.hw = Pos(k) % Positions]

(* Slip: the hardware cursor is moved before the screen is scrolled. *)
PutUpdateFirst(k, c, attr) == Scroll(UpdateCursor(Wrap(Place(k, c, attr))))

Put(k, c, attr) == UpdateCursor(Scroll(Wrap(Place(k, c, attr))))

(* print and print_color. *)
PrintString(k, str, attr) ==
  LET after[i \in 0 .. Len(str)] ==
        IF i = 0 THEN k ELSE Put(after[i-1], str[i], attr)
  IN  after[Len(str)]

(* Slip: only the cursor is reset. *)
ClearCursorOnly(k) == [k EXCEPT !.cx = 0, !.cy = 0]

(* clear, in text mode.  The hardware cursor stays where it was. *)
Clear(k) == [k EXCEPT !.vmem = [i \in Index |-> Blank], !.cx = 0, !.cy = 0]
=============================================================================
