------------------------------- MODULE Canvas -------------------------------
(***************************************************************************)
(* What the graphics driver promises, without memory, addresses or pitch:  *)
(* a picture, that is a colour for every pixel <<x, y>> of a set, which is *)
(* wiped in one colour or gets a rectangle painted over it.                *)
(***************************************************************************)
EXTENDS Integers

CONSTANTS
  Colors,
  Rectangles  (* records with fields x, y, w, h, the upper left pixel first*)

VARIABLE picture

Inside(r, p) == p[1] - r.x \in 0 .. r.w - 1 /\ p[2] - r.y \in 0 .. r.h - 1

Wipe(color) == picture' = [p \in DOMAIN picture |-> color]

Paint(r, color) ==
  picture' = [p \in DOMAIN picture |-> IF Inside(r, p) THEN color ELSE picture[p]]

Next == \E color \in Colors : Wipe(color) \/ \E r \in Rectangles : Paint(r, color)

Spec == [][Next]_picture
=============================================================================
