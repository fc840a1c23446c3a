----------------------------- MODULE MCKeyboard -----------------------------
(* Keyboard on a small ring.  The table has two characters, a key without  *)
(* a character (2) and the unused entry 0; scancode 4 is past its end, as  *)
(* key releases are.                                                       *)
EXTENDS Keyboard

MCScancodes == 0 .. 4
MCTable == [sc \in 0 .. 3 |-> CASE sc = 1 -> "a" [] sc = 3 -> "b" [] OTHER -> NUL]
MCChars == {"a", "b"}
=============================================================================
