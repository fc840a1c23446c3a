------------------------------- MODULE Ascii -------------------------------
(* The characters that the console and the shell treat specially. *)
EXTENDS Naturals

NUL == 0
BS  == 8       \* '\b'
NL  == 10      \* '\n'
CR  == 13      \* '\r'
SPACE == 32
=============================================================================
