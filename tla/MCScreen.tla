------------------------------ MODULE MCScreen ------------------------------
(* Screen with a bound on the rows scrolled off. *)
EXTENDS Screen

CONSTANT MaxAbove

(* 'a', a space, newline, backspace, and two that are not printed: escape  *)
(* and a code that is negative as a char.                                  *)
MCPrintChars == {97, SPACE, NL, BS, 27, 200}
MCPrintAttrs == {2}

MCNext == Next /\ Len(above') <= MaxAbove
MCSpec == Init /\ [][MCNext]_vars
=============================================================================
