----------------------------- MODULE MCTerminal -----------------------------
(* Terminal on a small screen, at a keyboard that types one of a few lines *)
(* at a time, with erasures anywhere; a full line is typed beyond as well. *)
EXTENDS Terminal

CONSTANT Lines

(* A tab, "clear", and "test listt", of which "test list" fills the buffer *)
(* and wraps more than once, and the last key finds it full.               *)
MCLines == {
  <<9>>, <<99, 108, 101, 97, 114>>,
  <<116, 101, 115, 116, 32, 108, 105, 115, 116, 116>>}

(* "help", "cat", and three that are near a command: "cat", a quote after  *)
(* it, and the letter e.                                                   *)
MCNearLines == {
  <<104, 101, 108, 112>>, <<99, 97, 116>>, <<99, 97, 116, 34>>, <<101>>}

(* "aaba" *)
MCEraseLines == {<<97, 97, 98, 97>>}

MCTyped == {BS, NL} \cup UNION {{l[i] : i \in DOMAIN l} : l \in Lines}
MCPrompt == <<62>>
MCOutputs == {<<111, NL>>}
MCGarbage == {120}

MCNext ==
  /\ TNext
  /\ \E l \in Lines : IsPrefix(TypedLine', l)
MCSpec == TInit /\ [][MCNext]_vars
=============================================================================
