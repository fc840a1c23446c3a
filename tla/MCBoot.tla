------------------------------- MODULE MCBoot -------------------------------
(* Boot with screens of a few pixels: one that holds kmain's rectangles,   *)
(* one with packed rows and one with padded ones that cut them off, and    *)
(* frame buffers that the driver must refuse.  What another loader leaves  *)
(* looks like one that lies over the kernel and past the end of memory,    *)
(* one whose rows overlap at odd addresses, one without rows, and one of   *)
(* so many pixels that their number wraps to none.  The keyboard's table   *)
(* has one character.                                                      *)
EXTENDS Boot

Fb(width, height, pitch) ==
  [framebuffer |-> TRUE, addr |-> 8, width |-> width, height |-> height,
   pitch |-> pitch, bpp |-> 32]

MCFramebuffers ==
  {Fb(8, 7, 32), Fb(5, 6, 20), Fb(6, 5, 28),
   [Fb(5, 6, 20) EXCEPT !.bpp = 16],
   [Fb(5, 6, 20) EXCEPT !.addr = 0],
   [Fb(5, 6, 20) EXCEPT !.framebuffer = FALSE]}

MCGarbage ==
  {[Fb(5, 6, 20) EXCEPT !.addr = 200],
   [Fb(3, 4, 7) EXCEPT !.addr = 101],
   Fb(6, 5, 0), Fb(134, 2, 8)}

MCRAM         == {4 * k : k \in 0 .. 66}
MCKernelImage == {4 * k : k \in 60 .. 66}

MCTssAddress == <<17, 16512>>  \* 0x00114080

MCScancodes == {1, 2}
MCTable == [sc \in 0 .. 2 |-> IF sc = 1 THEN "a" ELSE NUL]
MCChars == {"a"}
=============================================================================
