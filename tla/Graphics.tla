------------------------------ MODULE Graphics ------------------------------
(***************************************************************************)
(* The graphics driver (graphics.cpp) as functions from memory to memory.  *)
(* mbt is what the boot loader says of the frame buffer: its address, the  *)
(* width and height in pixels, the pitch (bytes from one row to the next,  *)
(* which may be more than a row of pixels takes) and the bits of a pixel.  *)
(* Memory is a function from the addresses of 32-bit words to colours.     *)
(* Addresses are uint32_t, and so is the number of pixels: both wrap.      *)
(***************************************************************************)
EXTENDS Integers

CONSTANT ADDRESSES       (* size of the address space, 2^32                *)

ASSUME GraphicsAssumption == ADDRESSES \in Nat \ {0} /\ ADDRESSES % 4 = 0

WordAddresses == {a \in 0 .. ADDRESSES - 1 : a % 4 = 0}

(* graphics_init's result: there is a frame buffer, with 32 bits a pixel.  *)
Supported(mbt) == mbt.framebuffer /\ mbt.addr # 0 /\ mbt.bpp = 32

(* What the driver takes for granted of it: rows do not overlap, pixels    *)
(* are words, and the last row ends in memory.                             *)
ValidScreen(mbt) ==
  /\ mbt.addr \in WordAddresses /\ mbt.width \in Nat /\ mbt.height \in Nat
  /\ mbt.pitch \in Nat /\ mbt.pitch >= 4 * mbt.width /\ mbt.pitch % 4 = 0
  /\ mbt.addr + mbt.height * mbt.pitch <= ADDRESSES
  /\ mbt.bpp = 32

(* Slips: one of draw_pixel's two bounds is forgotten. *)
FitsAnyColumn(mbt, x, y) == 0 <= x /\ 0 <= y /\ y < mbt.height
FitsAnyRow(mbt, x, y)    == 0 <= x /\ x < mbt.width /\ 0 <= y

(* draw_pixel's test. *)
Fits(mbt, x, y) == 0 <= x /\ x < mbt.width /\ 0 <= y /\ y < mbt.height

(* draw_pixel's address. *)
PixelAddress(mbt, x, y) ==
  (mbt.addr + y * mbt.pitch + x * (mbt.bpp \div 8)) % ADDRESSES

(* The four bytes from address b on and the word at a have one in common:  *)
(* nothing says that the address of a store is a word's.                   *)
Touches(b, a) == (a - b) % ADDRESSES < 4 \/ (b - a) % ADDRESSES < 4

(* Four bytes are stored at each of the given addresses. *)
Fill(mem, addresses, color) ==
  [a \in DOMAIN mem |-> IF \E b \in addresses : Touches(b, a) THEN color ELSE mem[a]]

(* draw_rect_full calls draw_pixel for every pixel of the rectangle. *)
DrawRectFull(mem, mbt, x, y, w, h, color) ==
  LET fitting == {p \in (x .. x + w - 1) \X (y .. y + h - 1) : Fits(mbt, p[1], p[2])}
  IN  Fill(mem, {PixelAddress(mbt, p[1], p[2]) : p \in fitting}, color)

(* graphics_clear: width times height words in one run; no pitch.          *)
GraphicsClear(mem, mbt, color) ==
  LET np == (mbt.width * mbt.height) % ADDRESSES
  IN  Fill(mem, {(mbt.addr + 4 * i) % ADDRESSES : i \in 0 .. np - 1}, color)

(* The pixels of the screen, and those that graphics_clear reaches: all of *)
(* them if the rows are packed, else not those at the lower end.           *)
Pixels(mbt) == (0 .. mbt.width - 1) \X (0 .. mbt.height - 1)
Reached(mbt) ==
  {p \in Pixels(mbt) : p[2] * mbt.pitch + 4 * p[1] < 4 * mbt.width * mbt.height}

(* What the screen shows on a set of pixels. *)
Picture(mem, mbt, pixels) == [p \in pixels |-> mem[PixelAddress(mbt, p[1], p[2])]]
=============================================================================
