---------------------------- MODULE ConsoleProofs -----------------------------
(***************************************************************************)
(* What the console's functions do, for every width and height of the      *)
(* screen: the cursor, the cells, and the line before the cursor.          *)
(***************************************************************************)
EXTENDS Console, Induction

(* Columns and rows as cells of the video memory. *)
LEMMA Size == W \in Nat /\ H \in Nat /\ W >= 1 /\ H >= 1 /\ W * H \in Nat
BY ConsoleAssumption

(* Every row of the screen lies in the text memory. *)
LEMMA RowStart ==
  ASSUME NEW y \in 0 .. H-1
  PROVE  y * W \in Nat /\ y * W + W <= W * H
<1>1. (y + 1) * W <= H * W
  BY Size
<1>2. (y + 1) * W = y * W + W
  BY Size
<1> QED BY <1>1, <1>2, Size

(* Every cell of the screen lies in the text memory. *)
LEMMA CellIndex ==
  ASSUME NEW y \in 0 .. H-1, NEW x \in 0 .. W-1
  PROVE  y * W + x \in Index
<1>1. y * W \in Nat /\ y * W + W <= W * H
  BY RowStart
<1> HIDE DEF Index
<1> DEFINE r == y * W
           s == W * H
<1>2. r \in Nat /\ s \in Nat /\ r + W <= s
  BY <1>1, Size
<1> HIDE DEF r, s
<1>3. r + x \in 0 .. s - 1
  BY <1>2, Size
<1> QED BY <1>3 DEF r, s, Index

(* A later row begins behind the end of an earlier one. *)
LEMMA LaterRow ==
  ASSUME NEW y \in Nat, NEW z \in Nat, y < z
  PROVE  y * W + W <= z * W /\ y * W \in Nat /\ z * W \in Nat
<1>1. (y + 1) * W <= z * W
  BY Size
<1>2. (y + 1) * W = y * W + W
  BY Size
<1> QED BY <1>1, <1>2, Size

-----------------------------------------------------------------------------
(* A console whose cursor may be one past the row or one past the screen,  *)
(* with nothing below it.                                                  *)

CleanBelow(k) ==
  \A y \in Nat, x \in 0 .. W-1 : k.cy < y /\ y < H => k.vmem[y * W + x] = Blank

On(k, maxx, maxy) ==
  /\ k \in Consoles
  /\ k.cx \in 0 .. maxx /\ k.cy \in 0 .. maxy
  /\ CleanBelow(k)

(* A blank is a cell. *)
LEMMA BlankCell == Blank \in Cells
BY DEF Blank, Cell, Cells, Printable, Attrs, SPACE, DEFAULT

(* After the branch on the character the cursor is on the screen, or one   *)
(* past its row or its end.                                                *)
LEMMA PlaceOn ==
  ASSUME NEW k, On(k, W-1, H-1), NEW c \in Nat, NEW attr \in Attrs
  PROVE  /\ Place(k, c, attr) \in Consoles
         /\ CleanBelow(Place(k, c, attr))
         /\ \/ Place(k, c, attr).cx \in 0 .. W /\ Place(k, c, attr).cy \in 0 .. H-1
            \/ Place(k, c, attr).cx = 0 /\ Place(k, c, attr).cy \in 0 .. H
<1> DEFINE p == Place(k, c, attr)
<1>1. /\ k \in Consoles /\ k.cx \in 0 .. W-1 /\ k.cy \in 0 .. H-1 /\ CleanBelow(k)
      /\ k.vmem \in [Index -> Cells] /\ k.cx \in Int /\ k.cy \in Int /\ k.hw \in Nat
      /\ k = [vmem |-> k.vmem, cx |-> k.cx, cy |-> k.cy, hw |-> k.hw]
  BY DEF On, Consoles
<1>2. k.cy * W \in Nat /\ Pos(k) = k.cy * W + k.cx /\ Pos(k) \in Index
  BY <1>1, RowStart, CellIndex DEF Pos
<1>3. ASSUME NEW i \in Int, i < k.cy * W + W,
             NEW y \in Nat, k.cy < y, NEW x \in 0 .. W-1
      PROVE  y * W + x # i
  <2>1. k.cy * W + W <= y * W /\ y * W \in Nat
    BY <1>1, <1>3, LaterRow
  <2> DEFINE r == k.cy * W
             s == y * W
  <2>2. r \in Nat /\ s \in Nat /\ r + W <= s /\ i < r + W
    BY <1>2, <1>3, <2>1
  <2> HIDE DEF r, s
  <2>3. s + x # i
    BY <2>2, Size
  <2> QED BY <2>3 DEF s
<1>4. CASE c = BS /\ k.cx > 0
  <2>1. p = [vmem |-> [k.vmem EXCEPT ![Pos(k) - 1] = Cell(SPACE, attr)],
             cx |-> k.cx - 1, cy |-> k.cy, hw |-> k.hw]
    BY <1>1, <1>4 DEF Place
  <2>2. Pos(k) - 1 \in Index
    BY <1>1, <1>2, <1>4, Size, SMTT(20) DEF Index
  <2>3. Cell(SPACE, attr) \in Cells
    BY DEF Cell, Cells, Printable, SPACE
  <2>4. p \in Consoles /\ p.cx \in 0 .. W /\ p.cy \in 0 .. H-1
    BY <1>1, <1>4, <2>1, <2>2, <2>3, Size DEF Consoles
  <2>5. CleanBelow(p)
    <3> SUFFICES ASSUME NEW y \in Nat, NEW x \in 0 .. W-1, k.cy < y, y < H
                 PROVE  p.vmem[y * W + x] = Blank
      BY <2>1 DEF CleanBelow
    <3>1. y * W + x # Pos(k) - 1
      BY <1>1, <1>2, <1>3, Size
    <3>2. y * W + x \in Index
      BY CellIndex, Size
    <3>3. k.vmem[y * W + x] = Blank
      BY <1>1 DEF CleanBelow
    <3> QED BY <1>1, <2>1, <3>1, <3>2, <3>3
  <2> QED BY <2>4, <2>5
<1>5. CASE ~(c = BS /\ k.cx > 0) /\ c = NL
  <2>1. p = [vmem |-> k.vmem, cx |-> 0, cy |-> k.cy + 1, hw |-> k.hw]
    BY <1>1, <1>5 DEF Place
  <2>2. p \in Consoles /\ p.cx = 0 /\ p.cy \in 0 .. H
    BY <1>1, <2>1, Size DEF Consoles
  <2>3. CleanBelow(p)
    BY <1>1, <2>1, Size DEF CleanBelow
  <2> QED BY <2>2, <2>3
<1>6. CASE ~(c = BS /\ k.cx > 0) /\ c # NL /\ c \in Printable
  <2>1. p = [vmem |-> [k.vmem EXCEPT ![Pos(k)] = Cell(c, attr)],
             cx |-> k.cx + 1, cy |-> k.cy, hw |-> k.hw]
    BY <1>1, <1>6 DEF Place
  <2>2. Cell(c, attr) \in Cells
    BY <1>6 DEF Cell, Cells
  <2>3. p \in Consoles /\ p.cx \in 0 .. W /\ p.cy \in 0 .. H-1
    BY <1>1, <1>2, <2>1, <2>2, Size DEF Consoles
  <2>4. CleanBelow(p)
    <3> SUFFICES ASSUME NEW y \in Nat, NEW x \in 0 .. W-1, k.cy < y, y < H
                 PROVE  p.vmem[y * W + x] = Blank
      BY <2>1 DEF CleanBelow
    <3>1. y * W + x # Pos(k)
      BY <1>1, <1>2, <1>3, Size
    <3>2. y * W + x \in Index
      BY CellIndex, Size
    <3>3. k.vmem[y * W + x] = Blank
      BY <1>1 DEF CleanBelow
    <3> QED BY <1>1, <2>1, <3>1, <3>2, <3>3
  <2> QED BY <2>3, <2>4
<1>7. CASE ~(c = BS /\ k.cx > 0) /\ c # NL /\ c \notin Printable
  <2>1. p = k
    BY <1>7 DEF Place
  <2>2. k.cx \in 0 .. W
    BY <1>1, Size
  <2> QED BY <1>1, <2>1, <2>2
<1> QED BY <1>4, <1>5, <1>6, <1>7

(* The full line puts it into the row, perhaps the one below the screen. *)
LEMMA WrapOn ==
  ASSUME NEW k, k \in Consoles, CleanBelow(k),
         \/ k.cx \in 0 .. W /\ k.cy \in 0 .. H-1
         \/ k.cx = 0 /\ k.cy \in 0 .. H
  PROVE  On(Wrap(k), W-1, H)
<1>1. /\ k.vmem \in [Index -> Cells] /\ k.cx \in Int /\ k.cy \in Int /\ k.hw \in Nat
      /\ k = [vmem |-> k.vmem, cx |-> k.cx, cy |-> k.cy, hw |-> k.hw]
  BY DEF Consoles
<1>2. CASE k.cx >= W
  <2>1. Wrap(k) = [vmem |-> k.vmem, cx |-> 0, cy |-> k.cy + 1, hw |-> k.hw]
    BY <1>1, <1>2 DEF Wrap
  <2>2. Wrap(k) \in Consoles /\ Wrap(k).cx \in 0 .. W-1 /\ Wrap(k).cy \in 0 .. H
    BY <1>1, <1>2, <2>1, Size DEF Consoles
  <2>3. CleanBelow(Wrap(k))
    BY <1>1, <2>1, Size DEF CleanBelow
  <2> QED BY <2>2, <2>3 DEF On
<1>3. CASE ~(k.cx >= W)
  <2>1. Wrap(k) = k
    BY <1>3 DEF Wrap
  <2>2. k.cx \in 0 .. W-1 /\ k.cy \in 0 .. H
    BY <1>1, <1>3, Size
  <2> QED BY <2>1, <2>2 DEF On
<1> QED BY <1>2, <1>3

(* Scrolling puts it back on the screen, with blank rows below. *)
LEMMA ScrollOn ==
  ASSUME NEW k, On(k, W-1, H)
  PROVE  On(Scroll(k), W-1, H-1)
<1>1. /\ k \in Consoles /\ k.cx \in 0 .. W-1 /\ k.cy \in 0 .. H /\ CleanBelow(k)
      /\ k.vmem \in [Index -> Cells] /\ k.hw \in Nat
      /\ k = [vmem |-> k.vmem, cx |-> k.cx, cy |-> k.cy, hw |-> k.hw]
  BY DEF On, Consoles
<1>2. CASE k.cy < H
  <2>1. Scroll(k) = k
    BY <1>2 DEF Scroll
  <2>2. k.cy \in 0 .. H-1
    BY <1>1, <1>2, Size
  <2> QED BY <1>1, <2>1, <2>2 DEF On
<1>3. CASE ~(k.cy < H)
  <2> DEFINE up == [i \in Index |-> IF i < (H-1) * W THEN k.vmem[i + W] ELSE Blank]
  <2>1. Scroll(k) = [vmem |-> up, cx |-> k.cx, cy |-> H-1, hw |-> k.hw]
    BY <1>1, <1>3 DEF Scroll
  <2>2. ASSUME NEW i \in Index, i < (H-1) * W
        PROVE  i + W \in Index
    <3>1. (H-1) * W + W = W * H /\ (H-1) * W \in Nat
      BY Size
    <3> DEFINE r == (H-1) * W
               s == W * H
    <3>2. r \in Nat /\ s \in Nat /\ r + W = s /\ i < r /\ i \in 0 .. s-1
      BY <2>2, <3>1, Size DEF Index
    <3> HIDE DEF r, s
    <3>3. i + W \in 0 .. s-1
      BY <3>2, Size
    <3> QED BY <3>3 DEF s, Index
  <2>3. up \in [Index -> Cells]
    BY <1>1, <2>2, BlankCell
  <2> HIDE DEF up
  <2>4. Scroll(k) \in Consoles
    BY <1>1, <2>1, <2>3, Size DEF Consoles
  <2>5. Scroll(k).cx \in 0 .. W-1 /\ Scroll(k).cy \in 0 .. H-1
    BY <1>1, <2>1, Size
  <2>6. CleanBelow(Scroll(k))
    BY <2>1, Size DEF CleanBelow
  <2> QED BY <2>4, <2>5, <2>6 DEF On
<1> QED BY <1>2, <1>3

(* A cursor on the screen is a place in the text memory. *)
LEMMA PosOn ==
  ASSUME NEW k, On(k, W-1, H-1)
  PROVE  Pos(k) \in Index /\ Pos(k) \in Nat /\ Pos(k) < Positions
<1>1. Pos(k) \in Index
  BY CellIndex DEF Pos, On
<1> DEFINE p == Pos(k)
           s == W * H
<1>2. p \in 0 .. s - 1 /\ s \in Nat /\ s <= Positions
  BY <1>1, Size, ConsoleAssumption DEF Index
<1>3. Positions \in Nat
  BY DEF Positions
<1> HIDE DEF p, s
<1>4. p \in Nat /\ p < Positions
  BY <1>2, <1>3
<1> QED BY <1>1, <1>4 DEF p

(* What fits the hardware's registers is not cut. *)
LEMMA SmallMod ==
  ASSUME NEW n \in Nat, NEW m \in Nat, n < m
  PROVE  n % m = n
BY SMT

(* The hardware cursor is at the cursor once it was written. *)
LEMMA UpdateCursorOn ==
  ASSUME NEW k, On(k, W-1, H-1)
  PROVE  On(UpdateCursor(k), W-1, H-1) /\ UpdateCursor(k).hw = Pos(UpdateCursor(k))
<1>1. k \in Consoles /\ k.cx \in 0 .. W-1 /\ k.cy \in 0 .. H-1 /\ CleanBelow(k)
  BY DEF On
<1>2. k = [vmem |-> k.vmem, cx |-> k.cx, cy |-> k.cy, hw |-> k.hw]
  BY <1>1 DEF Consoles
<1>3. Positions \in Nat
  BY DEF Positions
<1>4. Pos(k) % Positions = Pos(k) /\ Pos(k) \in Nat
  BY <1>3, PosOn, SmallMod
<1>5. UpdateCursor(k) = [vmem |-> k.vmem, cx |-> k.cx, cy |-> k.cy, hw |-> Pos(k)]
  <2>1. UpdateCursor(k) = [k EXCEPT !.hw = Pos(k)]
    BY <1>4 DEF UpdateCursor
  <2> QED BY <1>2, <2>1
<1>6. UpdateCursor(k) \in Consoles
  BY <1>1, <1>4, <1>5 DEF Consoles
<1>7. CleanBelow(UpdateCursor(k))
  BY <1>1, <1>5 DEF CleanBelow
<1>8. UpdateCursor(k).hw = Pos(UpdateCursor(k))
  BY <1>5 DEF Pos
<1> QED BY <1>1, <1>5, <1>6, <1>7, <1>8 DEF On

(* One character before the screen is scrolled, and after.                 *)
LEMMA FullOn ==
  ASSUME NEW k, On(k, W-1, H-1), NEW c \in Nat, NEW attr \in Attrs
  PROVE  On(Wrap(Place(k, c, attr)), W-1, H)
<1>1. /\ Place(k, c, attr) \in Consoles
      /\ CleanBelow(Place(k, c, attr))
      /\ \/ Place(k, c, attr).cx \in 0 .. W /\ Place(k, c, attr).cy \in 0 .. H-1
         \/ Place(k, c, attr).cx = 0 /\ Place(k, c, attr).cy \in 0 .. H
  BY PlaceOn
<1> DEFINE p == Place(k, c, attr)
<1> HIDE DEF p
<1>2. On(Wrap(p), W-1, H)
  BY <1>1, WrapOn DEF p
<1> QED BY <1>2 DEF p

(* So a whole call of print_char leaves the cursor on the screen, the rows *)
(* below blank and the hardware cursor with it.                            *)
LEMMA PutOn ==
  ASSUME NEW k, On(k, W-1, H-1), NEW c \in Nat, NEW attr \in Attrs
  PROVE  On(Put(k, c, attr), W-1, H-1) /\ Put(k, c, attr).hw = Pos(Put(k, c, attr))
<1> DEFINE full == Wrap(Place(k, c, attr))
<1>1. On(full, W-1, H)
  BY FullOn
<1> HIDE DEF full
<1>2. On(Scroll(full), W-1, H-1)
  BY <1>1, ScrollOn
<1> DEFINE m == Scroll(full)
<1> HIDE DEF m
<1>3. On(UpdateCursor(m), W-1, H-1) /\ UpdateCursor(m).hw = Pos(UpdateCursor(m))
  BY <1>2, UpdateCursorOn DEF m
<1> QED BY <1>3 DEF Put, full, m

(* A blank screen with the cursor at its beginning is one. *)
LEMMA ClearOn ==
  ASSUME NEW h \in Nat
  PROVE  On([vmem |-> [i \in Index |-> Blank], cx |-> 0, cy |-> 0, hw |-> h], W-1, H-1)
<1> DEFINE k == [vmem |-> [i \in Index |-> Blank], cx |-> 0, cy |-> 0, hw |-> h]
<1>1. k \in Consoles
  BY BlankCell DEF Consoles
<1>2. k.cx \in 0 .. W-1 /\ k.cy \in 0 .. H-1
  BY Size
<1>3. CleanBelow(k)
  <2> SUFFICES ASSUME NEW y \in Nat, NEW x \in 0 .. W-1, y < H
               PROVE  k.vmem[y * W + x] = Blank
    BY DEF CleanBelow
  <2>1. y * W + x \in Index
    BY CellIndex, Size
  <2> QED BY <2>1
<1> QED BY <1>1, <1>2, <1>3 DEF On

(* So is the screen that clear leaves. *)
LEMMA ClearedOn ==
  ASSUME NEW k, On(k, W-1, H-1)
  PROVE  On(Clear(k), W-1, H-1)
<1>1. k \in Consoles /\ k.hw \in Nat
  BY DEF On, Consoles
<1> DEFINE m == [vmem |-> [i \in Index |-> Blank], cx |-> 0, cy |-> 0, hw |-> k.hw]
<1>2. Clear(k) = m
  <2> DEFINE v == [i \in Index |-> Blank]
  <2>1. Clear(k) = [k EXCEPT !.vmem = v, !.cx = 0, !.cy = 0]
    BY DEF Clear
  <2>2. k = [vmem |-> k.vmem, cx |-> k.cx, cy |-> k.cy, hw |-> k.hw]
    BY <1>1 DEF Consoles
  <2>3. m = [vmem |-> v, cx |-> 0, cy |-> 0, hw |-> k.hw]
    OBVIOUS
  <2> HIDE DEF v, m
  <2> QED BY <2>1, <2>2, <2>3
<1>3. On(m, W-1, H-1)
  BY <1>1, ClearOn
<1> HIDE DEF m
<1> QED BY <1>2, <1>3

-----------------------------------------------------------------------------
(* The characters before the cursor, across rows, as far as they have not  *)
(* scrolled off.                                                           *)

Shown(k, s) ==
  \A i \in DOMAIN s :
    Pos(k) - Len(s) + i - 1 >= 0 => k.vmem[Pos(k) - Len(s) + i - 1].ch = s[i]

(* They stay where they are before a cursor that moves with them.          *)
LEMMA MovedShown ==
  ASSUME NEW s \in Seq(Nat), NEW k, Shown(k, s), Pos(k) \in Nat,
         NEW m, Pos(m) \in Nat, NEW d \in Nat, Pos(m) + d = Pos(k),
         \A j \in 0 .. Pos(m) - 1 : m.vmem[j].ch = k.vmem[j + d].ch
  PROVE  Shown(m, s)
<1> SUFFICES ASSUME NEW i \in DOMAIN s, Pos(m) - Len(s) + i - 1 >= 0
             PROVE  m.vmem[Pos(m) - Len(s) + i - 1].ch = s[i]
  BY DEF Shown
<1> DEFINE j == Pos(m) - Len(s) + i - 1
           p == Pos(m)
           q == Pos(k)
<1>1. i \in 1 .. Len(s) /\ Len(s) \in Nat
  OBVIOUS
<1>2. j \in 0 .. p - 1 /\ j + d = q - Len(s) + i - 1 /\ q - Len(s) + i - 1 >= 0
  <2> DEFINE n == Len(s)
  <2>1. p \in Nat /\ q \in Nat /\ p + d = q /\ p - n + i - 1 >= 0
    OBVIOUS
  <2>2. i \in 1 .. n /\ n \in Nat
    OBVIOUS
  <2> HIDE DEF p, q, n
  <2>3. p - n + i - 1 \in 0 .. p - 1
    BY <2>1, <2>2
  <2>4. (p - n + i - 1) + d = (p + d) - n + i - 1
    BY <2>1, <2>2
  <2>5. q - n + i - 1 >= 0
    BY <2>1, <2>2, <2>4
  <2> QED BY <2>1, <2>3, <2>4, <2>5 DEF p, q, n
<1>3. m.vmem[j].ch = k.vmem[j + d].ch
  BY <1>2
<1>4. k.vmem[q - Len(s) + i - 1].ch = s[i]
  BY <1>2 DEF Shown
<1> QED BY <1>2, <1>3, <1>4

(* The full line moves nothing of what is shown. *)
LEMMA WrapShown ==
  ASSUME NEW s \in Seq(Nat), NEW k, Shown(k, s), k \in Consoles, k.cx \in 0 .. W, k.cy \in 0 .. H-1
  PROVE  /\ Shown(Wrap(k), s)
         /\ Wrap(k).cy = H => Wrap(k).cx = 0
<1>1. /\ k.vmem \in [Index -> Cells] /\ k.cx \in Int /\ k.cy \in Int /\ k.hw \in Nat
      /\ k = [vmem |-> k.vmem, cx |-> k.cx, cy |-> k.cy, hw |-> k.hw]
  BY DEF Consoles
<1>2. CASE k.cx >= W
  <2> DEFINE q == [vmem |-> k.vmem, cx |-> 0, cy |-> k.cy + 1, hw |-> k.hw]
  <2>1. Wrap(k) = q
    BY <1>1, <1>2 DEF Wrap
  <2>2. Pos(q) = Pos(k)
    <3>1. k.cx = W
      BY <1>2, Size
    <3>2. (k.cy + 1) * W = k.cy * W + W /\ k.cy * W \in Nat
      BY Size
    <3>3. Pos(q) = (k.cy + 1) * W + 0 /\ Pos(k) = k.cy * W + W
      BY <3>1 DEF Pos
    <3> QED BY <3>2, <3>3, Size
  <2>3. Shown(q, s)
    BY <2>2 DEF Shown
  <2> QED BY <2>1, <2>3
<1>3. CASE ~(k.cx >= W)
  <2>1. Wrap(k) = k
    BY <1>3 DEF Wrap
  <2> QED BY <2>1, Size
<1> QED BY <1>2, <1>3

(* Scrolling moves what is shown and the cursor alike. *)
LEMMA ScrollShown ==
  ASSUME NEW s \in Seq(Nat), NEW k, Shown(k, s), On(k, W-1, H), k.cy = H => k.cx = 0
  PROVE  Shown(UpdateCursor(Scroll(k)), s)
<1>1. /\ k \in Consoles /\ k.cx \in 0 .. W-1 /\ k.cy \in 0 .. H
      /\ k.vmem \in [Index -> Cells] /\ k.hw \in Nat
      /\ k = [vmem |-> k.vmem, cx |-> k.cx, cy |-> k.cy, hw |-> k.hw]
  BY DEF On, Consoles
<1>2. ASSUME NEW m \in Consoles, Shown(m, s)
      PROVE  Shown(UpdateCursor(m), s)
  <2> DEFINE h == Pos(m) % Positions
             u == [m EXCEPT !.hw = h]
  <2> HIDE DEF h
  <2>1. u.vmem = m.vmem /\ u.cx = m.cx /\ u.cy = m.cy
    BY DEF Consoles
  <2> HIDE DEF u
  <2>2. Pos(u) = Pos(m)
    BY <2>1 DEF Pos
  <2>3. Shown(u, s)
    BY <1>2, <2>1, <2>2 DEF Shown
  <2> QED BY <2>3 DEF UpdateCursor, u, h
<1>3. Scroll(k) \in Consoles
  BY ScrollOn DEF On
<1>4. Shown(Scroll(k), s)
  <2>1. CASE k.cy < H
    BY <2>1 DEF Scroll
  <2>2. CASE ~(k.cy < H)
    <3> DEFINE up == [i \in Index |-> IF i < (H-1) * W THEN k.vmem[i + W] ELSE Blank]
               m == [vmem |-> up, cx |-> 0, cy |-> H-1, hw |-> k.hw]
    <3>1. k.cy = H /\ k.cx = 0
      BY <1>1, <2>2, Size
    <3>2. Scroll(k) = m
      <4>1. Scroll(k) = [k EXCEPT !.vmem = up, !.cy = H - 1]
        BY <2>2 DEF Scroll
      <4> HIDE DEF up
      <4> QED BY <1>1, <3>1, <4>1
    <3> DEFINE r == (H-1) * W
    <3>3. r \in Nat /\ H * W = r + W
      BY Size
    <3>4. Pos(m) = r /\ Pos(k) = r + W
      BY <3>1, <3>3, Size DEF Pos
    <3>5. \A j \in 0 .. r - 1 : j \in Index /\ j < r
      <4> DEFINE t == W * H
      <4>1. t = r + W /\ t \in Nat
        BY <3>3, Size
      <4> HIDE DEF r, t
      <4>2. \A j \in 0 .. r - 1 : j \in 0 .. t - 1 /\ j < r
        BY <3>3, <4>1, Size
      <4> QED BY <4>2 DEF t, Index
    <3>6. \A j \in 0 .. r - 1 : up[j] = k.vmem[j + W]
      BY <3>5
    <3>7. m.vmem = up
      OBVIOUS
    <3> HIDE DEF r, m, up
    <3>8. \A j \in 0 .. Pos(m) - 1 : m.vmem[j].ch = k.vmem[j + W].ch
      BY <3>4, <3>6, <3>7
    <3>9. Pos(m) \in Nat /\ Pos(k) \in Nat /\ Pos(m) + W = Pos(k) /\ W \in Nat
      BY <3>3, <3>4, Size
    <3>10. Shown(m, s)
      BY <3>8, <3>9, MovedShown
    <3> QED BY <3>2, <3>10
  <2> QED BY <2>1, <2>2
<1> QED BY <1>2, <1>3, <1>4

(* A printed glyph joins them. *)
LEMMA GlyphShown ==
  ASSUME NEW s \in Seq(Nat), NEW k, Shown(k, s), On(k, W-1, H-1),
         NEW c \in Printable, NEW attr \in Attrs
  PROVE  Shown(Put(k, c, attr), Append(s, c))
<1> DEFINE p == Place(k, c, attr)
           t == Append(s, c)
<1>1. /\ k \in Consoles /\ k.cx \in 0 .. W-1 /\ k.cy \in 0 .. H-1
      /\ k.vmem \in [Index -> Cells]
      /\ k = [vmem |-> k.vmem, cx |-> k.cx, cy |-> k.cy, hw |-> k.hw]
      /\ c \in Nat /\ c # BS /\ c # NL
  BY DEF On, Consoles, Printable, SPACE, BS, NL
<1>2. p = [vmem |-> [k.vmem EXCEPT ![Pos(k)] = Cell(c, attr)], cx |-> k.cx + 1, cy |-> k.cy, hw |-> k.hw]
  BY <1>1 DEF Place
<1>3. p \in Consoles
  BY <1>1, PlaceOn
<1>4. Pos(k) \in Index /\ Pos(k) \in Nat
  BY PosOn
<1>5. t \in Seq(Nat) /\ Len(t) = Len(s) + 1 /\ t[Len(s) + 1] = c /\ \A i \in 1 .. Len(s) : t[i] = s[i]
  BY <1>1, AppendProperties
<1>6. Pos(p) = Pos(k) + 1
  <2> DEFINE r == k.cy * W
             x == k.cx
  <2>1. r \in Nat /\ x \in Nat /\ Pos(k) = r + x /\ Pos(p) = r + (x + 1)
    BY <1>1, <1>2, RowStart, Size DEF Pos
  <2> HIDE DEF r, x
  <2> QED BY <2>1
<1>7. p.vmem = [k.vmem EXCEPT ![Pos(k)] = Cell(c, attr)]
  BY <1>2
<1>8. p.cx \in 0 .. W /\ p.cy \in 0 .. H-1
  BY <1>1, <1>2, Size
<1> HIDE DEF p, t
<1>9. Shown(p, t)
  <2> SUFFICES ASSUME NEW i \in 1 .. Len(s) + 1, Pos(p) - Len(t) + i - 1 >= 0
               PROVE  p.vmem[Pos(p) - Len(t) + i - 1].ch = t[i]
    BY <1>5 DEF Shown
  <2> DEFINE j == Pos(k) - Len(s) + i - 1
             q == Pos(k)
  <2>1. Len(s) \in Nat
    OBVIOUS
  <2>2. j = Pos(p) - Len(t) + i - 1 /\ j >= 0 /\ j \in 0 .. q /\ (j = q <=> i = Len(s) + 1)
    <3>1. q \in Nat /\ Pos(p) = q + 1 /\ j = q - Len(s) + i - 1
      BY <1>4, <1>6
    <3> HIDE DEF q, j
    <3> QED BY <1>5, <2>1, <3>1, SMTT(20)
  <2>3. CASE i = Len(s) + 1
    <3>1. p.vmem[q] = Cell(c, attr)
      BY <1>1, <1>4, <1>7
    <3> QED BY <1>5, <2>2, <2>3, <3>1 DEF Cell
  <2>4. CASE i \in 1 .. Len(s)
    <3>1. j # q /\ i \in DOMAIN s
      BY <2>1, <2>2, <2>4
    <3>2. k.vmem[j].ch = s[i]
      BY <2>2, <3>1 DEF Shown
    <3>3. p.vmem[j] = k.vmem[j]
      BY <1>7, <3>1
    <3> QED BY <1>5, <2>2, <2>4, <3>2, <3>3
  <2> QED BY <2>1, <2>3, <2>4
<1>10. Shown(Wrap(p), t) /\ (Wrap(p).cy = H => Wrap(p).cx = 0)
  BY <1>3, <1>5, <1>8, <1>9, WrapShown
<1>11. On(Wrap(p), W-1, H)
  BY <1>1, FullOn DEF p
<1> DEFINE full == Wrap(p)
<1> HIDE DEF full
<1>12. Shown(UpdateCursor(Scroll(full)), t)
  BY <1>5, <1>10, <1>11, ScrollShown DEF full
<1> QED BY <1>12 DEF Put, full, p, t

(* A backspace inside a row takes the last of them away.                   *)
LEMMA StaysInRow ==
  ASSUME NEW k, On(k, W-1, H-1), NEW c \in Nat, NEW attr \in Attrs,
         NEW p \in Consoles, p = Place(k, c, attr), p.cx \in 0 .. W-1, p.cy \in 0 .. H-1
  PROVE  /\ Put(k, c, attr).vmem = p.vmem
         /\ Put(k, c, attr).cx = p.cx /\ Put(k, c, attr).cy = p.cy
<1>1. ~(p.cx >= W) /\ p.cy < H
  BY Size
<1>2. Wrap(p) = p
  BY <1>1, Zenon DEF Wrap
<1>3. Scroll(p) = p
  BY <1>1, Zenon DEF Scroll
<1>4. Put(k, c, attr) = UpdateCursor(p)
  BY <1>2, <1>3, Zenon DEF Put
<1> DEFINE h == Pos(p) % Positions
           u == [p EXCEPT !.hw = h]
<1> HIDE DEF h
<1>5. u.vmem = p.vmem /\ u.cx = p.cx /\ u.cy = p.cy
  BY DEF Consoles
<1> QED BY <1>4, <1>5 DEF UpdateCursor, h

(* A backspace away from column 0 takes back exactly the last character. *)
LEMMA BackShown ==
  ASSUME NEW s \in Seq(Nat), NEW c \in Nat, NEW k, Shown(k, Append(s, c)), On(k, W-1, H-1),
         k.cx > 0, NEW attr \in Attrs
  PROVE  Shown(Put(k, BS, attr), s) /\ Put(k, BS, attr).cx = k.cx - 1
<1> DEFINE p == Place(k, BS, attr)
           t == Append(s, c)
           m == Put(k, BS, attr)
<1>1. /\ k \in Consoles /\ k.cx \in 1 .. W-1 /\ k.cy \in 0 .. H-1
      /\ k.vmem \in [Index -> Cells]
      /\ k = [vmem |-> k.vmem, cx |-> k.cx, cy |-> k.cy, hw |-> k.hw]
  BY Size DEF On, Consoles
<1>2. p = [vmem |-> [k.vmem EXCEPT ![Pos(k) - 1] = Cell(SPACE, attr)],
           cx |-> k.cx - 1, cy |-> k.cy, hw |-> k.hw]
  BY <1>1 DEF Place
<1>3. BS \in Nat
  BY DEF BS
<1>4. p \in Consoles
  BY <1>3, PlaceOn
<1>5. p.vmem = [k.vmem EXCEPT ![Pos(k) - 1] = Cell(SPACE, attr)] /\ p.cx = k.cx - 1 /\ p.cy = k.cy
  BY <1>2
<1> HIDE DEF p, m
<1>6. p.cx \in 0 .. W-1 /\ p.cy \in 0 .. H-1
  BY <1>1, <1>5, Size
<1>7. m.vmem = p.vmem /\ m.cx = p.cx /\ m.cy = p.cy
  BY <1>3, <1>4, <1>6, StaysInRow DEF p, m
<1>8. Pos(k) \in Nat
  BY PosOn
<1>9. Pos(m) = Pos(k) - 1
  <2> DEFINE r == k.cy * W
             x == k.cx
  <2>1. r \in Nat /\ x \in Nat /\ Pos(k) = r + x /\ Pos(m) = r + (x - 1)
    BY <1>1, <1>5, <1>7, RowStart, Size DEF Pos
  <2> HIDE DEF r, x
  <2> QED BY <2>1
<1>10. Shown(m, s)
  <2> DEFINE n == Len(s)
             q == Pos(k)
  <2>1. n \in Nat /\ q \in Nat /\ DOMAIN s = 1 .. n
    BY <1>8
  <2>2. Len(t) = n + 1 /\ (\A i \in 1 .. n : i \in DOMAIN t /\ t[i] = s[i])
    BY AppendProperties
  <2> HIDE DEF n, q, t
  <2>3. ASSUME NEW i \in 1 .. n, q - 1 - n + i - 1 >= 0
        PROVE  m.vmem[q - 1 - n + i - 1].ch = s[i]
    <3>1. q - (n + 1) + i - 1 = q - 1 - n + i - 1
      BY <2>1
    <3>2. q - 1 - n + i - 1 # q - 1
      BY <2>1
    <3>3. k.vmem[q - (n + 1) + i - 1].ch = s[i]
      <4>1. q - (n + 1) + i - 1 >= 0
        BY <2>3, <3>1
      <4> QED BY <2>2, <4>1 DEF Shown, q, t
    <3>4. m.vmem[q - 1 - n + i - 1] = k.vmem[q - 1 - n + i - 1]
      BY <1>5, <1>7, <3>2 DEF q
    <3> QED BY <3>1, <3>3, <3>4
  <2> QED BY <1>9, <2>1, <2>3 DEF Shown, n, q
<1> QED BY <1>5, <1>7, <1>10 DEF m

(* "\b \b" erases it. *)
LEMMA ErasedShown ==
  ASSUME NEW s \in Seq(Nat), NEW c \in Nat, NEW k, Shown(k, Append(s, c)), On(k, W-1, H-1),
         k.cx > 0, NEW attr \in Attrs
  PROVE  Shown(Put(Put(Put(k, BS, attr), SPACE, attr), BS, attr), s)
<1> DEFINE a == Put(k, BS, attr)
           b == Put(a, SPACE, attr)
<1>1. BS \in Nat /\ SPACE \in Nat /\ SPACE \in Printable /\ SPACE # BS /\ SPACE # NL
  BY DEF BS, SPACE, NL, Printable
<1>2. On(a, W-1, H-1) /\ Shown(a, s) /\ a.cx = k.cx - 1
  BY <1>1, PutOn, BackShown
<1> HIDE DEF a
<1>3. On(b, W-1, H-1) /\ Shown(b, Append(s, SPACE))
  BY <1>1, <1>2, PutOn, GlyphShown
<1>4. b.cx = a.cx + 1
  <2> DEFINE p == Place(a, SPACE, attr)
  <2>1. p = [a EXCEPT !.cx = a.cx + 1, !.vmem[Pos(a)] = Cell(SPACE, attr)]
    BY <1>1 DEF Place
  <2>2. p.cx = a.cx + 1 /\ p.cy = a.cy
    BY <1>2, <2>1 DEF On, Consoles
  <2>3. p \in Consoles
    BY <1>1, <1>2, PlaceOn
  <2> HIDE DEF p
  <2>4. p.cx \in 0 .. W-1 /\ p.cy \in 0 .. H-1
    BY <1>2, <2>2, Size DEF On
  <2> QED BY <1>1, <1>2, <2>2, <2>3, <2>4, StaysInRow DEF p
<1> HIDE DEF b
<1>5. b.cx > 0
  BY <1>2, <1>4, Size DEF On
<1> QED BY <1>1, <1>3, <1>5, BackShown DEF a, b

-----------------------------------------------------------------------------
(* A string. *)

LEMMA PrintSteps ==
  ASSUME NEW k, On(k, W-1, H-1), NEW str \in Seq(Nat), NEW attr \in Attrs
  PROVE  \E g : /\ g[0] = k /\ PrintString(k, str, attr) = g[Len(str)]
                /\ \A i \in 1 .. Len(str) : g[i] = Put(g[i-1], str[i], attr)
                /\ \A i \in 0 .. Len(str) : On(g[i], W-1, H-1)
<1> DEFINE n == Len(str)
           S == {c \in Consoles : On(c, W-1, H-1)}
           Step == [i \in 1 .. n |-> [x \in S |-> Put(x, str[i], attr)]]
<1>1. n \in Nat /\ k \in S /\ \A i \in 1 .. n : str[i] \in Nat
  BY DEF On
<1>2. /\ \A x \in S, i \in 1 .. n : Step[i][x] = Put(x, str[i], attr)
      /\ Step \in [1 .. n -> [S -> S]]
  <2>1. \A x \in S, i \in 1 .. n : Put(x, str[i], attr) \in S
    BY <1>1, PutOn DEF On
  <2> HIDE DEF S
  <2> QED BY <2>1
<1> HIDE DEF Step, S, n
<1>3. PICK g \in [0 .. n -> S] : g[0] = k /\ \A i \in 1 .. n : g[i] = Step[i][g[i-1]]
  <2>1. n \in Nat /\ k \in S /\ Step \in Steps(n, S)
    BY <1>1, <1>2 DEF Steps
  <2>2. PICK g \in Runs(n, S) : IsRun(g, n, k, Step)
    BY <2>1, StepsExist
  <2> QED BY <2>2 DEF Runs, IsRun
<1>4. ASSUME NEW i \in 1 .. n
      PROVE  g[i] = Put(g[i-1], str[i], attr)
  <2>1. i - 1 \in 0 .. n
    BY <1>1
  <2>2. g[i-1] \in S
    BY <2>1
  <2> QED BY <1>2, <1>3, <2>2
<1> DEFINE After(f) == f = [i \in 0 .. n |-> IF i = 0 THEN k ELSE Put(f[i-1], str[i], attr)]
<1>5. After(g)
  <2>1. \A i \in 0 .. n : g[i] = IF i = 0 THEN k ELSE Put(g[i-1], str[i], attr)
    BY <1>1, <1>3, <1>4
  <2> QED BY <2>1
<1>6. ASSUME NEW f, After(f)
      PROVE  f[n] = g[n]
  <2> DEFINE T == {i \in 0 .. n : f[i] = g[i]}
  <2>1. 0 \in T
    BY <1>1, <1>3, <1>6
  <2>2. ASSUME NEW i \in 0 .. n - 1, i \in T
        PROVE  i + 1 \in T
    <3>1. i + 1 \in 1 .. n /\ (i + 1) - 1 = i /\ i + 1 \in 0 .. n /\ i + 1 # 0
      BY <1>1
    <3>2. f[i + 1] = Put(f[i], str[i + 1], attr)
      BY <1>6, <3>1
    <3>3. g[i + 1] = Put(g[i], str[i + 1], attr)
      BY <1>4, <3>1
    <3> QED BY <2>2, <3>1, <3>2, <3>3
  <2> HIDE DEF T
  <2>3. \A i \in 0 .. n : i \in T
    BY <1>1, <2>1, <2>2, UpTo
  <2>4. n \in 0 .. n
    BY <1>1
  <2> QED BY <2>3, <2>4 DEF T
<1>7. PrintString(k, str, attr) = (CHOOSE f : After(f))[n]
  BY DEF PrintString, n
<1>8. PrintString(k, str, attr) = g[n]
  <2> HIDE DEF After
  <2>1. After(CHOOSE f : After(f))
    BY <1>5
  <2> QED BY <1>6, <1>7, <2>1
<1>9. \A i \in 0 .. n : On(g[i], W-1, H-1)
  BY <1>3 DEF S
<1> QED BY <1>3, <1>4, <1>8, <1>9 DEF n

(* What holds after a character holds after a string. *)
LEMMA StringOn ==
  ASSUME NEW k, On(k, W-1, H-1), NEW str \in Seq(Nat), NEW attr \in Attrs,
         str # <<>> \/ k.hw = Pos(k)
  PROVE  /\ On(PrintString(k, str, attr), W-1, H-1)
         /\ PrintString(k, str, attr).hw = Pos(PrintString(k, str, attr))
<1> DEFINE n == Len(str)
<1>1. PICK g : /\ g[0] = k /\ PrintString(k, str, attr) = g[n]
               /\ \A i \in 1 .. n : g[i] = Put(g[i-1], str[i], attr)
               /\ \A i \in 0 .. n : On(g[i], W-1, H-1)
  BY PrintSteps
<1>2. n \in Nat /\ (n = 0 => str = <<>>) /\ \A i \in 1 .. n : str[i] \in Nat
  BY EmptySeq
<1> HIDE DEF n
<1>3. n \in 0 .. n
  BY <1>2
<1>4. CASE n = 0
  BY <1>1, <1>2, <1>3, <1>4
<1>5. CASE n # 0
  <2>1. n \in 1 .. n /\ n - 1 \in 0 .. n
    BY <1>2, <1>5
  <2>2. g[n] = Put(g[n-1], str[n], attr) /\ On(g[n-1], W-1, H-1) /\ str[n] \in Nat
    BY <1>1, <1>2, <2>1
  <2>3. On(g[n], W-1, H-1) /\ g[n].hw = Pos(g[n])
    BY <2>2, PutOn
  <2> QED BY <1>1, <2>3
<1> QED BY <1>4, <1>5

(* The glyphs at its end are shown before the cursor.                      *)
LEMMA StringShown ==
  ASSUME NEW k, On(k, W-1, H-1), NEW str \in Seq(Nat), NEW attr \in Attrs,
         NEW m \in 0 .. Len(str), \A i \in m + 1 .. Len(str) : str[i] \in Printable
  PROVE  Shown(PrintString(k, str, attr), SubSeq(str, m + 1, Len(str)))
<1> DEFINE n == Len(str)
           s(i) == SubSeq(str, m + 1, i)
<1>1. PICK g : /\ g[0] = k /\ PrintString(k, str, attr) = g[n]
               /\ \A i \in 1 .. n : g[i] = Put(g[i-1], str[i], attr)
               /\ \A i \in 0 .. n : On(g[i], W-1, H-1)
  BY PrintSteps
<1>2. n \in Nat /\ m \in Nat /\ m <= n
  OBVIOUS
<1>3. ASSUME NEW i \in m .. n
      PROVE  s(i) \in Seq(Nat) /\ Len(s(i)) = i - m
  BY <1>2
<1>4. Shown(g[m], s(m))
  <2>1. Len(s(m)) = 0 /\ s(m) \in Seq(Nat)
    BY <1>2, <1>3
  <2> HIDE DEF s
  <2>2. DOMAIN s(m) = {}
    BY <2>1
  <2> QED BY <2>2 DEF Shown
<1>5. ASSUME NEW i \in m .. n - 1, Shown(g[i], s(i))
      PROVE  Shown(g[i + 1], s(i + 1))
  <2>1. i \in 0 .. n /\ i + 1 \in 1 .. n /\ i + 1 \in m + 1 .. n /\ (i + 1) - 1 = i /\ i \in m .. n
    BY <1>2
  <2>2. g[i + 1] = Put(g[i], str[i + 1], attr) /\ On(g[i], W-1, H-1) /\ str[i + 1] \in Printable
    BY <1>1, <2>1
  <2>3. s(i) \in Seq(Nat)
    BY <1>3, <2>1
  <2>4. Append(s(i), str[i + 1]) = s(i + 1)
    BY <1>2, <2>1
  <2> HIDE DEF s, n
  <2>5. Shown(g[i + 1], Append(s(i), str[i + 1]))
    BY <1>5, <2>2, <2>3, GlyphShown
  <2> QED BY <2>4, <2>5
<1> DEFINE U == {i \in 0 .. n - m : Shown(g[m + i], s(m + i))}
<1>6. 0 \in U
  BY <1>2, <1>4
<1>7. ASSUME NEW i \in 0 .. n - m - 1, i \in U
      PROVE  i + 1 \in U
  <2>1. m + i \in m .. n - 1 /\ (m + i) + 1 = m + (i + 1) /\ i + 1 \in 0 .. n - m
    BY <1>2
  <2> HIDE DEF s, n
  <2>2. Shown(g[m + i], s(m + i))
    BY <1>7
  <2>3. Shown(g[(m + i) + 1], s((m + i) + 1))
    BY <1>5, <2>1, <2>2
  <2> QED BY <2>1, <2>3
<1>8. n - m \in U
  <2>1. n - m \in Nat /\ n - m \in 0 .. n - m
    BY <1>2
  <2> HIDE DEF U, n
  <2>2. \A i \in 0 .. n - m : i \in U
    BY <1>6, <1>7, <2>1, UpTo
  <2> QED BY <2>1, <2>2
<1>9. Shown(g[n], s(n))
  <2>1. m + (n - m) = n
    BY <1>2
  <2> HIDE DEF s, n
  <2> QED BY <1>8, <2>1
<1> QED BY <1>1, <1>9

(* A string of one character is that character. *)
LEMMA OneChar ==
  ASSUME NEW k, On(k, W-1, H-1), NEW c \in Nat, NEW attr \in Attrs
  PROVE  PrintString(k, <<c>>, attr) = Put(k, c, attr)
<1> DEFINE s == <<c>>
<1>1. s \in Seq(Nat) /\ Len(s) = 1 /\ s[1] = c
  OBVIOUS
<1> HIDE DEF s
<1>2. PICK g : /\ g[0] = k /\ PrintString(k, s, attr) = g[Len(s)]
               /\ \A i \in 1 .. Len(s) : g[i] = Put(g[i-1], s[i], attr)
  BY <1>1, PrintSteps
<1>3. g[1] = Put(g[1-1], s[1], attr) /\ 1 - 1 = 0
  BY <1>1, <1>2
<1> QED BY <1>1, <1>2, <1>3 DEF s

(* The \b, blank, \b that sh_loop prints are three calls of print_char. *)
LEMMA ThreeChars ==
  ASSUME NEW k, On(k, W-1, H-1), NEW a \in Nat, NEW b \in Nat, NEW c \in Nat, NEW attr \in Attrs
  PROVE  PrintString(k, <<a, b, c>>, attr) = Put(Put(Put(k, a, attr), b, attr), c, attr)
<1> DEFINE s == <<a, b, c>>
<1>1. s \in Seq(Nat) /\ Len(s) = 3 /\ s[1] = a /\ s[2] = b /\ s[3] = c
  OBVIOUS
<1> HIDE DEF s
<1>2. PICK g : /\ g[0] = k /\ PrintString(k, s, attr) = g[Len(s)]
               /\ \A i \in 1 .. Len(s) : g[i] = Put(g[i-1], s[i], attr)
  BY <1>1, PrintSteps
<1>3. g[1] = Put(g[0], s[1], attr)
  <2>1. g[1] = Put(g[1-1], s[1], attr) /\ 1 - 1 = 0
    BY <1>1, <1>2
  <2> QED BY <2>1
<1>4. g[2] = Put(g[1], s[2], attr)
  <2>1. g[2] = Put(g[2-1], s[2], attr) /\ 2 - 1 = 1
    BY <1>1, <1>2
  <2> QED BY <2>1
<1>5. g[3] = Put(g[2], s[3], attr)
  <2>1. g[3] = Put(g[3-1], s[3], attr) /\ 3 - 1 = 2
    BY <1>1, <1>2
  <2> QED BY <2>1
<1> QED BY <1>1, <1>2, <1>3, <1>4, <1>5 DEF s
=============================================================================
