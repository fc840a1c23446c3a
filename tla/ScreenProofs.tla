----------------------------- MODULE ScreenProofs -----------------------------
(***************************************************************************)
(* Theorems about Screen, for every width and height of the screen.        *)
(***************************************************************************)
EXTENDS Screen, ConsoleProofs

-----------------------------------------------------------------------------
(* Between two calls the cursor is on the screen, which is blank below it. *)

Inv == On(con, W-1, H-1) /\ above \in Seq([0 .. W-1 -> Cells])

(* The row that a character scrolls away. *)
LEMMA TopRow ==
  ASSUME NEW k, On(k, W-1, H)
  PROVE  Row(k, 0) \in [0 .. W-1 -> Cells]
<1>1. \A x \in 0 .. W-1 : 0 * W + x \in Index
  BY CellIndex, Size
<1>2. k.vmem \in [Index -> Cells]
  BY DEF On, Consoles
<1> QED BY <1>1, <1>2 DEF Row

(* The cleared screen satisfies the invariant. *)
LEMMA InitInv == Init => Inv
<1> SUFFICES ASSUME Init PROVE Inv
  OBVIOUS
<1>1. On(con, W-1, H-1)
  BY ClearOn DEF Init
<1> QED BY <1>1 DEF Init, Inv

(* Every call keeps it. *)
LEMMA NextInv == Inv /\ [Next]_vars => Inv'
<1> SUFFICES ASSUME Inv, [Next]_vars PROVE Inv'
  OBVIOUS
<1>0. On(con, W-1, H-1) /\ above \in Seq([0 .. W-1 -> Cells])
  BY DEF Inv
<1>1. ASSUME NEW c \in Nat, NEW attr \in Attrs, print_char_color(c, attr)
      PROVE  Inv'
  <2>1. /\ On(Put(con, c, attr), W-1, H-1)
        /\ Row(Wrap(Place(con, c, attr)), 0) \in [0 .. W-1 -> Cells]
    BY <1>0, PutOn, FullOn, TopRow
  <2>2. con' = Put(con, c, attr)
    BY <1>1 DEF print_char_color
  <2>3. above' = above \/ above' = Append(above, Row(Wrap(Place(con, c, attr)), 0))
    BY <1>1 DEF print_char_color
  <2>4. above' \in Seq([0 .. W-1 -> Cells])
    BY <1>0, <2>1, <2>3, AppendProperties
  <2>5. On(con', W-1, H-1)
    BY <2>1, <2>2
  <2> QED BY <2>4, <2>5 DEF Inv, On, CleanBelow
<1>2. ASSUME clear
      PROVE  Inv'
  <2>1. con' = [vmem |-> [i \in Index |-> Blank], cx |-> 0, cy |-> 0, hw |-> con.hw]
    BY <1>0, <1>2 DEF clear, Clear, On, Consoles
  <2>2. con.hw \in Nat
    BY <1>0 DEF On, Consoles
  <2>3. On(con', W-1, H-1)
    BY <2>1, <2>2, ClearOn
  <2>4. above' \in Seq([0 .. W-1 -> Cells])
    BY <1>2 DEF clear
  <2> QED BY <2>3, <2>4 DEF Inv, On, CleanBelow
<1>3. ASSUME UNCHANGED vars
      PROVE  Inv'
  BY <1>0, <1>3 DEF vars, Inv, On, CleanBelow
<1>4. \A c \in PrintChars : c \in Nat
  BY ScreenAssumption
<1>5. \A attr \in PrintAttrs \cup {DEFAULT} : attr \in Attrs
  BY ScreenAssumption DEF DEFAULT, Attrs
<1>6. ASSUME NEW c \in PrintChars, print_char(c)
      PROVE  Inv'
  BY <1>1, <1>4, <1>5, <1>6 DEF print_char
<1> QED BY <1>1, <1>2, <1>3, <1>4, <1>5, <1>6 DEF Next

(* In every reachable state the cursor is on the screen and the rows below *)
(* it are blank.                                                           *)
LEMMA Invariance == Spec => []Inv
BY InitInv, NextInv, PTL DEF Spec

(* For every size of the screen, no call of print_char, print_char_color   *)
(* or clear leaves the cursor off the screen or a cell that is no cell.    *)
THEOREM TypeCorrect == Spec => []TypeOK
<1>1. Inv => TypeOK
  BY Size DEF Inv, On, TypeOK
<1> QED BY <1>1, Invariance, PTL

(* For every size of the screen the rows below the cursor are blank when a *)
(* call returns, however the text wrapped and scrolled.                    *)
THEOREM BelowBlankCorrect == Spec => []BelowBlank
<1>1. ASSUME Inv PROVE BelowBlank
  <2> SUFFICES ASSUME NEW y \in con.cy + 1 .. H-1, NEW x \in 0 .. W-1
               PROVE  Row(con, y)[x] = Blank
    BY DEF BelowBlank
  <2>1. con.cy \in Nat /\ CleanBelow(con)
    BY <1>1, Size DEF Inv, On
  <2>2. y \in Nat /\ con.cy < y /\ y < H
    BY <2>1, Size
  <2>3. con.vmem[y * W + x] = Blank
    BY <2>1, <2>2 DEF CleanBelow
  <2> QED BY <2>3 DEF Row
<1> QED BY <1>1, Invariance, PTL

-----------------------------------------------------------------------------
(* Refinement: the screen is the end of a roll of paper.  First sequences  *)
(* that differ at their ends.                                              *)

Rows == [0 .. W-1 -> Cells]

(* Rows scrolled off and rows on the screen, as one sequence. *)
LEMMA Glue ==
  ASSUME NEW ab \in Seq(Rows), NEW n \in Nat, NEW f \in [1 .. n -> Rows]
  PROVE  /\ f \in Seq(Rows) /\ Len(f) = n
         /\ ab \o f \in Seq(Rows) /\ Len(ab \o f) = Len(ab) + n
         /\ ab \o f = [i \in 1 .. Len(ab) + n |-> IF i <= Len(ab) THEN ab[i] ELSE f[i - Len(ab)]]
<1>1. f \in Seq(Rows) /\ Len(f) = n
  OBVIOUS
<1> DEFINE t == ab \o f
<1>2. /\ t \in Seq(Rows) /\ Len(t) = Len(ab) + n
      /\ \A i \in 1 .. Len(t) : t[i] = IF i <= Len(ab) THEN ab[i] ELSE f[i - Len(ab)]
  BY <1>1, ConcatProperties
<1> HIDE DEF t
<1>3. t = [i \in 1 .. Len(t) |-> t[i]]
  BY <1>2
<1> QED BY <1>1, <1>2, <1>3 DEF t

(* Writing in the last row on the screen is writing at the end of the      *)
(* roll.                                                                   *)
LEMMA GlueReplace ==
  ASSUME NEW ab \in Seq(Rows), NEW n \in Nat \ {0}, NEW f \in [1 .. n -> Rows], NEW r \in Rows
  PROVE  [ab \o f EXCEPT ![Len(ab) + n] = r] = ab \o [f EXCEPT ![n] = r]
<1> DEFINE g == [f EXCEPT ![n] = r]
           a == Len(ab)
<1>1. g \in [1 .. n -> Rows] /\ a \in Nat /\ \A i \in 1 .. n : g[i] = IF i = n THEN r ELSE f[i]
  OBVIOUS
<1>2. ab \o g = [i \in 1 .. a + n |-> IF i <= a THEN ab[i] ELSE g[i - a]]
  BY <1>1, Glue
<1>3. ab \o f = [i \in 1 .. a + n |-> IF i <= a THEN ab[i] ELSE f[i - a]]
  BY Glue
<1> HIDE DEF g, a
<1>4. ab \o g = [i \in 1 .. a + n |-> IF i = a + n THEN r ELSE IF i <= a THEN ab[i] ELSE f[i - a]]
  BY <1>1, <1>2
<1>5. [ab \o f EXCEPT ![a + n] = r] = ab \o g
  BY <1>1, <1>3, <1>4
<1> QED BY <1>5 DEF g, a

(* A row more on the screen is a row more on the roll. *)
LEMMA GlueAppend ==
  ASSUME NEW ab \in Seq(Rows), NEW n \in Nat, NEW f \in [1 .. n -> Rows],
         NEW m, m = n + 1, NEW g \in [1 .. m -> Rows], \A i \in 1 .. n : g[i] = f[i]
  PROVE  Append(ab \o f, g[m]) = ab \o g
<1> DEFINE a == Len(ab)
           t == ab \o f
<1>1. a \in Nat /\ m \in Nat
  OBVIOUS
<1>2. ab \o g = [i \in 1 .. a + m |-> IF i <= a THEN ab[i] ELSE g[i - a]]
  BY <1>1, Glue
<1>3. /\ t \in Seq(Rows) /\ Len(t) = a + n
      /\ t = [i \in 1 .. a + n |-> IF i <= a THEN ab[i] ELSE f[i - a]]
  BY Glue
<1> HIDE DEF a, t
<1>4. Append(t, g[m]) = [i \in 1 .. a + n + 1 |-> IF i = a + n + 1 THEN g[m] ELSE t[i]]
  BY <1>1, <1>3
<1>5. \A i \in 1 .. a + n + 1 :
        Append(t, g[m])[i] = IF i <= a THEN ab[i] ELSE g[i - a]
  BY <1>1, <1>3, <1>4
<1> QED BY <1>1, <1>2, <1>4, <1>5 DEF t

(* So is a row scrolled off, with the others moved up. *)
LEMMA GlueShift ==
  ASSUME NEW ab \in Seq(Rows), NEW n \in Nat, NEW f \in [1 .. n -> Rows],
         NEW m, m = n + 1, NEW g \in [1 .. m -> Rows], \A i \in 1 .. n : g[i + 1] = f[i]
  PROVE  Append(ab, g[1]) \o f = ab \o g
<1> DEFINE a == Len(ab)
           b == Append(ab, g[1])
<1>1. a \in Nat /\ m \in Nat /\ g[1] \in Rows
  OBVIOUS
<1>2. ab \o g = [i \in 1 .. a + m |-> IF i <= a THEN ab[i] ELSE g[i - a]]
  BY <1>1, Glue
<1>3. /\ b \in Seq(Rows) /\ Len(b) = a + 1 /\ b[a + 1] = g[1]
      /\ \A i \in 1 .. a : b[i] = ab[i]
  BY <1>1, AppendProperties
<1> HIDE DEF b
<1>4. b \o f = [i \in 1 .. Len(b) + n |-> IF i <= Len(b) THEN b[i] ELSE f[i - Len(b)]]
  <2>1. b \in Seq(Rows)
    BY <1>3
  <2> QED BY <2>1, Glue
<1> HIDE DEF a
<1>5. ASSUME NEW i \in 1 .. a + m
      PROVE  (IF i <= a + 1 THEN b[i] ELSE f[i - (a + 1)]) = IF i <= a THEN ab[i] ELSE g[i - a]
  <2>1. CASE i <= a
    BY <1>1, <1>3, <2>1
  <2>2. CASE i = a + 1
    BY <1>1, <1>3, <2>2
  <2>3. CASE i > a + 1
    <3>1. i - (a + 1) \in 1 .. n /\ (i - (a + 1)) + 1 = i - a
      BY <1>1, <2>3
    <3> QED BY <1>1, <2>3, <3>1
  <2> QED BY <1>1, <2>1, <2>2, <2>3
<1>6. Len(b) + n = a + m
  BY <1>1, <1>3
<1> QED BY <1>2, <1>3, <1>4, <1>5, <1>6, SMTT(20) DEF b

(* Also the row past the screen that is about to be scrolled in.           *)
BlankLine == [x \in 0 .. W-1 |-> Blank]
RowAt(k, y) == IF y < H THEN Row(k, y) ELSE BlankLine
Lines(k) == [y \in 1 .. k.cy + 1 |-> RowAt(k, y - 1)]

(* What is in the text memory are rows. *)
LEMMA RowType ==
  ASSUME NEW k, k \in Consoles, NEW y \in 0 .. H-1
  PROVE  Row(k, y) \in Rows
<1>1. \A x \in 0 .. W-1 : y * W + x \in Index
  BY CellIndex
<1>2. k.vmem \in [Index -> Cells]
  BY DEF Consoles
<1> QED BY <1>1, <1>2 DEF Row, Rows

(* The rows down to the cursor's. *)
LEMMA LinesType ==
  ASSUME NEW k, k \in Consoles, k.cy \in 0 .. H
  PROVE  k.cy + 1 \in Nat \ {0} /\ Lines(k) \in [1 .. k.cy + 1 -> Rows]
<1>2. BlankLine \in Rows
  BY BlankCell DEF BlankLine, Rows
<1>3. \A y \in 1 .. k.cy + 1 : RowAt(k, y - 1) \in Rows
  BY <1>2, RowType, Size DEF RowAt
<1> QED BY <1>3, Size DEF Lines

(* On the screen, the last of them is the cursor's. *)
LEMMA OnLines ==
  ASSUME NEW k, On(k, W-1, H-1)
  PROVE  /\ On(k, W-1, H)
         /\ Lines(k) = [y \in 1 .. k.cy + 1 |-> Row(k, y - 1)]
         /\ Lines(k)[k.cy + 1] = Row(k, k.cy)
<1>1. k.cy \in 0 .. H-1 /\ On(k, W-1, H)
  BY Size DEF On
<1>2. \A y \in 1 .. k.cy + 1 : RowAt(k, y - 1) = Row(k, y - 1)
  BY <1>1, Size DEF RowAt
<1> QED BY <1>1, <1>2, Size DEF Lines

(* What scrolls off the screen goes to the end of what did before.         *)
LEMMA Scrolled ==
  ASSUME NEW k, On(k, W-1, H), NEW ab \in Seq(Rows),
         NEW m, m = UpdateCursor(Scroll(k)),
         NEW ab2, ab2 = IF k.cy < H THEN ab ELSE Append(ab, Row(k, 0))
  PROVE  ab2 \o Lines(m) = ab \o Lines(k) /\ m.cx = k.cx
<1>1. /\ k \in Consoles /\ k.cy \in 0 .. H /\ k.vmem \in [Index -> Cells]
      /\ k = [vmem |-> k.vmem, cx |-> k.cx, cy |-> k.cy, hw |-> k.hw]
  BY DEF On, Consoles
<1>2. CASE k.cy < H
  <2>1. m = [k EXCEPT !.hw = Pos(k) % Positions] /\ ab2 = ab
    BY <1>2 DEF Scroll, UpdateCursor
  <2> DEFINE h == Pos(k) % Positions
  <2> HIDE DEF h
  <2>2. m.vmem = k.vmem /\ m.cy = k.cy /\ m.cx = k.cx
    BY <1>1, <2>1 DEF h
  <2>3. \A y \in 1 .. k.cy + 1 : RowAt(m, y - 1) = RowAt(k, y - 1)
    BY <2>2 DEF RowAt, Row
  <2>4. Lines(m) = Lines(k)
    BY <2>2, <2>3 DEF Lines
  <2>5. ab2 \o Lines(m) = ab2 \o Lines(k)
    BY <2>4
  <2>6. ab2 = ab
    BY <2>1
  <2>7. ab2 \o Lines(k) = ab \o Lines(k)
    BY <2>6
  <2>8. m.cx = k.cx
    BY <2>2
  <2> QED BY <2>5, <2>7, <2>8
<1>3. CASE ~(k.cy < H)
  <2> DEFINE up == [i \in Index |-> IF i < (H-1) * W THEN k.vmem[i + W] ELSE Blank]
             s == [vmem |-> up, cx |-> k.cx, cy |-> H-1, hw |-> k.hw]
  <2>1. Scroll(k) = s /\ k.cy = H /\ ab2 = Append(ab, Row(k, 0))
    <3>1. k.cy = H /\ ab2 = Append(ab, Row(k, 0))
      BY <1>1, <1>3, Size
    <3>2. Scroll(k) = [k EXCEPT !.vmem = up, !.cy = H - 1]
      BY <1>3 DEF Scroll
    <3> HIDE DEF up
    <3> QED BY <1>1, <3>1, <3>2
  <2>2. m.vmem = up /\ m.cy = H-1 /\ m.cx = k.cx
    <3> DEFINE h == Pos(s) % Positions
    <3>1. m = [s EXCEPT !.hw = h]
      BY <2>1 DEF UpdateCursor
    <3> HIDE DEF h, up
    <3> QED BY <3>1
  <2>3. ASSUME NEW y \in 0 .. H-1
        PROVE  Row(m, y) = RowAt(k, y + 1)
    <3>1. ASSUME NEW x \in 0 .. W-1
          PROVE  /\ y * W + x \in Index
                 /\ y < H-1 => y * W + x < (H-1) * W /\ y * W + x + W = (y + 1) * W + x
                 /\ y = H-1 => ~(y * W + x < (H-1) * W)
      <4>1. y * W + x \in Index
        BY CellIndex
      <4>2. y < H-1 => y * W + W <= (H-1) * W
        BY LaterRow, Size
      <4>3. (y + 1) * W = y * W + W /\ y * W \in Nat /\ (H-1) * W \in Nat
        BY Size
      <4> DEFINE a == y * W
                 b == (H-1) * W
                 n == (y + 1) * W
      <4>4. /\ y < H-1 => a + W <= b
            /\ y = H-1 => a = b
            /\ a \in Nat /\ b \in Nat /\ n = a + W
        BY <4>2, <4>3
      <4> HIDE DEF a, b, n
      <4>5. /\ y < H-1 => a + x < b /\ a + x + W = n + x
            /\ y = H-1 => ~(a + x < b)
        BY <4>4, Size
      <4> QED BY <4>1, <4>5 DEF a, b, n
    <3>2. CASE y < H-1
      <4>1. \A x \in 0 .. W-1 : up[y * W + x] = k.vmem[(y + 1) * W + x]
        BY <3>1, <3>2
      <4> HIDE DEF up
      <4>2. Row(m, y) = Row(k, y + 1)
        BY <2>2, <4>1 DEF Row
      <4>3. y + 1 < H
        BY <3>2, Size
      <4> QED BY <4>2, <4>3 DEF RowAt
    <3>3. CASE y = H-1
      <4>1. \A x \in 0 .. W-1 : up[y * W + x] = Blank
        BY <3>1, <3>3
      <4> HIDE DEF up
      <4>2. Row(m, y) = BlankLine
        BY <2>2, <4>1 DEF Row, BlankLine
      <4> QED BY <3>3, <4>2, Size DEF RowAt
    <3> QED BY <3>2, <3>3, Size
  <2> HIDE DEF up
  <2>4. Lines(m) = [y \in 1 .. H |-> Row(m, y - 1)]
    BY <2>2, Size DEF Lines, RowAt
  <2>5. \A y \in 1 .. H : Row(m, y - 1) \in Rows /\ Lines(k)[y + 1] = Row(m, y - 1)
    <3> SUFFICES ASSUME NEW y \in 1 .. H
                 PROVE  Row(m, y - 1) \in Rows /\ Lines(k)[y + 1] = Row(m, y - 1)
      OBVIOUS
    <3>1. Lines(k)[y + 1] = RowAt(k, y)
      BY <2>1, Size DEF Lines
    <3>2. y - 1 \in 0 .. H-1 /\ (y - 1) + 1 = y
      BY Size
    <3>3. Row(m, y - 1) = RowAt(k, y)
      BY <2>3, <3>2
    <3>4. Lines(k)[y + 1] \in Rows
      <4>1. Lines(k) \in [1 .. H + 1 -> Rows] /\ y + 1 \in 1 .. H + 1
        <5>1. Lines(k) \in [1 .. H + 1 -> Rows]
          BY <1>1, <2>1, LinesType
        <5> QED BY <5>1, Size
      <4> QED BY <4>1
    <3> QED BY <3>1, <3>3, <3>4
  <2>6. Lines(m) \in [1 .. H -> Rows] /\ \A y \in 1 .. H : Lines(k)[y + 1] = Lines(m)[y]
    BY <2>4, <2>5
  <2>7. Lines(k) \in [1 .. H + 1 -> Rows] /\ Lines(k)[1] = Row(k, 0)
    <3>1. Lines(k) \in [1 .. H + 1 -> Rows]
      BY <1>1, <2>1, LinesType
    <3>2. Lines(k)[1] = RowAt(k, 0)
      BY <2>1, Size DEF Lines
    <3>3. RowAt(k, 0) = Row(k, 0)
      BY Size DEF RowAt
    <3> QED BY <3>1, <3>2, <3>3
  <2>8. Append(ab, Lines(k)[1]) \o Lines(m) = ab \o Lines(k)
    <3> DEFINE f == Lines(m)
               g == Lines(k)
               n == H + 1
    <3>1. f \in [1 .. H -> Rows] /\ g \in [1 .. n -> Rows] /\ \A y \in 1 .. H : g[y + 1] = f[y]
      BY <2>6, <2>7
    <3>2. n = H + 1 /\ H \in Nat
      BY Size
    <3>3. ab \in Seq(Rows)
      OBVIOUS
    <3> HIDE DEF f, g, n
    <3> HIDE DEF Rows
    <3>4. Append(ab, g[1]) \o f = ab \o g
      BY <3>1, <3>2, <3>3, GlueShift
    <3> QED BY <3>4 DEF f, g
  <2> QED BY <2>1, <2>2, <2>7, <2>8
<1> QED BY <1>2, <1>3

(* A cell written in the last row, and the row that follows a full one.    *)
Change(f, i, v) == [f EXCEPT ![i] = v]
Written(t, x, c, attr) == [t EXCEPT ![Len(t)] = [t[Len(t)] EXCEPT ![x] = Cell(c, attr)]]

(* A cell written in the cursor's row is written in the last line of the   *)
(* roll.                                                                   *)
LEMMA LastLineWritten ==
  ASSUME NEW k, On(k, W-1, H-1), NEW ab \in Seq(Rows), NEW x \in 0 .. W-1,
         NEW c \in Printable, NEW attr \in Attrs,
         NEW p, p \in Consoles, p.cy = k.cy,
         p.vmem = Change(k.vmem, k.cy * W + x, Cell(c, attr))
  PROVE  ab \o Lines(p) = Written(ab \o Lines(k), x, c, attr)
<1> DEFINE v == Cell(c, attr)
           t == ab \o Lines(k)
<1> HIDE DEF v, t
<1>0. v \in Cells /\ p.vmem = [k.vmem EXCEPT ![k.cy * W + x] = v] /\ t = ab \o Lines(k)
  BY DEF Change, Cell, Cells, v, t
<1> DEFINE n == k.cy + 1
           r == [Row(k, k.cy) EXCEPT ![x] = v]
           f == Lines(k)
<1>1. k \in Consoles /\ k.cy \in 0 .. H-1 /\ k.vmem \in [Index -> Cells]
  BY DEF On, Consoles
<1>2. n \in Nat \ {0} /\ f \in [1 .. n -> Rows] /\ f[n] = Row(k, k.cy)
  BY <1>1, LinesType, OnLines, Size
<1>3. r \in Rows
  <2>1. Row(k, k.cy) \in Rows
    BY <1>1, RowType
  <2> QED BY <1>0, <2>1 DEF Rows
<1>4. ASSUME NEW y \in 0 .. k.cy
      PROVE  Row(p, y) = IF y = k.cy THEN r ELSE Row(k, y)
  <2> DEFINE a == k.cy * W
             b == y * W
  <2>1. a \in Nat /\ b \in Nat /\ (y < k.cy => b + W <= a) /\ (y = k.cy => a = b)
    <3>1. y \in 0 .. H-1 /\ y \in Nat /\ k.cy \in Nat
      BY <1>1, Size
    <3>2. y < k.cy => y * W + W <= k.cy * W
      BY <3>1, LaterRow
    <3>3. a \in Nat /\ b \in Nat
      BY <1>1, <3>1, RowStart
    <3> QED BY <3>2, <3>3
  <2>2. ASSUME NEW z \in 0 .. W-1
        PROVE  b + z \in Index /\ (b + z = a + x <=> y = k.cy /\ z = x)
    <3>0. y \in 0 .. H-1
      BY <1>1, Size
    <3>1. b + z \in Index
      BY <3>0, CellIndex
    <3> DEFINE w == k.cy
    <3>2. w \in Nat /\ y \in 0 .. w /\ (y < w => b + W <= a) /\ (y = w => a = b)
      BY <1>1, <2>1
    <3> HIDE DEF a, b, w
    <3>3. b + z = a + x <=> y = w /\ z = x
      BY <2>1, <3>2, Size
    <3> QED BY <3>1, <3>3 DEF w
  <2>3. p.vmem = [k.vmem EXCEPT ![a + x] = v]
    BY <1>0
  <2>4. Row(p, y) = [z \in 0 .. W-1 |-> p.vmem[b + z]] /\ Row(k, y) = [z \in 0 .. W-1 |-> k.vmem[b + z]]
    BY DEF Row
  <2> HIDE DEF a, b
  <2>5. Row(p, y) = [z \in 0 .. W-1 |-> IF y = k.cy /\ z = x THEN v ELSE k.vmem[b + z]]
    BY <1>1, <2>2, <2>3, <2>4
  <2>6. CASE y = k.cy
    BY <2>4, <2>5, <2>6
  <2>7. CASE y # k.cy
    BY <2>4, <2>5, <2>7
  <2> QED BY <2>6, <2>7
<1>5. Lines(p) = [f EXCEPT ![n] = r]
  <2>1. ASSUME NEW y \in 1 .. n
        PROVE  RowAt(p, y - 1) = IF y = n THEN r ELSE f[y]
    <3>1. y - 1 \in 0 .. k.cy /\ y - 1 < H /\ (y - 1 = k.cy <=> y = n)
      <4> DEFINE w == k.cy
      <4>1. w \in 0 .. H-1 /\ n = w + 1
        BY <1>1
      <4> HIDE DEF w, n, r, f
      <4>2. y - 1 \in 0 .. w /\ y - 1 < H /\ (y - 1 = w <=> y = n)
        BY <4>1, Size
      <4> QED BY <4>2 DEF w
    <3>2. Row(p, y - 1) = IF y - 1 = k.cy THEN r ELSE Row(k, y - 1)
      BY <1>4, <3>1
    <3>3. f[y] = RowAt(k, y - 1)
      BY DEF Lines
    <3> HIDE DEF r, f, n
    <3> QED BY <3>1, <3>2, <3>3 DEF RowAt
  <2>2. Lines(p) = [y \in 1 .. n |-> RowAt(p, y - 1)]
    BY DEF Lines
  <2> HIDE DEF n, r, f
  <2> QED BY <1>2, <2>1, <2>2
<1> HIDE DEF n, r, f
<1>6. Len(t) = Len(ab) + n /\ t[Len(t)] = f[n]
  <2>1. /\ Len(ab \o f) = Len(ab) + n
        /\ ab \o f = [i \in 1 .. Len(ab) + n |-> IF i <= Len(ab) THEN ab[i] ELSE f[i - Len(ab)]]
    BY <1>2, Glue
  <2>2. t = ab \o f
    BY DEF f, t
  <2>3. Len(ab) \in Nat
    OBVIOUS
  <2> QED BY <1>2, <2>1, <2>2, <2>3
<1>7. [ab \o f EXCEPT ![Len(ab) + n] = r] = ab \o [f EXCEPT ![n] = r]
  BY <1>2, <1>3, GlueReplace
<1>8. t = ab \o f /\ r = [t[Len(t)] EXCEPT ![x] = v]
  BY <1>2, <1>6 DEF f, r, t
<1>9. ab \o Lines(p) = [t EXCEPT ![Len(t)] = [t[Len(t)] EXCEPT ![x] = v]]
  BY <1>5, <1>6, <1>7, <1>8
<1> QED BY <1>9 DEF t, v, Written

(* The row below the cursor's is blank: moving down adds a blank line. *)
LEMMA LineFollows ==
  ASSUME NEW p, p \in Consoles, p.cy \in 0 .. H-1, CleanBelow(p), NEW ab \in Seq(Rows),
         NEW q, q.vmem = p.vmem, q.cy = p.cy + 1
  PROVE  ab \o Lines(q) = Append(ab \o Lines(p), BlankLine)
<1> DEFINE n == p.cy + 1
           m == n + 1
           f == Lines(p)
           g == Lines(q)
<1>1. n \in Nat /\ f \in [1 .. n -> Rows]
  BY LinesType, Size
<1>2. BlankLine \in Rows
  BY BlankCell DEF BlankLine, Rows
<1>3. RowAt(q, n) = BlankLine
  <2>1. CASE n < H
    <3>1. \A x \in 0 .. W-1 : p.vmem[n * W + x] = Blank
      <4>1. n \in Nat /\ p.cy < n
        BY <1>1, Size
      <4> HIDE DEF n
      <4> QED BY <2>1, <4>1 DEF CleanBelow
    <3>2. Row(q, n) = BlankLine
      BY <3>1 DEF Row, BlankLine
    <3> QED BY <2>1, <3>2 DEF RowAt
  <2> QED BY <2>1 DEF RowAt
<1>4. \A y \in 1 .. n : RowAt(q, y - 1) = RowAt(p, y - 1)
  BY DEF RowAt, Row
<1>5. g = [y \in 1 .. m |-> RowAt(q, y - 1)] /\ f = [y \in 1 .. n |-> RowAt(p, y - 1)]
  BY DEF Lines
<1>6. m = n + 1
  OBVIOUS
<1> HIDE DEF n, m, f, g
<1>7. g[m] = BlankLine /\ (\A y \in 1 .. n : g[y] = f[y])
  BY <1>1, <1>3, <1>4, <1>5, <1>6
<1>8. g \in [1 .. m -> Rows]
  <2>1. \A y \in 1 .. m : g[y] \in Rows
    BY <1>1, <1>2, <1>6, <1>7
  <2> QED BY <1>5, <2>1
<1>9. Append(ab \o f, BlankLine) = ab \o g
  <2>1. Append(ab \o f, g[m]) = ab \o g
    BY <1>1, <1>6, <1>7, <1>8, GlueAppend, ZenonT(30)
  <2> QED BY <1>7, <2>1
<1> QED BY <1>9 DEF f, g

(* What a character does to the rows, before the screen is scrolled.       *)
Full(k, c, attr) == Wrap(Place(k, c, attr))

(* A backspace blanks a cell of the last line. *)
LEMMA Erased ==
  ASSUME NEW k, On(k, W-1, H-1), NEW ab \in Seq(Rows), NEW attr \in Attrs, k.cx > 0
  PROVE  /\ Full(k, BS, attr).cx = k.cx - 1
         /\ ab \o Lines(Full(k, BS, attr)) = Written(ab \o Lines(k), k.cx - 1, SPACE, attr)
<1> DEFINE p == Place(k, BS, attr)
           x == k.cx - 1
           v == Cell(SPACE, attr)
<1>1. /\ k \in Consoles /\ k.cx \in 1 .. W-1 /\ k.cy \in 0 .. H-1 /\ k.vmem \in [Index -> Cells]
      /\ k = [vmem |-> k.vmem, cx |-> k.cx, cy |-> k.cy, hw |-> k.hw]
  BY Size DEF On, Consoles
<1>2. x \in 0 .. W-1 /\ x < W /\ Pos(k) - 1 = k.cy * W + x
  <2> DEFINE r == k.cy * W
  <2>1. r \in Nat
    BY <1>1, RowStart
  <2> DEFINE u == k.cx
  <2>2. u \in 1 .. W-1
    BY <1>1
  <2> HIDE DEF r, u
  <2>3. u - 1 \in 0 .. W-1 /\ u - 1 < W /\ (r + u) - 1 = r + (u - 1)
    BY <2>1, <2>2, Size
  <2> QED BY <2>3 DEF Pos, r, u
<1>3. p = [vmem |-> [k.vmem EXCEPT ![Pos(k) - 1] = v], cx |-> x, cy |-> k.cy, hw |-> k.hw]
  BY <1>1 DEF Place
<1>4. BS \in Nat /\ SPACE \in Printable
  BY DEF BS, SPACE, Printable
<1>a. p \in Consoles
  BY <1>4, PlaceOn
<1> HIDE DEF p, x, v
<1>5. Full(k, BS, attr) = p
  BY <1>2, <1>3, Size DEF Full, Wrap, p
<1>6. p.cx = x /\ p.cy = k.cy /\ p.vmem = Change(k.vmem, k.cy * W + x, v)
  BY <1>2, <1>3 DEF Change
<1>7. ab \o Lines(p) = Written(ab \o Lines(k), x, SPACE, attr)
  BY <1>a, <1>2, <1>4, <1>6, LastLineWritten DEF v
<1> QED BY <1>5, <1>6, <1>7 DEF x

(* A newline ends the last line. *)
LEMMA LineEnded ==
  ASSUME NEW k, On(k, W-1, H-1), NEW ab \in Seq(Rows), NEW attr \in Attrs
  PROVE  /\ Full(k, NL, attr).cx = 0
         /\ ab \o Lines(Full(k, NL, attr)) = Append(ab \o Lines(k), BlankLine)
<1> DEFINE q == Place(k, NL, attr)
<1>1. /\ k \in Consoles /\ k.cy \in 0 .. H-1 /\ CleanBelow(k)
      /\ k = [vmem |-> k.vmem, cx |-> k.cx, cy |-> k.cy, hw |-> k.hw]
  BY DEF On, Consoles
<1>2. q = [vmem |-> k.vmem, cx |-> 0, cy |-> k.cy + 1, hw |-> k.hw]
  <2>1. q = [k EXCEPT !.cx = 0, !.cy = k.cy + 1]
    BY DEF Place, NL, BS
  <2> HIDE DEF q
  <2> QED BY <1>1, <2>1
<1> HIDE DEF q
<1>3. Full(k, NL, attr) = q
  BY <1>2, Size DEF Full, Wrap, q
<1>4. q.vmem = k.vmem /\ q.cy = k.cy + 1 /\ q.cx = 0
  BY <1>2
<1>5. ab \o Lines(q) = Append(ab \o Lines(k), BlankLine)
  BY <1>1, <1>4, LineFollows
<1> QED BY <1>3, <1>4, <1>5

(* A character goes to the last line, which it may fill and end. *)
LEMMA CharacterWritten ==
  ASSUME NEW k, On(k, W-1, H-1), NEW ab \in Seq(Rows), NEW attr \in Attrs, NEW c \in Printable
  PROVE  IF k.cx + 1 < W
         THEN /\ Full(k, c, attr).cx = k.cx + 1
              /\ ab \o Lines(Full(k, c, attr)) = Written(ab \o Lines(k), k.cx, c, attr)
         ELSE /\ Full(k, c, attr).cx = 0
              /\ ab \o Lines(Full(k, c, attr)) =
                   Append(Written(ab \o Lines(k), k.cx, c, attr), BlankLine)
<1> DEFINE p == Place(k, c, attr)
           x == k.cx
           v == Cell(c, attr)
<1>1. /\ k \in Consoles /\ x \in 0 .. W-1 /\ k.cy \in 0 .. H-1 /\ k.vmem \in [Index -> Cells]
      /\ k = [vmem |-> k.vmem, cx |-> k.cx, cy |-> k.cy, hw |-> k.hw]
      /\ c \in Nat /\ c # BS /\ c # NL
  BY DEF On, Consoles, Printable, SPACE, BS, NL
<1>2. p = [vmem |-> [k.vmem EXCEPT ![Pos(k)] = v], cx |-> x + 1, cy |-> k.cy, hw |-> k.hw]
  BY <1>1 DEF Place
<1>3. p \in Consoles /\ CleanBelow(p) /\ v \in Cells
  BY <1>1, PlaceOn DEF Cell, Cells
<1> HIDE DEF p, v
<1>4. p.cx = x + 1 /\ p.cy = k.cy /\ p.vmem = Change(k.vmem, k.cy * W + x, v)
  BY <1>2 DEF Pos, Change
<1> HIDE DEF x
<1>5. ab \o Lines(p) = Written(ab \o Lines(k), x, c, attr)
  BY <1>1, <1>3, <1>4, LastLineWritten DEF v
<1>6. CASE x + 1 < W
  <2>1. Full(k, c, attr) = p
    BY <1>1, <1>4, <1>6, Size DEF Full, Wrap, p
  <2> QED BY <1>4, <1>5, <1>6, <2>1 DEF x
<1>7. CASE ~(x + 1 < W)
  <2> DEFINE q == [p EXCEPT !.cx = 0, !.cy = p.cy + 1]
  <2>1. Full(k, c, attr) = q
    BY <1>1, <1>4, <1>7, Size DEF Full, Wrap, p
  <2>2. q.vmem = p.vmem /\ q.cy = p.cy + 1 /\ q.cx = 0
    BY <1>3 DEF Consoles
  <2> HIDE DEF q
  <2>3. p.cy \in 0 .. H-1
    BY <1>1, <1>4
  <2>4. ab \o Lines(q) = Append(ab \o Lines(p), BlankLine)
    BY <1>3, <2>2, <2>3, LineFollows
  <2> QED BY <1>5, <1>7, <2>1, <2>2, <2>4 DEF x
<1> QED BY <1>6, <1>7 DEF x

(* The roll, as the refinement mapping makes it up. *)
Roll == above \o [y \in 1 .. con.cy + 1 |-> Row(con, y - 1)]

(* The roll that Teletype sees. *)
LEMMA RollIs ==
  ASSUME Inv
  PROVE  On(con, W-1, H-1) /\ above \in Seq(Rows) /\ Roll = above \o Lines(con)
<1>1. On(con, W-1, H-1) /\ above \in Seq(Rows)
  BY DEF Inv, Rows
<1> QED BY <1>1, OnLines DEF Roll

(* And after a step. *)
LEMMA RollBecomes ==
  ASSUME Inv, Inv'
  PROVE  Roll' = above' \o Lines(con')
<1>1. con'.cy + 1 = (con.cy + 1)' /\ On(con', W-1, H-1)
  BY DEF Inv, On, CleanBelow
<1>2. Lines(con') = [y \in 1 .. con'.cy + 1 |-> Row(con', y - 1)]
  BY <1>1, OnLines
<1>3. Roll' = above' \o [y \in 1 .. con'.cy + 1 |-> Row(con', y - 1)]
  BY DEF Roll, Row
<1> QED BY <1>2, <1>3

(* Scrolling hands the top row over to the rows scrolled off: the roll is  *)
(* that of the screen before it scrolled.                                  *)
LEMMA PrintedRoll ==
  ASSUME Inv, Inv', NEW c \in Nat, NEW attr \in Attrs, print_char_color(c, attr)
  PROVE  Roll' = above \o Lines(Full(con, c, attr)) /\ con'.cx = Full(con, c, attr).cx
<1> DEFINE full == Full(con, c, attr)
<1>1. On(con, W-1, H-1) /\ above \in Seq(Rows)
  BY RollIs
<1>2. On(full, W-1, H)
  BY <1>1, FullOn DEF Full
<1>3. con' = UpdateCursor(Scroll(full))
  BY DEF print_char_color, Put, Full
<1>4. above' = IF full.cy < H THEN above ELSE Append(above, Row(full, 0))
  BY DEF print_char_color, Full
<1> HIDE DEF full
<1>5. above' \o Lines(con') = above \o Lines(full) /\ con'.cx = full.cx
  BY <1>1, <1>2, <1>3, <1>4, Scrolled
<1>6. Roll' = above' \o Lines(con')
  BY RollBecomes
<1> QED BY <1>5, <1>6 DEF full

(* An empty screen is a new roll. *)
LEMMA BlankLines ==
  ASSUME NEW h
  PROVE  LET k == [vmem |-> [i \in Index |-> Blank], cx |-> 0, cy |-> 0, hw |-> h]
         IN  <<>> \o Lines(k) = <<BlankLine>> /\ Lines(k) = <<BlankLine>> /\ k.cx = 0
<1> DEFINE k == [vmem |-> [i \in Index |-> Blank], cx |-> 0, cy |-> 0, hw |-> h]
<1>1. k.vmem = [i \in Index |-> Blank] /\ k.cx = 0 /\ k.cy = 0
  OBVIOUS
<1> HIDE DEF k
<1>2. RowAt(k, 0) = BlankLine
  <2>1. \A x \in 0 .. W-1 : 0 * W + x \in Index
    BY CellIndex, Size
  <2> QED BY <1>1, <2>1 DEF RowAt, Row, BlankLine
<1>3. Lines(k) = [y \in 1 .. 1 |-> BlankLine]
  BY <1>1, <1>2 DEF Lines
<1>4. Lines(k) = <<BlankLine>>
  BY <1>3
<1>5. <<>> \o <<BlankLine>> = <<BlankLine>>
  OBVIOUS
<1> QED BY <1>1, <1>4, <1>5 DEF k

(* Teletype's blank row is the console's. *)
LEMMA PaperRow == Paper!BlankRow = BlankLine
BY DEF Paper!BlankRow, BlankLine, Blank, Cell

(* One character is one step of the roll, or none. *)
LEMMA PrintIsType ==
  ASSUME Inv, Inv', NEW c \in PrintChars, NEW attr \in PrintAttrs \cup {DEFAULT},
         print_char_color(c, attr)
  PROVE  Paper!Next \/ (Roll' = Roll /\ con'.cx = con.cx)
<1> DEFINE full == Full(con, c, attr)
<1>1. c \in Nat /\ attr \in Attrs
  BY ScreenAssumption DEF DEFAULT, Attrs
<1>2. On(con, W-1, H-1) /\ above \in Seq(Rows) /\ Roll = above \o Lines(con)
  BY RollIs
<1>3. Roll' = above \o Lines(full) /\ con'.cx = full.cx
  BY <1>1, PrintedRoll
<1> HIDE DEF full
<1>4. CASE c = BS /\ con.cx > 0
  <2>1. full.cx = con.cx - 1 /\ above \o Lines(full) = Written(above \o Lines(con), con.cx - 1, SPACE, attr)
    BY <1>1, <1>2, <1>4, Erased DEF full
  <2>2. con.cx > 0 /\ con'.cx = con.cx - 1 /\ Roll' = Written(Roll, con.cx - 1, SPACE, attr)
    BY <1>2, <1>3, <1>4, <2>1
  <2>3. Paper!Erase(attr)
    BY <2>2 DEF Paper!Erase, Written, Cell, Roll
  <2> QED BY <2>3 DEF Paper!Next
<1>5. CASE c = NL
  <2>1. full.cx = 0 /\ above \o Lines(full) = Append(above \o Lines(con), BlankLine)
    BY <1>1, <1>2, <1>5, LineEnded DEF full
  <2>2. con'.cx = 0 /\ Roll' = Append(Roll, Paper!BlankRow)
    BY <1>2, <1>3, <2>1, PaperRow
  <2>3. Paper!Newline
    BY <2>2 DEF Paper!Newline, Roll
  <2> QED BY <2>3 DEF Paper!Next
<1>6. CASE c \in Printable
  <2>1. IF con.cx + 1 < W
        THEN /\ full.cx = con.cx + 1
             /\ above \o Lines(full) = Written(above \o Lines(con), con.cx, c, attr)
        ELSE /\ full.cx = 0
             /\ above \o Lines(full) = Append(Written(above \o Lines(con), con.cx, c, attr), BlankLine)
    BY <1>1, <1>2, <1>6, CharacterWritten DEF full
  <2>2. IF con.cx + 1 < W
        THEN con'.cx = con.cx + 1 /\ Roll' = Written(Roll, con.cx, c, attr)
        ELSE con'.cx = 0 /\ Roll' = Append(Written(Roll, con.cx, c, attr), Paper!BlankRow)
    BY <1>2, <1>3, <2>1, PaperRow
  <2>3. Paper!Type(c, attr)
    BY <2>2 DEF Paper!Type, Written, Cell, Roll
  <2> QED BY <1>6, <2>3 DEF Paper!Next
<1>7. CASE ~(c = BS /\ con.cx > 0) /\ c # NL /\ c \notin Printable
  <2>1. Place(con, c, attr) = con
    BY <1>7 DEF Place
  <2>2. Wrap(con) = con
    <3>1. ~(con.cx >= W)
      BY <1>2, Size DEF On
    <3> QED BY <3>1, Zenon DEF Wrap
  <2>3. full = con
    BY <2>1, <2>2 DEF full, Full
  <2> QED BY <1>2, <1>3, <2>3
<1> QED BY <1>4, <1>5, <1>6, <1>7

(* clear takes a new sheet. *)
LEMMA ClearIsClear ==
  ASSUME Inv, Inv', clear
  PROVE  Paper!Next
<1> DEFINE k == [vmem |-> [i \in Index |-> Blank], cx |-> 0, cy |-> 0, hw |-> con.hw]
<1>1. con \in Consoles
  BY DEF Inv, On
<1>2. con' = k /\ above' = <<>>
  BY <1>1 DEF clear, Clear, Consoles
<1> HIDE DEF k
<1>3. Roll' = <<>> \o Lines(k)
  BY <1>2, RollBecomes
<1>4. Lines(k) = <<BlankLine>> /\ k.cx = 0
  BY BlankLines DEF k
<1>5. Roll' = <<Paper!BlankRow>> /\ con'.cx = 0
  BY <1>2, <1>3, <1>4, PaperRow
<1>6. Paper!Clear
  BY <1>5 DEF Paper!Clear, Roll
<1> QED BY <1>6 DEF Paper!Next

(* The cleared screen is a new sheet. *)
LEMMA RollStarts == Init => Paper!Init
<1> SUFFICES ASSUME Init PROVE Paper!Init
  OBVIOUS
<1> DEFINE k == [vmem |-> [i \in Index |-> Blank], cx |-> 0, cy |-> 0, hw |-> 0]
<1>1. con = k /\ above = <<>>
  BY DEF Init
<1> HIDE DEF k
<1>2. Roll = <<>> \o Lines(k)
  BY <1>1, InitInv, RollIs
<1>3. Lines(k) = <<BlankLine>> /\ k.cx = 0
  BY BlankLines DEF k
<1> QED BY <1>1, <1>2, <1>3, PaperRow DEF Paper!Init, Roll

(* Every call is one of Teletype. *)
LEMMA RollGrows == Inv /\ Inv' /\ [Next]_vars => [Paper!Next]_(Paper!vars)
<1> SUFFICES ASSUME Inv, Inv', [Next]_vars
             PROVE  Paper!Next \/ (Roll' = Roll /\ con'.cx = con.cx)
  BY DEF Paper!vars, Roll
<1>1. ASSUME NEW c \in PrintChars, print_char(c)
      PROVE  Paper!Next \/ (Roll' = Roll /\ con'.cx = con.cx)
  BY <1>1, PrintIsType DEF print_char
<1>2. ASSUME NEW c \in PrintChars, NEW attr \in PrintAttrs, print_char_color(c, attr)
      PROVE  Paper!Next \/ (Roll' = Roll /\ con'.cx = con.cx)
  BY <1>2, PrintIsType
<1>3. CASE clear
  BY <1>3, ClearIsClear
<1>4. CASE UNCHANGED vars
  BY <1>4 DEF vars, Roll, Row
<1> QED BY <1>1, <1>2, <1>3, <1>4 DEF Next

(* For every size of the screen, every text printed and every backspace and *)
(* clear in it, the rows scrolled off and the rows on the screen are the   *)
(* roll of Teletype: print_char and scroll implement the endless paper.    *)
THEOREM ScreenIsPaper == Spec => PaperSpec
<1>1. Spec => []Inv
  BY Invariance
<1> QED BY <1>1, RollStarts, RollGrows, PTL DEF Spec, PaperSpec, Paper!Spec
=============================================================================
