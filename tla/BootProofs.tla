----------------------------- MODULE BootProofs -----------------------------
(***************************************************************************)
(* Theorems about Keyboard and about Boot, which composes it with the      *)
(* graphics driver, for every screen, memory, ring size, scancode table    *)
(* and schedule of the hardware.  The keyboard's inductive invariant is    *)
(* IInv; kmain is a list of 33 calls, so that its invariant says, in terms *)
(* of at, what has been set up by then.                                    *)
(***************************************************************************)
EXTENDS Boot, SequenceTheorems, TLAPS

-----------------------------------------------------------------------------
(* Index arithmetic, without the modulus. *)

(* How far w is ahead of r, and the slot j places after r. *)
Distance(r, w) == IF r <= w THEN w - r ELSE w - r + KBD_BUFF
At(r, j)       == IF r + j < KBD_BUFF THEN r + j ELSE r + j - KBD_BUFF

(* The next slot is the following one, or slot 0 at the end of the array. *)
LEMMA NextSlotValue ==
  ASSUME NEW i \in Slots
  PROVE  /\ NextSlot(i) \in Slots
         /\ NextSlot(i) = IF i + 1 = KBD_BUFF THEN 0 ELSE i + 1
  BY KeyboardAssumption DEF NextSlot, Slots

(* Distance is the number of unread characters that the indices encode. *)
LEMMA DistanceValue ==
  ASSUME NEW r \in Slots, NEW w \in Slots
  PROVE  /\ (w - r) % KBD_BUFF = Distance(r, w)
         /\ Distance(r, w) \in Slots
         /\ Distance(r, w) \in Nat
         /\ Distance(r, w) = 0 <=> r = w
  BY KeyboardAssumption DEF Slots, Distance

(* At is what the array is indexed with. *)
LEMMA AtValue ==
  ASSUME NEW r \in Slots, NEW j \in Slots
  PROVE  (r + j) % KBD_BUFF = At(r, j) /\ At(r, j) \in Slots
  BY KeyboardAssumption DEF Slots, At

(* Moving the write index, when that does not close the ring. *)
LEMMA AdvanceWrite ==
  ASSUME NEW r \in Slots, NEW w \in Slots, NextSlot(w) # r
  PROVE  /\ Distance(r, NextSlot(w)) = Distance(r, w) + 1
         /\ Distance(r, w) + 1 < KBD_BUFF
         /\ At(r, Distance(r, w)) = w
         /\ \A j \in Slots : j < Distance(r, w) => At(r, j) # w
<1>1. NextSlot(w) \in Slots /\ NextSlot(w) = IF w + 1 = KBD_BUFF THEN 0 ELSE w + 1
  BY NextSlotValue
<1> QED BY <1>1, KeyboardAssumption DEF Slots, Distance, At

(* Moving the read index of a ring that is not empty. *)
LEMMA AdvanceRead ==
  ASSUME NEW r \in Slots, NEW w \in Slots, r # w
  PROVE  /\ Distance(NextSlot(r), w) = Distance(r, w) - 1
         /\ At(r, 0) = r
         /\ \A j \in Slots : j + 1 < KBD_BUFF => At(r, j + 1) = At(NextSlot(r), j)
<1>1. NextSlot(r) \in Slots /\ NextSlot(r) = IF r + 1 = KBD_BUFF THEN 0 ELSE r + 1
  BY NextSlotValue
<1> QED BY <1>1, KeyboardAssumption DEF Slots, Distance, At

-----------------------------------------------------------------------------
(* What the ring holds, as a sequence. *)

(* What a slot may hold. *)
Symbols == Chars \cup {NUL}

Contents(buff, r, w) ==
  [i \in 1 .. (w - r) % KBD_BUFF |-> buff[(r + i - 1) % KBD_BUFF]]

(* Shape of the contents: their length, and where each element lies. *)
LEMMA ContentsShape ==
  ASSUME NEW buff \in [Slots -> Symbols], NEW r \in Slots, NEW w \in Slots
  PROVE  /\ Contents(buff, r, w) \in Seq(Symbols)
         /\ Len(Contents(buff, r, w)) = Distance(r, w)
         /\ \A i \in 1 .. Distance(r, w) :
               /\ i - 1 \in Slots
               /\ Contents(buff, r, w)[i] = buff[At(r, i - 1)]
<1> DEFINE n == Distance(r, w)
<1>1. n \in Slots /\ n \in Nat
  BY DistanceValue
<1>2. Contents(buff, r, w) = [i \in 1 .. n |-> buff[(r + i - 1) % KBD_BUFF]]
  BY DistanceValue DEF Contents
<1> HIDE DEF n
<1>3. ASSUME NEW i \in 1 .. n
      PROVE  /\ i - 1 \in Slots
             /\ (r + i - 1) % KBD_BUFF = At(r, i - 1)
             /\ At(r, i - 1) \in Slots
  <2>1. i - 1 \in Slots /\ r + i - 1 = r + (i - 1)
    BY <1>1, KeyboardAssumption DEF Slots
  <2> QED BY <2>1, AtValue
<1>4. Contents(buff, r, w) \in [1 .. n -> Symbols]
  BY <1>2, <1>3
<1>5. Contents(buff, r, w) \in Seq(Symbols) /\ Len(Contents(buff, r, w)) = n
  BY <1>1, <1>4
<1> QED BY <1>2, <1>3, <1>5 DEF n

(* The handler's store, with room in the ring, appends. *)
LEMMA StoreAppends ==
  ASSUME NEW buff \in [Slots -> Symbols], NEW r \in Slots, NEW w \in Slots,
         NEW x \in Symbols, NextSlot(w) # r
  PROVE  /\ Contents([buff EXCEPT ![w] = x], r, NextSlot(w))
              = Append(Contents(buff, r, w), x)
         /\ Len(Contents(buff, r, w)) < KBD_BUFF - 1
<1> DEFINE n == Distance(r, w)
           new == [buff EXCEPT ![w] = x]
           s == Contents(buff, r, w)
           t == Contents(new, r, NextSlot(w))
<1>1. /\ n \in Nat /\ n \in Slots /\ n + 1 < KBD_BUFF
      /\ Distance(r, NextSlot(w)) = n + 1
      /\ At(r, n) = w
      /\ \A j \in Slots : j < n => At(r, j) # w
  BY AdvanceWrite, DistanceValue
<1>2. /\ s \in Seq(Symbols) /\ Len(s) = n
      /\ \A i \in 1 .. n : i - 1 \in Slots /\ s[i] = buff[At(r, i - 1)]
  BY ContentsShape
<1>3. /\ t \in Seq(Symbols) /\ Len(t) = n + 1
      /\ \A i \in 1 .. n + 1 : i - 1 \in Slots /\ t[i] = new[At(r, i - 1)]
  <2>1. new \in [Slots -> Symbols] /\ NextSlot(w) \in Slots
    BY NextSlotValue
  <2> HIDE DEF new
  <2>2. /\ t \in Seq(Symbols) /\ Len(t) = Distance(r, NextSlot(w))
        /\ \A i \in 1 .. Distance(r, NextSlot(w)) :
              i - 1 \in Slots /\ t[i] = new[At(r, i - 1)]
    BY <2>1, ContentsShape
  <2> QED BY <1>1, <2>2
<1> HIDE DEF n, new, s, t
<1>4. ASSUME NEW i \in 1 .. n
      PROVE  t[i] = s[i]
  <2>1. i - 1 < n /\ i \in 1 .. n + 1
    BY <1>1
  <2>2. i - 1 \in Slots
    BY <1>2
  <2>3. At(r, i - 1) # w /\ At(r, i - 1) \in Slots
    BY <1>1, <2>1, <2>2, AtValue
  <2> QED BY <1>2, <1>3, <2>1, <2>3 DEF new
<1>5. t[n + 1] = x
  <2>1. n + 1 \in 1 .. n + 1 /\ (n + 1) - 1 = n
    BY <1>1
  <2>2. t[n + 1] = new[w]
    BY <1>1, <1>3, <2>1
  <2> QED BY <2>2 DEF new
<1>6. t = Append(s, x)
  <2>1. Append(s, x) \in Seq(Symbols) /\ Len(Append(s, x)) = n + 1
        /\ \A i \in 1 .. n : Append(s, x)[i] = s[i]
        /\ Append(s, x)[n + 1] = x
    BY <1>2, AppendProperties
  <2>2. \A i \in 1 .. Len(t) : t[i] = Append(s, x)[i]
    BY <1>1, <1>3, <1>4, <1>5, <2>1
  <2> QED BY <1>3, <2>1, <2>2, SeqEqual
<1>7. Len(s) < KBD_BUFF - 1
  BY <1>1, <1>2, KeyboardAssumption
<1> QED BY <1>6, <1>7 DEF s, t, new

(* getchar's move of the read index removes the oldest character. *)
LEMMA AdvanceIsTail ==
  ASSUME NEW buff \in [Slots -> Symbols], NEW r \in Slots, NEW w \in Slots,
         r # w
  PROVE  /\ Contents(buff, r, w) # <<>>
         /\ Head(Contents(buff, r, w)) = buff[r]
         /\ Contents(buff, NextSlot(r), w) = Tail(Contents(buff, r, w))
<1> DEFINE n == Distance(r, w)
           q == NextSlot(r)
           s == Contents(buff, r, w)
           t == Contents(buff, q, w)
<1>1. /\ n \in Nat \ {0} /\ n \in Slots
      /\ Distance(q, w) = n - 1
      /\ At(r, 0) = r
      /\ \A j \in Slots : j + 1 < KBD_BUFF => At(r, j + 1) = At(q, j)
  BY AdvanceRead, DistanceValue
<1>2. /\ s \in Seq(Symbols) /\ Len(s) = n
      /\ \A i \in 1 .. n : i - 1 \in Slots /\ s[i] = buff[At(r, i - 1)]
  BY ContentsShape
<1>3. /\ t \in Seq(Symbols) /\ Len(t) = n - 1
      /\ \A i \in 1 .. n - 1 : i - 1 \in Slots /\ t[i] = buff[At(q, i - 1)]
  <2>1. q \in Slots
    BY NextSlotValue
  <2> HIDE DEF q
  <2>2. /\ t \in Seq(Symbols) /\ Len(t) = Distance(q, w)
        /\ \A i \in 1 .. Distance(q, w) : i - 1 \in Slots /\ t[i] = buff[At(q, i - 1)]
    BY <2>1, ContentsShape
  <2>3. Distance(q, w) = n - 1
    BY <1>1
  <2> HIDE DEF n, t
  <2> QED BY <2>2, <2>3
<1> HIDE DEF n, q, s, t
<1>4. s[1] = buff[r]
  BY <1>1, <1>2
<1>5. ASSUME NEW i \in 1 .. n - 1
      PROVE  t[i] = s[i + 1]
  <2>1. i - 1 \in Slots /\ (i - 1) + 1 < KBD_BUFF /\ i + 1 \in 1 .. n
        /\ (i + 1) - 1 = (i - 1) + 1
    BY <1>1, KeyboardAssumption DEF Slots
  <2>2. At(r, (i + 1) - 1) = At(q, i - 1)
    BY <1>1, <2>1
  <2>3. s[i + 1] = buff[At(r, (i + 1) - 1)]
    BY <1>2, <2>1
  <2> QED BY <1>3, <2>2, <2>3
<1>6. s # <<>>
  BY <1>1, <1>2
<1>7. t = Tail(s)
  <2>1. Tail(s) \in Seq(Symbols) /\ Len(Tail(s)) = n - 1
        /\ \A i \in 1 .. n - 1 : Tail(s)[i] = s[i + 1]
    BY <1>2, <1>6, HeadTailProperties
  <2>2. \A i \in 1 .. Len(t) : t[i] = Tail(s)[i]
    BY <1>3, <1>5, <2>1
  <2> QED BY <1>3, <2>1, <2>2, SeqEqual
<1>8. Head(s) = s[1]
  BY <1>2, <1>6
<1> QED BY <1>4, <1>6, <1>7, <1>8 DEF s, t, q
-----------------------------------------------------------------------------
(* The inductive invariant. *)

(* The control part of the invariant is inductive by itself; what the      *)
(* unread slots hold is shown with it, and with the lemmas on the ring.    *)
IInv ==
  /\ TypeOK
  /\ NoStuckByte
  /\ InServiceWhileHandled
  /\ ReaderSlotStable

(* Every scancode stands for a character of the table or for none. *)
LEMMA AsciiType ==
  ASSUME NEW sc \in Scancodes
  PROVE  Ascii(sc) \in Chars \cup {NUL}
  BY KeyboardAssumption DEF Ascii

(* The invariant of the driver holds before the first key. *)
LEMMA InitIInv == Init => IInv
  BY KeyboardAssumption DEF Init, IInv, TypeOK, NoStuckByte,
     InServiceWhileHandled, ReaderSlotStable, Slots

(* Every step of the hardware, the handlers and getchar keeps it. *)
LEMMA NextIInv == IInv /\ [Next]_vars => IInv'
<1> SUFFICES ASSUME IInv, [Next]_vars
             PROVE  IInv'
  OBVIOUS
<1> USE DEF IInv
<1>1. ASSUME NEW sc \in Scancodes, KeyPress(sc)
      PROVE  IInv'
  BY <1>1 DEF KeyPress, TypeOK, NoStuckByte, InServiceWhileHandled,
     ReaderSlotStable, TIMER, KBD
<1>2. CASE SpuriousKbd
  BY <1>2 DEF SpuriousKbd, TypeOK, NoStuckByte, InServiceWhileHandled,
     ReaderSlotStable, TIMER, KBD
<1>3. CASE Tick
  BY <1>3 DEF Tick, TypeOK, NoStuckByte, InServiceWhileHandled,
     ReaderSlotStable, TIMER, KBD
<1>4. ASSUME NEW irq \in {TIMER, KBD}, Interrupt(irq)
      PROVE  IInv'
  <2>1. isr = {} /\ isr' = {irq} /\ irr' = irr \ {irq}
    BY <1>4 DEF Interrupt, InServiceWhileHandled
  <2>2. cpu' = IF irq = TIMER THEN "timer_handler" ELSE "kbd_handler"
    BY <1>4 DEF Interrupt, Handler
  <2>3. pc' \in {pc, "check"}
    BY <1>4 DEF Interrupt, WakeUp
  <2>4. UNCHANGED <<kbd_buff, buff_ridx, buff_widx, obf, c, ret>>
    BY <1>4 DEF Interrupt
  <2> QED
    BY <2>1, <2>2, <2>3, <2>4, <1>4 DEF TypeOK, NoStuckByte,
       InServiceWhileHandled, ReaderSlotStable, TIMER, KBD, Interrupt
<1>5. CASE KbdRead
  <2> USE <1>5 DEF KbdRead, ReadData
  <2>1. (NoStuckByte /\ InServiceWhileHandled)'
    BY DEF TypeOK, NoStuckByte, InServiceWhileHandled
  <2>2. CASE obf # Empty /\ IsChar(Ascii(obf)) /\ HasRoom
    <3>1. Ascii(obf) \in Chars \cup {NUL} /\ NextSlot(buff_widx) \in Slots
      BY <2>2, AsciiType, NextSlotValue DEF TypeOK
    <3>2. /\ kbd_buff' = [kbd_buff EXCEPT ![buff_widx] = Ascii(obf)]
          /\ buff_widx' = NextSlot(buff_widx)
          /\ buff_widx' # buff_ridx
      BY <2>2 DEF HasRoom
    <3>3. TypeOK'
      BY <3>1, <3>2 DEF TypeOK
    <3>4. ReaderSlotStable'
      BY <3>2 DEF ReaderSlotStable, TypeOK
    <3> QED BY <2>1, <3>3, <3>4
  <2>3. CASE ~(obf # Empty /\ IsChar(Ascii(obf)) /\ HasRoom)
    <3>1. UNCHANGED <<kbd_buff, buff_widx>> /\ obf' = Empty
      BY <2>3
    <3> QED BY <2>1, <3>1 DEF TypeOK, ReaderSlotStable
  <2> QED BY <2>2, <2>3
<1>6. CASE KbdEoi
  <2>1. isr' = {}
    BY <1>6 DEF KbdEoi, EndOfInterrupt, InServiceWhileHandled, KBD
  <2> QED BY <1>6, <2>1 DEF KbdEoi, TypeOK, NoStuckByte,
          InServiceWhileHandled, ReaderSlotStable
<1>7. CASE TimerHandler
  <2>1. isr' = {}
    BY <1>7 DEF TimerHandler, EndOfInterrupt, InServiceWhileHandled, TIMER
  <2> QED BY <1>7, <2>1 DEF TimerHandler, TypeOK, NoStuckByte,
          InServiceWhileHandled, ReaderSlotStable
<1>8. CASE Check
  BY <1>8 DEF Check, TypeOK, NoStuckByte, InServiceWhileHandled, ReaderSlotStable
<1>9. CASE Halt
  BY <1>9 DEF Halt, TypeOK, NoStuckByte, InServiceWhileHandled, ReaderSlotStable
<1>10. CASE Load
  BY <1>10 DEF Load, TypeOK, NoStuckByte, InServiceWhileHandled, ReaderSlotStable
<1>11. CASE Store
  <2>1. NextSlot(buff_ridx) \in Slots
    BY NextSlotValue DEF TypeOK
  <2> QED BY <1>11, <2>1 DEF Store, TypeOK, NoStuckByte,
          InServiceWhileHandled, ReaderSlotStable
<1>12. CASE Call
  BY <1>12 DEF Call, TypeOK, NoStuckByte, InServiceWhileHandled, ReaderSlotStable
<1>13. CASE SpuriousIrq7
  BY <1>13 DEF SpuriousIrq7, WakeUp, TypeOK, NoStuckByte, InServiceWhileHandled,
     ReaderSlotStable
<1>14. CASE IsrStub
  <2>1. isr' = {}
    BY <1>14 DEF IsrStub, EndOfInterrupt, InServiceWhileHandled
  <2> QED BY <1>14, <2>1 DEF IsrStub, TypeOK, NoStuckByte,
          InServiceWhileHandled, ReaderSlotStable
<1>15. CASE UNCHANGED vars
  BY <1>15 DEF vars, TypeOK, NoStuckByte, InServiceWhileHandled, ReaderSlotStable
<1> QED
  BY <1>1, <1>2, <1>3, <1>4, <1>5, <1>6, <1>7, <1>8, <1>9, <1>10, <1>11,
     <1>12, <1>13, <1>14, <1>15 DEF Next, Thread

(* The invariant holds in every state of every behaviour. *)
THEOREM Invariance == Spec => []IInv
  BY InitIInv, NextIInv, PTL DEF Spec

(* Every variable keeps its type: indices stay inside the array. *)
THEOREM TypeCorrect == Spec => []TypeOK
<1>1. IInv => TypeOK
  BY DEF IInv
<1> QED BY <1>1, Invariance, PTL

(* The keyboard never gets stuck on a byte nobody was told about. *)
THEOREM NoByteStuck == Spec => []NoStuckByte
<1>1. IInv => NoStuckByte
  BY DEF IInv
<1> QED BY <1>1, Invariance, PTL

(* Exactly one end of interrupt for every interrupt, at its handler's end. *)
THEOREM InServiceCorrect == Spec => []InServiceWhileHandled
<1>1. IInv => InServiceWhileHandled
  BY DEF IInv
<1> QED BY <1>1, Invariance, PTL

(* What getchar tested and loaded is still true when it acts on it. *)
THEOREM ReaderNotDisturbed == Spec => []ReaderSlotStable
<1>1. IInv => ReaderSlotStable
  BY DEF IInv
<1> QED BY <1>1, Invariance, PTL

-----------------------------------------------------------------------------
(* What the unread slots hold, and the refinement of the bounded queue. *)

QInv == UnreadChars \in Seq(Chars)

(* What KeyQueue has in its queue are the slots from the read to the write *)
(* index.                                                                  *)
LEMMA UnreadIsContents ==
  /\ UnreadChars = Contents(kbd_buff, buff_ridx, buff_widx)
  /\ UnreadChars' = Contents(kbd_buff', buff_ridx', buff_widx')
  BY DEF UnreadChars, Unread, Contents

(* One step of the driver, seen as a step of the queue. *)
LEMMA KbdReadTakes ==
  ASSUME TypeOK, KbdRead
  PROVE  \/ UNCHANGED <<obf, UnreadChars, ret>> /\ obf = Empty
         \/ /\ obf # Empty /\ obf' = Empty /\ ret' = ret
            /\ UnreadChars' = IF Ascii(obf) # NUL /\ Len(UnreadChars) < KBD_BUFF - 1
                              THEN Append(UnreadChars, Ascii(obf))
                              ELSE UnreadChars
<1> USE DEF KbdRead, ReadData, IsChar
<1>1. CASE obf = Empty
  BY <1>1, UnreadIsContents
<1>2. CASE obf # Empty /\ Ascii(obf) # NUL /\ HasRoom
  <2>1. Ascii(obf) \in Symbols
    BY <1>2, AsciiType DEF TypeOK, Symbols
  <2>2. /\ kbd_buff \in [Slots -> Symbols] /\ buff_ridx \in Slots
        /\ buff_widx \in Slots /\ NextSlot(buff_widx) # buff_ridx
    BY <1>2 DEF TypeOK, Symbols, HasRoom
  <2>3. /\ Contents([kbd_buff EXCEPT ![buff_widx] = Ascii(obf)], buff_ridx, NextSlot(buff_widx))
              = Append(Contents(kbd_buff, buff_ridx, buff_widx), Ascii(obf))
        /\ Len(Contents(kbd_buff, buff_ridx, buff_widx)) < KBD_BUFF - 1
    BY <2>1, <2>2, StoreAppends
  <2> QED BY <1>2, <2>3, UnreadIsContents
<1>3. CASE obf # Empty /\ Ascii(obf) # NUL /\ ~HasRoom
  <2>1. Distance(buff_ridx, buff_widx) = KBD_BUFF - 1
    <3>1. NextSlot(buff_widx) = buff_ridx
      BY <1>3 DEF HasRoom
    <3> QED BY <3>1, NextSlotValue, KeyboardAssumption DEF TypeOK, Distance, Slots
  <2>2. Len(UnreadChars) = KBD_BUFF - 1
    BY <2>1, UnreadIsContents, ContentsShape DEF TypeOK, Symbols
  <2> QED BY <1>3, <2>2, UnreadIsContents, KeyboardAssumption
<1>4. CASE obf # Empty /\ Ascii(obf) = NUL
  BY <1>4, UnreadIsContents
<1> QED BY <1>1, <1>2, <1>3, <1>4

(* getchar's last step, seen as a step of the queue. *)
LEMMA StoreGets ==
  ASSUME TypeOK, ReaderSlotStable, Store
  PROVE  /\ UnreadChars # <<>>
         /\ ret' = Head(UnreadChars)
         /\ UnreadChars' = Tail(UnreadChars)
         /\ obf' = obf
<1>1. /\ buff_ridx # buff_widx /\ c = kbd_buff[buff_ridx]
      /\ kbd_buff \in [Slots -> Symbols] /\ buff_ridx \in Slots /\ buff_widx \in Slots
  BY DEF Store, ReaderSlotStable, TypeOK, Symbols
<1>2. /\ Contents(kbd_buff, buff_ridx, buff_widx) # <<>>
      /\ Head(Contents(kbd_buff, buff_ridx, buff_widx)) = kbd_buff[buff_ridx]
      /\ Contents(kbd_buff, NextSlot(buff_ridx), buff_widx)
            = Tail(Contents(kbd_buff, buff_ridx, buff_widx))
  BY <1>1, AdvanceIsTail
<1> QED BY <1>1, <1>2, UnreadIsContents DEF Store

(* The other steps leave the ring alone. *)
LEMMA OthersKeepRing ==
  ASSUME [Next]_vars, ~KbdRead, ~Store
  PROVE  UNCHANGED <<ring, ret>>
  BY DEF Next, vars, ring, KeyPress, SpuriousKbd, Tick, Interrupt, SpuriousIrq7, KbdEoi,
     IsrStub, TimerHandler, Thread, Check, Halt, Load, Call

(* The unread characters remain characters of the table. *)
LEMMA NextQInv == IInv /\ QInv /\ [Next]_vars => QInv'
<1> SUFFICES ASSUME IInv, QInv, [Next]_vars
             PROVE  QInv'
  OBVIOUS
<1> USE DEF IInv, QInv
<1>1. CASE KbdRead
  <2>1. obf # Empty /\ Ascii(obf) # NUL => Ascii(obf) \in Chars
    BY AsciiType DEF TypeOK
  <2> QED BY <1>1, <2>1, KbdReadTakes
<1>2. CASE Store
  BY <1>2, StoreGets
<1>3. CASE ~KbdRead /\ ~Store
  BY <1>3, OthersKeepRing, UnreadIsContents DEF ring
<1> QED BY <1>1, <1>2, <1>3

(* The ring starts empty. *)
LEMMA InitEmpty == Init => UnreadChars = <<>>
<1> SUFFICES ASSUME Init
             PROVE  UnreadChars = <<>>
  OBVIOUS
<1>1. TypeOK
  BY InitIInv DEF IInv
<1>2. Distance(buff_ridx, buff_widx) = 0
  BY <1>1, DistanceValue DEF Init, TypeOK
<1>3. UnreadChars \in Seq(Symbols) /\ Len(UnreadChars) = 0
  BY <1>1, <1>2, ContentsShape, UnreadIsContents DEF TypeOK, Symbols
<1> QED BY <1>3

(* The shell is never handed a NUL: the unread slots hold characters. *)
THEOREM UnreadCorrect == Spec => []UnreadAreChars
<1>1. Init => QInv
  BY InitEmpty DEF QInv
<1>2. IInv /\ QInv => UnreadAreChars
  <2> SUFFICES ASSUME IInv, QInv
               PROVE  UnreadAreChars
    OBVIOUS
  <2>1. Len(UnreadChars) = Unread /\ Unread \in Nat
    BY ContentsShape, DistanceValue, UnreadIsContents DEF IInv, TypeOK, Symbols, Unread
  <2> QED BY <2>1 DEF QInv, UnreadAreChars
<1> QED BY <1>1, <1>2, NextQInv, Invariance, PTL DEF Spec

(* The driver implements the bounded queue: for every ring size, table and *)
(* interleaving of keys, interrupts and getchar, characters are read in    *)
(* the order they were typed, once each, and only a full ring drops one.   *)
THEOREM Refinement == Spec => QueueSpec
<1>1. Init => Queue!Init
  BY InitEmpty DEF Init, Queue!Init
<1>2. IInv /\ [Next]_vars => [Queue!Next]_(Queue!vars)
  <2> SUFFICES ASSUME IInv, [Next]_vars
               PROVE  Queue!Next \/ UNCHANGED Queue!vars
    BY DEF Queue!vars
  <2> USE DEF IInv, Queue!vars
  <2>1. ASSUME NEW sc \in Scancodes, KeyPress(sc)
        PROVE  Queue!Press(sc)
    BY <2>1, UnreadIsContents DEF KeyPress, Queue!Press
  <2>2. CASE KbdRead
    BY <2>2, KbdReadTakes DEF Queue!Next, Queue!Take
  <2>3. CASE Store
    BY <2>3, StoreGets DEF Queue!Next, Queue!Get
  <2>4. CASE ~(\E sc \in Scancodes : KeyPress(sc)) /\ ~KbdRead /\ ~Store
    <3>1. obf' = obf
      BY <2>4 DEF Next, vars, SpuriousKbd, Tick, Interrupt, SpuriousIrq7,
         KbdEoi, IsrStub, TimerHandler, Thread, Check, Halt, Load, Call
    <3> QED BY <2>4, <3>1, OthersKeepRing, UnreadIsContents DEF ring
  <2> QED BY <2>1, <2>2, <2>3, <2>4 DEF Queue!Next
<1> QED BY <1>1, <1>2, Invariance, PTL DEF Spec, QueueSpec, Queue!Spec

-----------------------------------------------------------------------------
(* The graphics driver, for every screen and pitch: what a rectangle and a *)
(* wipe do to the pixels that are seen.  First its rows and columns.       *)

(* Rows begin at least a pitch apart. *)
LEMMA RowsApart ==
  ASSUME NEW P \in Nat, NEW y \in Nat, NEW z \in Nat, y < z
  PROVE  y * P \in Nat /\ z * P \in Nat /\ y * P + P <= z * P
  OBVIOUS

(* A row of whole words: its address and its place differ by a factor of   *)
(* four.                                                                   *)
LEMMA WordsOfRows ==
  ASSUME NEW y \in Nat, NEW k \in Nat
  PROVE  y * k \in Nat /\ y * (4 * k) = 4 * (y * k)
  OBVIOUS

(* An address that is one of memory does not wrap. *)
LEMMA NoWrap ==
  ASSUME NEW a \in 0 .. ADDRESSES - 1
  PROVE  a % ADDRESSES = a
  BY GraphicsAssumption

(* A store to the address of a word touches that word and no other. *)
LEMMA TouchesItself ==
  ASSUME NEW a \in WordAddresses, NEW b \in WordAddresses
  PROVE  Touches(b, a) <=> a = b
<1> DEFINE A == ADDRESSES
<1>1. /\ A \in Nat \ {0} /\ A % 4 = 0 /\ a % 4 = 0 /\ b % 4 = 0
      /\ a \in 0 .. A - 1 /\ b \in 0 .. A - 1
  BY GraphicsAssumption DEF WordAddresses
<1>2. /\ (a - b) % A = IF b <= a THEN a - b ELSE a - b + A
      /\ (b - a) % A = IF a <= b THEN b - a ELSE b - a + A
  BY <1>1
<1> HIDE DEF A
<1>3. b < a => a - b >= 4 /\ b - a + A >= 4
  BY <1>1
<1>4. a < b => b - a >= 4 /\ a - b + A >= 4
  BY <1>1
<1>5. Touches(b, a) <=> (a - b) % A < 4 \/ (b - a) % A < 4
  BY DEF Touches, A
<1> QED BY <1>1, <1>2, <1>3, <1>4, <1>5

(* So that Fill sets the words it is given and no other. *)
LEMMA FillWords ==
  ASSUME NEW words, NEW addresses, addresses \subseteq WordAddresses, NEW color,
         NEW a \in DOMAIN words, a \in WordAddresses
  PROVE  Fill(words, addresses, color)[a] = IF a \in addresses THEN color ELSE words[a]
<1>1. (\E b \in addresses : Touches(b, a)) <=> a \in addresses
  BY TouchesItself, Zenon
<1> QED BY <1>1 DEF Fill

(* The address of a pixel: its row's, and four bytes for each pixel before *)
(* it.  It lies in the frame buffer.                                       *)
LEMMA AddressValue ==
  ASSUME NEW fb, ValidScreen(fb), NEW p \in Pixels(fb)
  PROVE  /\ PixelAddress(fb, p[1], p[2]) = fb.addr + p[2] * fb.pitch + 4 * p[1]
         /\ PixelAddress(fb, p[1], p[2])
              \in fb.addr .. fb.addr + fb.height * fb.pitch - 1
         /\ PixelAddress(fb, p[1], p[2]) \in WordAddresses
<1> DEFINE P == fb.pitch
           Y == p[2] * P
           E == fb.height * P
           n == fb.addr + Y + 4 * p[1]
<1>1. /\ p[1] \in 0 .. fb.width - 1 /\ p[2] \in 0 .. fb.height - 1
      /\ P \in Nat /\ P >= 4 * fb.width /\ fb.width \in Nat /\ fb.height \in Nat
      /\ P % 4 = 0 /\ fb.bpp = 32
      /\ fb.addr \in Nat /\ fb.addr % 4 = 0 /\ fb.addr + E <= ADDRESSES
      /\ ADDRESSES \in Nat
  BY GraphicsAssumption DEF Pixels, ValidScreen, WordAddresses
<1>2. Y \in Nat /\ E \in Nat /\ Y + P <= E
  BY <1>1, RowsApart
<1>3. Y % 4 = 0
  <2>1. P = 4 * (P \div 4) /\ P \div 4 \in Nat
    BY <1>1
  <2>2. Y = 4 * (p[2] * (P \div 4)) /\ p[2] * (P \div 4) \in Nat
    BY <1>1, <2>1, WordsOfRows
  <2> QED BY <2>2
<1>4. PixelAddress(fb, p[1], p[2]) = n % ADDRESSES
  BY <1>1 DEF PixelAddress
<1> HIDE DEF P, Y, E
<1>5. n \in fb.addr .. fb.addr + E - 1 /\ n \in 0 .. ADDRESSES - 1 /\ n % 4 = 0
  BY <1>1, <1>2, <1>3
<1> HIDE DEF n
<1>6. PixelAddress(fb, p[1], p[2]) = n
  BY <1>4, <1>5, NoWrap
<1> QED BY <1>5, <1>6 DEF n, Y, E, P, WordAddresses

(* Two pixels of the screen never share a word. *)
LEMMA AddressInjective ==
  ASSUME NEW fb, ValidScreen(fb), NEW p \in Pixels(fb), NEW q \in Pixels(fb),
         PixelAddress(fb, p[1], p[2]) = PixelAddress(fb, q[1], q[2])
  PROVE  p = q
<1> DEFINE P == fb.pitch
           R(z) == z * P
<1>1. /\ p[1] \in 0 .. fb.width - 1 /\ p[2] \in 0 .. fb.height - 1
      /\ q[1] \in 0 .. fb.width - 1 /\ q[2] \in 0 .. fb.height - 1
      /\ p = <<p[1], p[2]>> /\ q = <<q[1], q[2]>>
  BY DEF Pixels
<1>2. P \in Nat /\ P >= 4 * fb.width /\ fb.width \in Nat /\ fb.height \in Nat /\ fb.addr \in Nat
  BY GraphicsAssumption DEF ValidScreen, WordAddresses
<1>3. R(p[2]) \in Nat /\ R(q[2]) \in Nat
  BY <1>1, <1>2
<1>4. p[2] < q[2] => R(p[2]) + P <= R(q[2])
  BY <1>1, <1>2, RowsApart
<1>5. q[2] < p[2] => R(q[2]) + P <= R(p[2])
  BY <1>1, <1>2, RowsApart
<1>6. R(p[2]) + 4 * p[1] = R(q[2]) + 4 * q[1]
  <2>1. fb.addr + R(p[2]) + 4 * p[1] = fb.addr + R(q[2]) + 4 * q[1]
    BY <1>1, <1>2, AddressValue
  <2> HIDE DEF R
  <2> QED BY <1>1, <1>2, <1>3, <2>1
<1> HIDE DEF P, R
<1>7. ~(p[2] < q[2]) /\ ~(q[2] < p[2])
  BY <1>1, <1>2, <1>3, <1>4, <1>5, <1>6
<1>8. p[2] = q[2]
  BY <1>1, <1>2, <1>7
<1>9. p[1] = q[1]
  BY <1>1, <1>2, <1>3, <1>6, <1>8
<1> QED BY <1>1, <1>8, <1>9

(* The test of draw_pixel lets the pixels of the screen through, and no    *)
(* others.                                                                 *)
LEMMA FittingIsPixel ==
  ASSUME NEW fb, NEW x \in Int, NEW y \in Int, ValidScreen(fb)
  PROVE  Fits(fb, x, y) <=> <<x, y>> \in Pixels(fb)
  BY DEF Fits, Pixels, ValidScreen

-----------------------------------------------------------------------------
(* Rectangles. *)

(* draw_rect_full paints, of the pixels of the screen, those inside the    *)
(* rectangle and no other, at whatever coordinates it is called.           *)
THEOREM RectShown ==
  ASSUME NEW fb, ValidScreen(fb), NEW Space, NEW words, words = [a \in Space |-> words[a]],
         \A p \in Pixels(fb) : PixelAddress(fb, p[1], p[2]) \in Space,
         NEW x \in Int, NEW y \in Int, NEW w \in Int, NEW h \in Int, NEW color,
         NEW p \in Pixels(fb)
  PROVE  DrawRectFull(words, fb, x, y, w, h, color)[PixelAddress(fb, p[1], p[2])]
           = IF p[1] \in x .. x + w - 1 /\ p[2] \in y .. y + h - 1
             THEN color
             ELSE words[PixelAddress(fb, p[1], p[2])]
<1> DEFINE box == (x .. x + w - 1) \X (y .. y + h - 1)
           fitting == {q \in box : Fits(fb, q[1], q[2])}
           addresses == {PixelAddress(fb, q[1], q[2]) : q \in fitting}
           A == PixelAddress(fb, p[1], p[2])
<1>1. A \in Space /\ DOMAIN words = Space
  OBVIOUS
<1>2. \A q \in fitting : q \in Pixels(fb)
  <2>1. SUFFICES ASSUME NEW q \in fitting PROVE q \in Pixels(fb)
    OBVIOUS
  <2>2. q[1] \in Int /\ q[2] \in Int /\ q = <<q[1], q[2]>> /\ Fits(fb, q[1], q[2])
    BY <2>1
  <2> QED BY <2>2, FittingIsPixel
<1>3. DrawRectFull(words, fb, x, y, w, h, color)[A]
        = IF A \in addresses THEN color ELSE words[A]
  <2>1. addresses \subseteq WordAddresses /\ A \in WordAddresses
    BY <1>2, AddressValue
  <2> HIDE DEF addresses, A
  <2>2. Fill(words, addresses, color)[A] = IF A \in addresses THEN color ELSE words[A]
    BY <1>1, <2>1, FillWords
  <2> QED BY <2>2 DEF DrawRectFull, addresses
<1>4. p \in box <=> p \in fitting
  <2>1. p[1] \in Int /\ p[2] \in Int /\ p = <<p[1], p[2]>>
    BY DEF Pixels
  <2> QED BY <2>1, FittingIsPixel
<1>5. A \in addresses <=> p \in fitting
  BY <1>2, AddressInjective
<1>6. p \in box <=> p[1] \in x .. x + w - 1 /\ p[2] \in y .. y + h - 1
  BY DEF Pixels
<1> HIDE DEF box, fitting, addresses, A
<1> QED BY <1>3, <1>4, <1>5, <1>6 DEF A

(* draw_rect_full writes nowhere but in the frame buffer. *)
THEOREM RectInside ==
  ASSUME NEW fb, ValidScreen(fb), NEW words,
         NEW x \in Int, NEW y \in Int, NEW w \in Int, NEW h \in Int, NEW color,
         NEW a \in DOMAIN words, a \in WordAddresses,
         a \notin fb.addr .. fb.addr + fb.height * fb.pitch - 1
  PROVE  DrawRectFull(words, fb, x, y, w, h, color)[a] = words[a]
<1> DEFINE fitting == {q \in (x .. x + w - 1) \X (y .. y + h - 1) : Fits(fb, q[1], q[2])}
           addresses == {PixelAddress(fb, q[1], q[2]) : q \in fitting}
<1>1. \A q \in fitting : /\ PixelAddress(fb, q[1], q[2]) # a
                         /\ PixelAddress(fb, q[1], q[2]) \in WordAddresses
  <2>1. SUFFICES ASSUME NEW q \in fitting
                 PROVE  /\ PixelAddress(fb, q[1], q[2]) # a
                        /\ PixelAddress(fb, q[1], q[2]) \in WordAddresses
    OBVIOUS
  <2>2. q[1] \in Int /\ q[2] \in Int /\ q = <<q[1], q[2]>> /\ Fits(fb, q[1], q[2])
    BY <2>1
  <2>3. q \in Pixels(fb)
    BY <2>2, FittingIsPixel
  <2> QED BY <2>3, AddressValue
<1>2. a \notin addresses /\ addresses \subseteq WordAddresses
  BY <1>1
<1> HIDE DEF addresses
<1>3. Fill(words, addresses, color)[a] = words[a]
  BY <1>2, FillWords
<1> QED BY <1>3 DEF DrawRectFull, addresses

-----------------------------------------------------------------------------
(* graphics_clear. *)

(* A run of w times h words is no longer than h rows of at least w words.  *)
LEMMA RunFits ==
  ASSUME NEW w \in Nat, NEW h \in Nat, NEW P \in Nat, P >= 4 * w
  PROVE  w * h \in Nat /\ h * P \in Nat /\ 4 * (w * h) <= h * P
<1>1. h * (4 * w) <= h * P
  OBVIOUS
<1>2. h * (4 * w) = 4 * (w * h)
  OBVIOUS
<1> QED BY <1>1, <1>2

(* On a screen neither the number of its pixels nor an address wraps: the  *)
(* run has a word for each pixel and lies in the frame buffer.             *)
LEMMA RunOfWords ==
  ASSUME NEW fb, ValidScreen(fb), NEW words, NEW color,
         NEW a \in DOMAIN words, a \in WordAddresses
  PROVE  LET N == fb.width * fb.height
         IN  /\ N \in Nat /\ 4 * N <= fb.height * fb.pitch /\ fb.addr \in Nat
             /\ GraphicsClear(words, fb, color)[a]
                  = IF \E j \in 0 .. N - 1 : a = fb.addr + 4 * j THEN color ELSE words[a]
<1> DEFINE N == fb.width * fb.height
           E == fb.height * fb.pitch
           np == N % ADDRESSES
           addresses == {(fb.addr + 4 * j) % ADDRESSES : j \in 0 .. np - 1}
<1>1. /\ N \in Nat /\ E \in Nat /\ 4 * N <= E
      /\ fb.addr \in Nat /\ fb.addr % 4 = 0 /\ fb.addr + E <= ADDRESSES
      /\ ADDRESSES \in Nat \ {0}
  BY RunFits, GraphicsAssumption DEF ValidScreen, WordAddresses
<1>2. GraphicsClear(words, fb, color) = Fill(words, addresses, color)
  BY DEF GraphicsClear
<1> HIDE DEF N, E
<1>3. np = N
  <2>1. N \in 0 .. ADDRESSES - 1
    BY <1>1
  <2> QED BY <2>1, NoWrap
<1> HIDE DEF np
<1>4. ASSUME NEW j \in 0 .. N - 1
      PROVE  (fb.addr + 4 * j) % ADDRESSES = fb.addr + 4 * j /\ fb.addr + 4 * j \in WordAddresses
  <2>1. fb.addr + 4 * j \in 0 .. ADDRESSES - 1 /\ (fb.addr + 4 * j) % 4 = 0
    BY <1>1
  <2> QED BY <2>1, NoWrap DEF WordAddresses
<1>5. addresses \subseteq WordAddresses
  BY <1>3, <1>4
<1>6. a \in addresses <=> \E j \in 0 .. N - 1 : a = fb.addr + 4 * j
  BY <1>3, <1>4
<1> HIDE DEF addresses
<1>7. Fill(words, addresses, color)[a] = IF a \in addresses THEN color ELSE words[a]
  BY <1>5, FillWords
<1> QED BY <1>1, <1>2, <1>6, <1>7 DEF N, E

(* It reaches the pixels of Reached and no other: with rows that are not   *)
(* packed, those at the lower end of the screen keep what they showed.     *)
THEOREM ClearShown ==
  ASSUME NEW fb, ValidScreen(fb), NEW Space, NEW words, words = [a \in Space |-> words[a]],
         \A p \in Pixels(fb) : PixelAddress(fb, p[1], p[2]) \in Space,
         NEW color, NEW p \in Pixels(fb)
  PROVE  GraphicsClear(words, fb, color)[PixelAddress(fb, p[1], p[2])]
           = IF p \in Reached(fb) THEN color ELSE words[PixelAddress(fb, p[1], p[2])]
<1> DEFINE k == fb.pitch \div 4
           N == fb.width * fb.height
           M == 4 * fb.width * fb.height
           i == p[2] * k + p[1]
           A == PixelAddress(fb, p[1], p[2])
           Hit == \E j \in 0 .. N - 1 : A = fb.addr + 4 * j
           Y == p[2] * fb.pitch
           K == p[2] * k
<1>1. /\ p[1] \in Nat /\ p[2] \in Nat /\ fb.addr \in Nat
      /\ fb.width \in Nat /\ fb.height \in Nat /\ fb.pitch \in Nat
      /\ k \in Nat /\ fb.pitch = 4 * k
  <2>1. fb.pitch \in Nat /\ fb.pitch % 4 = 0 /\ fb.width \in Nat /\ fb.height \in Nat
    BY DEF ValidScreen
  <2>2. k \in Nat /\ fb.pitch = 4 * k
    BY <2>1
  <2>3. fb.addr \in Nat
    BY GraphicsAssumption DEF ValidScreen, WordAddresses
  <2>4. p[1] \in Nat /\ p[2] \in Nat
    BY <2>1 DEF Pixels
  <2> QED BY <2>1, <2>2, <2>3, <2>4
<1> HIDE DEF k
<1>2. K \in Nat /\ Y = 4 * K
  BY <1>1, WordsOfRows
<1>3. N \in Nat /\ M = 4 * N
  BY <1>1
<1>4. A = fb.addr + Y + 4 * p[1]
  BY <1>1, AddressValue
<1>5. p \in Reached(fb) <=> Y + 4 * p[1] < M
  BY DEF Reached
<1>6. i = K + p[1]
  OBVIOUS
<1>7. GraphicsClear(words, fb, color)[A] = IF Hit THEN color ELSE words[A]
  <2>1. A \in DOMAIN words /\ A \in WordAddresses
    BY AddressValue
  <2> HIDE DEF A
  <2> QED BY <2>1, RunOfWords
<1> HIDE DEF N, M, Y, K, A, i
<1>8. i \in Nat /\ A = fb.addr + 4 * i /\ (p \in Reached(fb) <=> i < N)
  BY <1>1, <1>2, <1>3, <1>4, <1>5, <1>6
<1>9. Hit <=> i < N
  BY <1>1, <1>3, <1>8
<1> HIDE DEF Hit
<1> QED BY <1>7, <1>8, <1>9 DEF A

(* It writes nowhere but in the frame buffer. *)
THEOREM ClearInside ==
  ASSUME NEW fb, ValidScreen(fb), NEW words, NEW color,
         NEW a \in DOMAIN words, a \in WordAddresses,
         a \notin fb.addr .. fb.addr + fb.height * fb.pitch - 1
  PROVE  GraphicsClear(words, fb, color)[a] = words[a]
<1> DEFINE N == fb.width * fb.height
           E == fb.height * fb.pitch
           Hit == \E j \in 0 .. N - 1 : a = fb.addr + 4 * j
<1>1. N \in Nat /\ E \in Nat /\ 4 * N <= E /\ fb.addr \in Nat
  BY RunFits, GraphicsAssumption DEF ValidScreen, WordAddresses
<1>2. a \notin fb.addr .. fb.addr + E - 1
  OBVIOUS
<1>3. GraphicsClear(words, fb, color)[a] = IF Hit THEN color ELSE words[a]
  BY RunOfWords
<1> HIDE DEF N, E
<1>4. ~Hit
  BY <1>1, <1>2
<1> HIDE DEF Hit
<1> QED BY <1>3, <1>4

(* "Make the whole screen a given color": so it is, if the rows are packed.*)
THEOREM PackedReached ==
  ASSUME NEW fb, ValidScreen(fb), fb.pitch = 4 * fb.width
  PROVE  Reached(fb) = Pixels(fb)
<1> SUFFICES ASSUME NEW p \in Pixels(fb)
             PROVE  p[2] * fb.pitch + 4 * p[1] < 4 * fb.width * fb.height
  BY DEF Reached
<1> DEFINE P == fb.pitch
           Y == p[2] * P
           E == fb.height * P
<1>1. /\ p[1] \in 0 .. fb.width - 1 /\ p[2] \in 0 .. fb.height - 1
      /\ P \in Nat /\ P = 4 * fb.width /\ fb.width \in Nat /\ fb.height \in Nat
  BY DEF Pixels, ValidScreen
<1>2. Y \in Nat /\ E \in Nat /\ Y + P <= E
  BY <1>1, RowsApart
<1>3. 4 * fb.width * fb.height = E
  BY <1>1
<1>4. Y + 4 * p[1] < E
  <2> HIDE DEF P, Y, E
  <2> QED BY <1>1, <1>2
<1> QED BY <1>3, <1>4

(* And so it is not, if the rows are padded and there are two of them: the *)
(* last pixel is not reached.                                              *)
THEOREM PaddedNotReached ==
  ASSUME NEW fb, ValidScreen(fb), fb.pitch # 4 * fb.width,
         fb.width >= 1, fb.height >= 2
  PROVE  <<fb.width - 1, fb.height - 1>> \in Pixels(fb) \ Reached(fb)
<1> DEFINE w == fb.width
           n == fb.height - 1
           P == fb.pitch
<1>1. w \in Nat /\ n \in Nat /\ P \in Nat /\ n >= 1 /\ P >= 4 * w + 4 /\ fb.height = n + 1
  BY DEF ValidScreen
<1>2. n * P >= n * (4 * w + 4)
  BY <1>1
<1>3. n * (4 * w + 4) = 4 * (w * n) + 4 * n
  BY <1>1
<1>4. 4 * w * fb.height = 4 * (w * n) + 4 * w
  BY <1>1
<1>5. n * P + 4 * (w - 1) >= 4 * w * fb.height
  <2> DEFINE a == n * P
             b == w * n
             d == 4 * w * fb.height
  <2>1. a \in Int /\ b \in Int /\ d \in Int
    BY <1>1
  <2>2. a >= 4 * b + 4 * n /\ d = 4 * b + 4 * w
    BY <1>2, <1>3, <1>4
  <2> HIDE DEF a, b, d
  <2>3. a + 4 * (w - 1) >= d
    BY <1>1, <2>1, <2>2
  <2> QED BY <2>3 DEF a, d
<1>6. <<w - 1, n>> \in Pixels(fb)
  BY <1>1 DEF Pixels
<1>7. ~(n * P + 4 * (w - 1) < 4 * w * fb.height)
  BY <1>1, <1>5
<1> QED BY <1>6, <1>7 DEF Reached

-----------------------------------------------------------------------------
(* The list of calls, by index. *)

Names ==
  [i \in 1 .. 33 |->
     IF i = 1 THEN "graphics_init" ELSE IF i = 2 THEN "clear"
     ELSE IF i \in {3, 9} THEN "mem_init" ELSE IF i \in 4 .. 6 THEN "draw_rect_full"
     ELSE IF i = 7 THEN "magic" ELSE IF i = 8 THEN "gdt_init"
     ELSE IF i = 10 THEN "vfs_init" ELSE IF i = 11 THEN "idt_set_gate"
     ELSE IF i \in 12 .. 26 THEN "ob" ELSE IF i = 27 THEN "load_idt"
     ELSE IF i = 28 THEN "kbd_init" ELSE IF i = 29 THEN "task_init"
     ELSE IF i = 30 THEN "test_init" ELSE IF i = 31 THEN "sh_init"
     ELSE IF i = 32 THEN "sti" ELSE "sh_loop"]

(* kmain has 33 calls. *)
LEMMA KmainLength == Len(kmain) = 33 /\ DOMAIN kmain = 1 .. 33
<1>1. Len(kmain) = 33
  BY DEF kmain, Early, idt_init, RemapPic, MaskPic
<1> QED BY <1>1 DEF kmain, Early, idt_init, RemapPic, MaskPic

(* What is called at each place of the list. *)
LEMMA KmainNames == \A i \in 1 .. 33 : kmain[i].call = Names[i]
<1>1. kmain[1].call = "graphics_init" /\ kmain[2].call = "clear" /\ kmain[3].call = "mem_init"
  BY DEF kmain, Early, idt_init, RemapPic, MaskPic, Do
<1>2. \A i \in 4 .. 6 : kmain[i].call = "draw_rect_full"
  BY DEF kmain, Early, idt_init, RemapPic, MaskPic, Rect
<1>3. kmain[7].call = "magic" /\ kmain[8].call = "gdt_init" /\ kmain[9].call = "mem_init"
  BY DEF kmain, Early, idt_init, RemapPic, MaskPic, Do
<1>4. kmain[10].call = "vfs_init" /\ kmain[11].call = "idt_set_gate"
  BY DEF kmain, Early, idt_init, RemapPic, MaskPic, Do
<1>5. \A i \in 12 .. 26 : kmain[i].call = "ob"
  BY DEF kmain, Early, idt_init, RemapPic, MaskPic, ob
<1>6. kmain[27].call = "load_idt" /\ kmain[28].call = "kbd_init" /\ kmain[29].call = "task_init"
  BY DEF kmain, Early, idt_init, RemapPic, MaskPic, Do
<1>7. kmain[30].call = "test_init" /\ kmain[31].call = "sh_init"
      /\ kmain[32].call = "sti" /\ kmain[33].call = "sh_loop"
  BY DEF kmain, Early, idt_init, RemapPic, MaskPic, Do
<1> QED BY <1>1, <1>2, <1>3, <1>4, <1>5, <1>6, <1>7 DEF Names

(* The bytes for the PIC. *)
LEMMA KmainBytes ==
  /\ kmain[12] = ob(PIC1_COMMAND, 17) /\ kmain[13] = ob(PIC2_COMMAND, 17)
  /\ kmain[14] = ob(PIC1_DATA, 32)    /\ kmain[15] = ob(PIC2_DATA, 40)
  /\ kmain[16] = ob(PIC1_DATA, 4)     /\ kmain[17] = ob(PIC2_DATA, 2)
  /\ kmain[18] = ob(PIC1_DATA, 1)     /\ kmain[19] = ob(PIC2_DATA, 1)
  /\ kmain[20] = ob(PIC1_DATA, 0)     /\ kmain[21] = ob(PIC2_DATA, 0)
  /\ kmain[22] = ob(PIC1_DATA, 255)   /\ kmain[23] = ob(PIC2_DATA, 255)
  /\ kmain[24] = ob(PIC1_DATA, 253)   /\ kmain[25] = ob(PIC1_DATA, 252)
  /\ kmain[26] = ob(PIC2_DATA, 255)
<1> USE DEF kmain, Early, idt_init, RemapPic, MaskPic
<1>1. kmain[12] = ob(PIC1_COMMAND, 17) /\ kmain[13] = ob(PIC2_COMMAND, 17)
  OBVIOUS
<1>2. kmain[14] = ob(PIC1_DATA, 32)    /\ kmain[15] = ob(PIC2_DATA, 40)
  OBVIOUS
<1>3. kmain[16] = ob(PIC1_DATA, 4)     /\ kmain[17] = ob(PIC2_DATA, 2)
  OBVIOUS
<1>4. kmain[18] = ob(PIC1_DATA, 1)     /\ kmain[19] = ob(PIC2_DATA, 1)
  OBVIOUS
<1>5. kmain[20] = ob(PIC1_DATA, 0)     /\ kmain[21] = ob(PIC2_DATA, 0)
  OBVIOUS
<1>6. kmain[22] = ob(PIC1_DATA, 255)   /\ kmain[23] = ob(PIC2_DATA, 255)
  OBVIOUS
<1>7. kmain[24] = ob(PIC1_DATA, 253)   /\ kmain[25] = ob(PIC1_DATA, 252)
      /\ kmain[26] = ob(PIC2_DATA, 255)
  OBVIOUS
<1> QED BY <1>1, <1>2, <1>3, <1>4, <1>5, <1>6, <1>7

(* The rectangles. *)
LEMMA KmainRects ==
  ASSUME NEW i \in 4 .. 6
  PROVE  \E x \in Nat, y \in Nat, w \in Nat, h \in Nat, color \in {Red, Green, Blue} :
           kmain[i].color = color /\ kmain[i].rect = [x |-> x, y |-> y, w |-> w, h |-> h]
<1>1. /\ kmain[4] = Rect(2, 2, 4, 3, Red) /\ kmain[5] = Rect(3, 3, 4, 3, Green)
      /\ kmain[6] = Rect(4, 4, 4, 3, Blue)
  <2> USE DEF kmain, Early, idt_init, RemapPic, MaskPic
  <2>1. kmain[4] = Rect(2, 2, 4, 3, Red)
    OBVIOUS
  <2>2. kmain[5] = Rect(3, 3, 4, 3, Green)
    OBVIOUS
  <2>3. kmain[6] = Rect(4, 4, 4, 3, Blue)
    OBVIOUS
  <2> QED BY <2>1, <2>2, <2>3
<1>2. 2 * Unit \in Nat /\ 3 * Unit \in Nat /\ 4 * Unit \in Nat
  <2>1. Unit \in Nat
    BY BootAssumption
  <2> QED BY <2>1
<1>3. CASE i = 4
  <2>1. kmain[i].color = Red
    BY <1>1, <1>3 DEF Rect
  <2>2. kmain[i].rect = [x |-> 2 * Unit, y |-> 2 * Unit, w |-> 4 * Unit, h |-> 3 * Unit]
    BY <1>1, <1>3 DEF Rect
  <2> QED BY <1>2, <2>1, <2>2
<1>4. CASE i = 5
  <2>1. kmain[i].color = Green
    BY <1>1, <1>4 DEF Rect
  <2>2. kmain[i].rect = [x |-> 3 * Unit, y |-> 3 * Unit, w |-> 4 * Unit, h |-> 3 * Unit]
    BY <1>1, <1>4 DEF Rect
  <2> QED BY <1>2, <2>1, <2>2
<1>5. CASE i = 6
  <2>1. kmain[i].color = Blue
    BY <1>1, <1>5 DEF Rect
  <2>2. kmain[i].rect = [x |-> 4 * Unit, y |-> 4 * Unit, w |-> 4 * Unit, h |-> 3 * Unit]
    BY <1>1, <1>5 DEF Rect
  <2> USE <1>2
  <2> WITNESS 4 * Unit \in Nat, 4 * Unit \in Nat, 4 * Unit \in Nat, 3 * Unit \in Nat,
              Blue \in {Red, Green, Blue}
  <2> QED BY <2>1, <2>2
<1>6. i = 4 \/ i = 5 \/ i = 6
  OBVIOUS
<1> QED BY <1>3, <1>4, <1>5, <1>6, Zenon

(* Which action belongs to which index. *)
LEMMA ReachesAt ==
  ASSUME at \in 0 .. 33
  PROVE  /\ Reaches("graphics_init") => at = 1
         /\ Reaches("clear") => at = 2
         /\ Reaches("draw_rect_full") => at \in 4 .. 6
         /\ Reaches("magic") => at = 7
         /\ Reaches("gdt_init") => at = 8
         /\ Reaches("mem_init") => at \in {3, 9}
         /\ Reaches("idt_set_gate") => at = 11
         /\ Reaches("ob") => at \in 12 .. 26
         /\ Reaches("load_idt") => at = 27
         /\ Reaches("task_init") => at = 29
         /\ Reaches("vfs_init") => at = 10
         /\ Reaches("kbd_init") => at = 28
         /\ Reaches("test_init") => at = 30
         /\ Reaches("sh_init") => at = 31
         /\ Reaches("sti") => at = 32
         /\ Reaches("sh_loop") => at = 33
<1>1. at # 0 => kmain[at].call = Names[at]
  BY KmainNames
<1>2. Reaches("graphics_init") => at = 1
  BY <1>1 DEF Names, Reaches
<1>3. Reaches("clear") => at = 2
  BY <1>1 DEF Names, Reaches
<1>4. Reaches("draw_rect_full") => at \in 4 .. 6
  BY <1>1 DEF Names, Reaches
<1>5. Reaches("magic") => at = 7
  BY <1>1 DEF Names, Reaches
<1>6. Reaches("gdt_init") => at = 8
  BY <1>1 DEF Names, Reaches
<1>7. Reaches("mem_init") => at \in {3, 9}
  BY <1>1 DEF Names, Reaches
<1>8. Reaches("idt_set_gate") => at = 11
  BY <1>1 DEF Names, Reaches
<1>9. Reaches("ob") => at \in 12 .. 26
  BY <1>1 DEF Names, Reaches
<1>10. Reaches("load_idt") => at = 27
  BY <1>1 DEF Names, Reaches
<1>11. Reaches("task_init") => at = 29
  BY <1>1 DEF Names, Reaches
<1>12. Reaches("vfs_init") => at = 10
  BY <1>1 DEF Names, Reaches
<1>13. Reaches("kbd_init") => at = 28
  BY <1>1 DEF Names, Reaches
<1>14. Reaches("test_init") => at = 30
  BY <1>1 DEF Names, Reaches
<1>15. Reaches("sh_init") => at = 31
  BY <1>1 DEF Names, Reaches
<1>16. Reaches("sti") => at = 32
  BY <1>1 DEF Names, Reaches
<1>17. Reaches("sh_loop") => at = 33
  BY <1>1 DEF Names, Reaches
<1> QED BY <1>2, <1>3, <1>4, <1>5, <1>6, <1>7, <1>8, <1>9, <1>10, <1>11, <1>12, <1>13, <1>14, <1>15, <1>16, <1>17

-----------------------------------------------------------------------------
(* The PIC. *)

LEMMA BitsOf ==
  /\ Bits(252) = 2 .. 7
  /\ \A byte \in 0 .. 255 : Bits(byte) \in SUBSET (0 .. 7)
  /\ 0 \in Bits(17)
<1>1. Bits(252) = 2 .. 7
  <2>1. /\ Weight[0 + 1] = 1 /\ Weight[1 + 1] = 2 /\ Weight[2 + 1] = 4 /\ Weight[3 + 1] = 8
        /\ Weight[4 + 1] = 16 /\ Weight[5 + 1] = 32 /\ Weight[6 + 1] = 64 /\ Weight[7 + 1] = 128
    BY DEF Weight
  <2>2. \A line \in 0 .. 7 : line \in {0, 1, 2, 3, 4, 5, 6, 7}
    OBVIOUS
  <2>3. \A line \in {0, 1} : (252 \div Weight[line + 1]) % 2 = 0
    BY <2>1
  <2>4. \A line \in {2, 3, 4, 5, 6, 7} : (252 \div Weight[line + 1]) % 2 = 1
    BY <2>1
  <2>5. \A line \in 0 .. 7 : (252 \div Weight[line + 1]) % 2 = 1 <=> line \in 2 .. 7
    BY <2>2, <2>3, <2>4
  <2> QED BY <2>5 DEF Bits
<1>2. 0 \in Bits(17)
  BY DEF Bits, Weight
<1> QED BY <1>1, <1>2 DEF Bits

Words == {<<>>, <<"mode">>, <<"cascade", "mode">>, <<"base", "cascade", "mode">>}

(* The initialisation words that a PIC awaits, one fewer each time. *)
LEMMA ThreeWords ==
  ASSUME NEW a, NEW b, NEW d
  PROVE  /\ <<a, b>> \o <<d>> = <<a, b, d>>
         /\ Tail(<<a, b, d>>) = <<b, d>>
<1> DEFINE S == {a, b, d}
<1>1. <<a, b>> \in Seq(S) /\ <<d>> \in Seq(S) /\ <<a, b, d>> \in Seq(S) /\ <<b, d>> \in Seq(S)
  OBVIOUS
<1>2. <<a, b>> \o <<d>> = <<a, b, d>>
  <2> DEFINE s == <<a, b>> \o <<d>>
             t == <<a, b, d>>
  <2>1. s \in Seq(S) /\ Len(s) = 3 /\ s[1] = a /\ s[2] = b /\ s[3] = d
    BY <1>1
  <2>2. t \in Seq(S) /\ Len(t) = 3 /\ t[1] = a /\ t[2] = b /\ t[3] = d
    BY <1>1
  <2> HIDE DEF s, t, S
  <2>3. \A i \in 1 .. Len(s) : s[i] = t[i]
    BY <2>1, <2>2
  <2>4. s = t
    BY <2>1, <2>2, <2>3, SeqEqual
  <2> QED BY <2>4 DEF s, t
<1>3. Tail(<<a, b, d>>) = <<b, d>>
  <2> DEFINE s == Tail(<<a, b, d>>)
             t == <<b, d>>
  <2>1. s \in Seq(S) /\ Len(s) = 2 /\ s[1] = b /\ s[2] = d
    BY <1>1
  <2>2. t \in Seq(S) /\ Len(t) = 2 /\ t[1] = b /\ t[2] = d
    BY <1>1
  <2> HIDE DEF s, t, S
  <2>3. \A i \in 1 .. Len(s) : s[i] = t[i]
    BY <2>1, <2>2
  <2>4. s = t
    BY <2>1, <2>2, <2>3, SeqEqual
  <2> QED BY <2>4 DEF s, t
<1> QED BY <1>2, <1>3

(* One of two words is left. *)
LEMMA TwoWords ==
  ASSUME NEW a, NEW b
  PROVE  Tail(<<a, b>>) = <<b>>
<1> DEFINE S == {a, b}
           s == Tail(<<a, b>>)
           t == <<b>>
<1>1. s \in Seq(S) /\ Len(s) = 1 /\ s[1] = b
  <2>1. <<a, b>> \in Seq(S)
    OBVIOUS
  <2> QED BY <2>1
<1>2. t \in Seq(S) /\ Len(t) = 1 /\ t[1] = b
  OBVIOUS
<1> HIDE DEF s, t, S
<1>3. \A i \in 1 .. Len(s) : s[i] = t[i]
  BY <1>1, <1>2
<1>4. s = t
  BY <1>1, <1>2, <1>3, SeqEqual
<1> QED BY <1>4 DEF s, t

(* None of one word is left. *)
LEMMA OneWord ==
  ASSUME NEW a
  PROVE  Tail(<<a>>) = <<>>
<1>1. <<a>> \in Seq({a})
  OBVIOUS
<1>2. Tail(<<a>>) \in Seq({a}) /\ Len(Tail(<<a>>)) = 0
  BY <1>1
<1> QED BY <1>2

(* The words that a PIC still awaits after it got one. *)
LEMMA WordsTail ==
  ASSUME NEW s \in Words, s # <<>>
  PROVE  /\ Tail(s) \in Words
         /\ s = <<"mode">> => Tail(s) = <<>>
         /\ s = <<"cascade", "mode">> => Tail(s) = <<"mode">>
         /\ s = <<"base", "cascade", "mode">> => Tail(s) = <<"cascade", "mode">>
<1>1. s = <<"mode">> => Tail(s) = <<>>
  BY OneWord
<1>2. s = <<"cascade", "mode">> => Tail(s) = <<"mode">>
  BY TwoWords
<1>3. s = <<"base", "cascade", "mode">> => Tail(s) = <<"cascade", "mode">>
  BY ThreeWords
<1>4. s = <<"mode">> \/ s = <<"cascade", "mode">> \/ s = <<"base", "cascade", "mode">>
  BY Zenon DEF Words
<1>5. Tail(s) \in Words
  BY <1>1, <1>2, <1>3, <1>4, Zenon DEF Words
<1> QED BY <1>1, <1>2, <1>3, <1>5, Zenon

(* A byte keeps a chip a chip. *)
LEMMA ChipKept ==
  ASSUME NEW chip \in Chip, NEW value \in 0 .. 255
  PROVE  AfterData(chip, value) \in Chip /\ Restarted(chip, 17) \in Chip
<1>1. /\ chip.base \in 0 .. 255 /\ chip.mode \in 0 .. 255 /\ chip.mask \in SUBSET (0 .. 7)
      /\ chip.awaits \in Words
      /\ chip = [base |-> chip.base, mask |-> chip.mask, mode |-> chip.mode,
                 awaits |-> chip.awaits]
  BY DEF Chip, Words
<1>2. Bits(value) \in SUBSET (0 .. 7)
  BY BitsOf
<1>3. value - (value % 8) \in 0 .. 255
  OBVIOUS
<1>4. AfterData(chip, value) \in Chip
  <2>1. CASE chip.awaits = <<>>
    BY <1>1, <1>2, <2>1 DEF AfterData, Chip, Words
  <2>2. CASE chip.awaits # <<>>
    <3>1. Tail(chip.awaits) \in Words
      BY <1>1, <2>2, WordsTail
    <3> DEFINE base == IF Head(chip.awaits) = "base" THEN value - (value % 8) ELSE chip.base
               mode == IF Head(chip.awaits) = "mode" THEN value ELSE chip.mode
    <3>2. base \in 0 .. 255 /\ mode \in 0 .. 255
      BY <1>1, <1>3
    <3>3. AfterData(chip, value) = [base |-> base, mask |-> chip.mask, mode |-> mode,
                                   awaits |-> Tail(chip.awaits)]
      BY <1>1, <2>2 DEF AfterData
    <3> HIDE DEF base, mode
    <3> QED BY <1>1, <3>1, <3>2, <3>3 DEF Chip, Words
  <2> QED BY <2>1, <2>2
<1>5. Restarted(chip, 17) = [base |-> chip.base, mask |-> {}, mode |-> 0,
                             awaits |-> <<"base", "cascade", "mode">>]
  <2>1. ASSUME NEW a, NEW b, NEW d
        PROVE  <<a, b>> \o <<d>> = <<a, b, d>>
    BY ThreeWords
  <2>2. <<"base", "cascade">> \o (IF 0 \in Bits(17) THEN <<"mode">> ELSE <<>>)
          = <<"base", "cascade", "mode">>
    BY <2>1, BitsOf
  <2>3. Restarted(chip, 17) = [chip EXCEPT !.mask = {}, !.mode = 0,
                                           !.awaits = <<"base", "cascade", "mode">>]
    BY <2>2 DEF Restarted
  <2> QED BY <1>1, <2>3
<1>6. Restarted(chip, 17) \in Chip
  BY <1>1, <1>5 DEF Chip
<1> QED BY <1>4, <1>6

-----------------------------------------------------------------------------
(* The tables. *)

LEMMA HalfValue ==
  ASSUME NEW n \in Nat
  PROVE  256 * (n \div 256) + (n % 256) = n
  OBVIOUS

(* Half a word holds the size of a TSS and is a multiple of 16. *)
LEMMA HalfType == HALF \in Nat /\ HALF > 104 /\ HALF % 16 = 0
  BY SMT DEF HALF

(* The kernel's code and data segments are flat. *)
LEMMA FlatSegment ==
  ASSUME NEW access
  PROVE  LET d == Descriptor(Zero, Max, access, 207)
         IN  /\ BaseOf(d) = Zero /\ LimitOf(d) = 16 * HALF - 1 /\ InPages(d)
             /\ d.access = access
  BY SMT DEF Descriptor, Zero, Max, BaseOf, LimitOf, InPages, HALF

(* What gdt_init puts where the selectors lead. *)
LEMMA SegmentsAt ==
  /\ Segments[8 \div 8] = Descriptor(Zero, Max, 154, 207)
  /\ Segments[16 \div 8] = Descriptor(Zero, Max, 146, 207)
  /\ Segments[43 \div 8] = Descriptor(TssAddress, Plus(TssAddress, TssSize), 233, 0)
  BY DEF Segments, SegmentList

(* A limit of 20 bits, 104 behind an address that is not at the end of its *)
(* megabyte; M is 2^16.                                                    *)
LEMMA NextModulo ==
  ASSUME NEW n \in Nat, n % 16 < 15
  PROVE  (n + 1) % 16 = (n % 16) + 1
  BY SMT
(* Below a multiple of 16, the last hexadecimal digit is 15. *)
LEMMA LastModulo ==
  ASSUME NEW M \in Nat, M > 0, M % 16 = 0
  PROVE  (M - 1) % 16 = 15
  BY SMT
(* Products that the provers do not see through, kept apart. *)
LEMMA Product ==
  ASSUME NEW M \in Nat, M > 0, NEW k \in Nat, M * k < 15 * M
  PROVE  k < 15
  BY SMT
(* A product is no less than its factor. *)
LEMMA AtLeast ==
  ASSUME NEW M \in Nat, NEW k \in Nat, k >= 1
  PROVE  M * k >= M
  BY SMT
(* A number below M is its own remainder. *)
LEMMA Split1 ==
  ASSUME NEW M \in Nat, NEW n \in Nat, n < M
  PROVE  n % M = n /\ n \div M = 0
  BY SMT
(* A number from M to below 2M carries one. *)
LEMMA Split2 ==
  ASSUME NEW M \in Nat, NEW n \in Nat, M <= n, n < 2 * M
  PROVE  n % M = n - M /\ n \div M = 1
  BY SMT
(* The address behind the TSS, cut to 20 bits, is a limit that covers it,  *)
(* if the TSS lies in one megabyte: the carry of the lower half included.  *)
LEMMA LimitBehind ==
  ASSUME NEW M \in Nat, M > 104, M % 16 = 0,
         NEW hi \in 0 .. M - 1, NEW lo \in 0 .. M - 1,
         M * (hi % 16) + lo + 104 < 16 * M
  PROVE  LET up  == (hi + (lo + 104) \div M) % M
             low == (lo + 104) % M
         IN  /\ up \in 0 .. M - 1 /\ low \in 0 .. M - 1
             /\ M * (up % 16) + low >= 103
<1> DEFINE up  == (hi + (lo + 104) \div M) % M
           low == (lo + 104) % M
<1>1. CASE lo + 104 < M
  <2>1. up = hi /\ low = lo + 104
    BY <1>1, Split1
  <2>2. M * (hi % 16) >= 0
    <3>1. hi % 16 \in Nat
      BY SMT
    <3> QED BY <3>1, SMT
  <2> QED BY <1>1, <2>1, <2>2, SMT
<1>2. CASE lo + 104 >= M
  <2>1. (lo + 104) \div M = 1 /\ low = lo + 104 - M
    BY <1>2, Split2
  <2> DEFINE k == hi % 16
  <2>2. k \in Nat
    BY SMT
  <2>3. M * k < 15 * M
    <3> HIDE DEF k
    <3> QED BY <1>2, <2>2, SMT DEF k
  <2>4. k < 15
    BY <2>2, <2>3, Product
  <2>5. (hi + 1) % 16 = k + 1
    BY <2>4, NextModulo
  <2>6. hi + 1 <= M - 1
    BY <2>4, LastModulo
  <2>7. up = hi + 1
    BY <2>1, <2>6, Split1
  <2>8. M * (k + 1) >= M
    BY <2>2, AtLeast
  <2>9. low \in 0 .. M - 1
    BY <1>2, <2>1
  <2> HIDE DEF up, low
  <2> QED BY <2>5, <2>6, <2>7, <2>8, <2>9
<1> QED BY <1>1, <1>2

(* The base and the limit that the CPU reads back from the descriptor of   *)
(* the TSS.                                                                *)
LEMMA TssDescriptor ==
  ASSUME NEW hi \in 0 .. HALF - 1, NEW lo \in 0 .. HALF - 1, NEW up \in Nat, NEW low
  PROVE  LET d == Descriptor(<<hi, lo>>, <<up, low>>, 233, 0)
         IN  /\ BaseOf(d) = <<hi, lo>> /\ ~InPages(d)
             /\ LimitOf(d) = HALF * (up % 16) + low
<1> DEFINE d == Descriptor(<<hi, lo>>, <<up, low>>, 233, 0)
           g == up % 16
<1>1. d.base_low = lo /\ d.base_mid = hi % 256 /\ d.base_high = hi \div 256 /\ d.limit_low = low
  BY SMT DEF Descriptor
<1>2. g \in 0 .. 15 /\ g % 16 = g /\ g \div 128 = 0
  BY SMT
<1>3. d.gran = g
  BY SMT DEF Descriptor
<1> HIDE DEF d, g
<1>4. BaseOf(d) = <<hi, lo>>
  <2>1. hi \in Nat
    BY HalfType, SMT
  <2>2. 256 * (hi \div 256) + (hi % 256) = hi
    BY <2>1, HalfValue
  <2> QED BY <1>1, <2>2, SMT DEF BaseOf
<1>5. ~InPages(d)
  BY <1>2, <1>3, SMT DEF InPages
<1>6. LimitOf(d) = HALF * g + low
  BY <1>1, <1>2, <1>3, SMT DEF LimitOf
<1> QED BY <1>4, <1>5, <1>6, Zenon DEF d, g

(* The segment of the task register: all of tss. *)
LEMMA TssSegment ==
  LET d == Segments[43 \div 8]
  IN  BaseOf(d) = TssAddress /\ LimitOf(d) >= TssSize - 1 /\ ~InPages(d)
<1> DEFINE hi == TssAddress[1]
           lo == TssAddress[2]
           up  == (hi + (lo + 104) \div HALF) % HALF
           low == (lo + 104) % HALF
<1>1. TssAddress = <<hi, lo>> /\ hi \in 0 .. HALF - 1 /\ lo \in 0 .. HALF - 1
  BY TssAssumption, SMT
<1>2. HALF * (hi % 16) + lo + 104 < 16 * HALF
  BY TssAssumption, Zenon
<1>3. Plus(TssAddress, TssSize) = <<up, low>>
  BY Zenon DEF Plus, TssSize
<1> HIDE DEF hi, lo
<1>4. up \in 0 .. HALF - 1 /\ low \in 0 .. HALF - 1 /\ HALF * (up % 16) + low >= 103
  BY <1>1, <1>2, HalfType, LimitBehind, Zenon
<1> HIDE DEF up, low
<1>5. up \in Nat
  BY <1>4, HalfType, SMT
<1>6. LET d == Descriptor(<<hi, lo>>, <<up, low>>, 233, 0)
      IN  /\ BaseOf(d) = <<hi, lo>> /\ ~InPages(d)
          /\ LimitOf(d) = HALF * (up % 16) + low
  <2>1. low \in Nat
    BY <1>4, HalfType, SMT
  <2> QED BY <1>1, <1>5, <2>1, TssDescriptor, SMT
<1>7. Segments[43 \div 8] = Descriptor(<<hi, lo>>, <<up, low>>, 233, 0)
  <2>1. Segments[43 \div 8] = Descriptor(TssAddress, <<up, low>>, 233, 0)
    BY <1>3, SegmentsAt
  <2> QED BY <1>1, <2>1
<1>8. TssSize - 1 = 103
  BY SMT DEF TssSize
<1> QED BY <1>1, <1>4, <1>6, <1>7, <1>8, Zenon

(* With the kernel's tables, an interrupt gets to its handler. *)
LEMMA EntryIs ==
  ASSUME idtr = "kernel", gdtr = "kernel", idt = Gates, gdt = Segments,
         NEW v \in 32 .. 39
  PROVE  Entry(v) = IF v = 32 THEN "timer_handler"
                    ELSE IF v = 33 THEN "kbd_handler" ELSE "isr_stub"
<1>1. v \in 0 .. IDT_SIZE - 1
  BY BootAssumption
<1>2. /\ v \in DOMAIN idt /\ idt[v].flags = 142 /\ idt[v].sel = 8
      /\ idt[v].base = IF v = 32 THEN "timer_handler"
                       ELSE IF v = 33 THEN "kbd_handler" ELSE "isr_stub"
  BY <1>1 DEF Gates, Gate
<1>3. Selected(8).access = 154
  BY SegmentsAt, FlatSegment DEF Selected
<1> QED BY <1>2, <1>3 DEF Entry, IsCode

-----------------------------------------------------------------------------
(* The inductive invariant. *)

(* Until the shell runs nothing interrupts the calls, and a byte that was  *)
(* in port 0x60 when the PIC was initialised stays there, with no request. *)
Flow ==
  /\ at # 33 => isr = {} /\ cpu = "main" /\ ~iflag
  /\ reset = "no" <=> at <= 12
  /\ reset = "lost" => obf # Empty /\ KBD \notin irr /\ cpu # "kbd_handler"

(* What the tables hold by then. *)
Tables ==
  /\ gdtr = "kernel" => at >= 9
  /\ at >= 9 => gdtr = "kernel" /\ gdt = Segments /\ tr = 43
  /\ at >= 12 => idt = Gates
  /\ at >= 28 => idtr = "kernel"
  /\ at <= 7 => gdtr = "loader" /\ idtr = "loader"

(* How far the master is. *)
Master ==
  LET m == pic["master"]
  IN  /\ at <= 7 => m.base = 8
      /\ at \in 13 .. 14 => m.awaits = <<"base", "cascade", "mode">>
      /\ at \in 15 .. 16 => m.awaits = <<"cascade", "mode">>
      /\ at \in 17 .. 18 => m.awaits = <<"mode">>
      /\ at >= 15 => m.base = 32
      /\ at >= 19 => m.awaits = <<>> /\ m.mode = 1
      /\ at >= 26 => m.mask = 2 .. 7

(* The screen, the boot task's block and the test of the magic number.     *)
Others ==
  /\ graphics_mode => Supported(mbt)
  /\ at <= 29 => active_task = 0
  /\ ~magic => at <= 7

BInv ==
  /\ BootTypeOK /\ Flow /\ Tables /\ Master /\ Others
  /\ StuckOnlyIfLost /\ OnlyFramebufferWritten /\ BootTaskKept

(* What a call of kmain leaves alone, and what everything else does.       *)
LEMMA KmainKeeps ==
  ASSUME Kmain
  PROVE  /\ UNCHANGED <<kbd_buff, buff_ridx, buff_widx, obf, cpu, pc, c, ret, magic, mbt>>
         /\ ~OutByte => UNCHANGED <<irr, isr, pic, reset>>
  BY DEF Kmain, GraphicsInit, Clear, DrawRect, CheckMagic, GdtInit, MemInit, IdtSetGates,
     OutByte, LoadIdt, TaskInit, OtherCall, Sti, vars, ring, local, setup, display, tables, heap

(* Whatever is not a call of kmain leaves its variables alone; only clear  *)
(* writes to memory.                                                       *)
LEMMA NotKmain ==
  ASSUME [BootNext]_bootVars, ~Kmain
  PROVE  /\ UNCHANGED <<at, magic, mbt, graphics_mode, gdt, gdtr, tr, idt, idtr, iflag, pic,
                        free_memory_address, active_task, reset>>
         /\ ~ShellClear => UNCHANGED mem
  BY DEF BootNext, bootVars, Shell, ShellClear, KbdStep, TimerStep, StubStep, Accept,
     AcceptSpurious, Ticks, OtherRequest, Types, setup, display, tables, heap

(* The next call is one of the list, or none is left. *)
LEMMA AtRange == BootTypeOK <=> BootTypeOK /\ at \in 0 .. 33
  BY KmainLength DEF BootTypeOK

(* What an interrupt meets in the shell. *)
LEMMA AcceptMeets ==
  ASSUME BInv, iflag
  PROVE  /\ at = 33 /\ reset # "no"
         /\ Pending = irr \cap {TIMER, KBD}
         /\ \A irq \in {TIMER, KBD} : Entry(Vector(irq)) = Handler[irq]
         /\ Entry(Vector(7)) = "isr_stub"
<1>1. at = 33 /\ reset # "no"
  BY DEF BInv, Flow
<1>2. irr \subseteq {TIMER, KBD, DEVICE}
  BY DEF BInv, BootTypeOK
<1>3. /\ pic.master.base = 32 /\ pic.master.awaits = <<>> /\ pic.master.mode = 1
      /\ pic.master.mask = 2 .. 7
  BY <1>1 DEF BInv, Master
<1>4. Pending = irr \cap {TIMER, KBD}
  <2>1. \A line \in irr : line \in {TIMER, KBD, DEVICE}
    BY <1>2
  <2>2. \A line \in {TIMER, KBD, DEVICE} : line \in pic.master.mask <=> line \notin {TIMER, KBD}
    BY <1>3 DEF TIMER, KBD, DEVICE
  <2> QED BY <2>1, <2>2 DEF Pending
<1>5. \A line \in 0 .. 7 : Vector(line) = 32 + line
  BY <1>3 DEF Vector
<1>6. idtr = "kernel" /\ gdtr = "kernel" /\ idt = Gates /\ gdt = Segments
  BY <1>1 DEF BInv, Tables
<1>7. /\ Entry(32) = "timer_handler" /\ Entry(33) = "kbd_handler" /\ Entry(39) = "isr_stub"
  BY <1>6, EntryIs
<1>8. Entry(Vector(0)) = "timer_handler" /\ Entry(Vector(1)) = "kbd_handler"
      /\ Entry(Vector(7)) = "isr_stub"
  BY <1>5, <1>7
<1> QED BY <1>1, <1>4, <1>8 DEF Handler, TIMER, KBD

-----------------------------------------------------------------------------
(* Each part of the invariant is kept by a step. *)

LEMMA FlowKept ==
  ASSUME BInv, [BootNext]_bootVars
  PROVE  Flow'
<1>1. at \in 0 .. 33 /\ reset \in {"no", "clean", "lost"}
  BY KmainLength DEF BInv, BootTypeOK
<1> USE DEF BInv, Flow
<1>2. CASE Kmain
  <2>1. UNCHANGED <<obf, cpu>> /\ (~OutByte => UNCHANGED <<irr, isr, reset>>)
    BY <1>2, KmainKeeps
  <2>2. CASE OutByte
    <3>1. at \in 12 .. 26 /\ at' = at + 1 /\ iflag' = iflag
      BY <1>1, <2>2, ReachesAt DEF OutByte, Return
    <3>2. CASE at = 12
      <4>1. kmain[at] = ob(PIC1_COMMAND, 17)
        BY <3>2, KmainBytes
      <4>2. kmain[at].port = PIC1_COMMAND
        BY <4>1 DEF ob
      <4>3. /\ irr' = {} /\ isr' = {}
            /\ reset' = IF reset # "no" THEN reset ELSE IF obf = Empty THEN "clean" ELSE "lost"
        BY <2>2, <4>2 DEF OutByte, WritePic, PIC1_COMMAND, PIC1_DATA, PIC2_COMMAND, PIC2_DATA
      <4> QED BY <2>1, <3>1, <3>2, <4>3
    <3>3. CASE at # 12
      <4>1. kmain[at].port \in {PIC1_DATA, PIC2_DATA, PIC2_COMMAND}
        <5>1. at \in {13, 14, 15, 16, 17, 18, 19, 20, 21, 22, 23, 24, 25, 26}
          BY <3>1, <3>3
        <5> QED BY <5>1, KmainBytes DEF ob
      <4>2. UNCHANGED <<irr, isr, reset>>
        BY <2>2, <4>1 DEF OutByte, WritePic, PIC1_COMMAND, PIC1_DATA, PIC2_COMMAND, PIC2_DATA
      <4> QED BY <2>1, <3>1, <3>3, <4>2
    <3> QED BY <3>2, <3>3
  <2>3. CASE CheckMagic
    <3>1. at = 7 /\ at' \in {0, 8} /\ iflag' = iflag
      BY <1>1, <2>3, ReachesAt DEF CheckMagic, setup
    <3>2. ~OutByte
      BY <1>1, <3>1, ReachesAt DEF OutByte
    <3> QED BY <2>1, <3>1, <3>2
  <2>4. CASE Sti
    <3>1. at = 32 /\ at' = 33
      BY <1>1, <2>4, ReachesAt DEF Sti, Return
    <3>2. ~OutByte
      BY <1>1, <3>1, ReachesAt DEF OutByte
    <3> QED BY <2>1, <3>1, <3>2
  <2>5. CASE ~OutByte /\ ~CheckMagic /\ ~Sti
    <3>1. at' = at + 1 /\ iflag' = iflag /\ at # 32 /\ at # 33 /\ at # 12 /\ at # 0
      <4>1. at' = at + 1 /\ iflag' = iflag
        BY <1>2, <2>5 DEF Kmain, GraphicsInit, Clear, DrawRect, GdtInit, MemInit, IdtSetGates,
           LoadIdt, TaskInit, OtherCall, Return, setup
      <4>2. at \in {1, 2, 3, 8, 9, 10, 11, 27, 28, 29, 30, 31} \cup 4 .. 6
        BY <1>1, <1>2, <2>5, ReachesAt DEF Kmain, GraphicsInit, Clear, DrawRect, GdtInit, MemInit,
           IdtSetGates, LoadIdt, TaskInit, OtherCall
      <4> QED BY <4>1, <4>2
    <3> QED BY <1>1, <2>1, <2>5, <3>1
  <2> QED BY <2>2, <2>3, <2>4, <2>5
<1>3. CASE ~Kmain
  <2>1. UNCHANGED <<at, iflag, reset>>
    BY <1>3, NotKmain
  <2>2. CASE UNCHANGED vars
    BY <2>1, <2>2 DEF vars
  <2>3. CASE Shell
    <3>1. at = 33
      BY <1>1, <2>3, ReachesAt DEF Shell, InShell
    <3>2. UNCHANGED <<obf, irr>> /\ (cpu' = cpu \/ cpu' = "halted")
      BY <2>3 DEF Shell, Thread, Check, Halt, Load, Store, Call
    <3> QED BY <2>1, <3>1, <3>2
  <2>4. CASE KbdStep
    <3>1. at = 33
      BY <2>4 DEF KbdStep, KbdRead, KbdEoi
    <3>2. reset # "lost" \/ (UNCHANGED <<obf, irr>> /\ cpu' # "kbd_handler")
      BY <2>4 DEF KbdStep, KbdRead, KbdEoi
    <3> QED BY <1>1, <2>1, <3>1, <3>2
  <2>5. CASE TimerStep
    BY <2>1, <2>5 DEF TimerStep, TimerHandler
  <2>6. CASE StubStep
    BY <2>1, <2>6 DEF StubStep, IsrStub
  <2>7. ASSUME NEW irq \in 0 .. 7, Accept(irq)
        PROVE  Flow'
    <3>1. at = 33 /\ irq \in irr /\ irq \in {TIMER, KBD} /\ cpu' = Handler[irq]
      BY <2>7, AcceptMeets DEF Accept
    <3>2. obf' = obf /\ irr' = irr \ {irq}
      BY <2>7 DEF Accept
    <3>3. reset = "lost" => irq = TIMER
      BY <3>1
    <3>4. reset = "lost" => cpu' = "timer_handler"
      BY <3>1, <3>3 DEF Handler
    <3> QED BY <2>1, <3>1, <3>2, <3>4
  <2>8. CASE AcceptSpurious
    <3>1. at = 33 /\ cpu' = "isr_stub" /\ UNCHANGED <<obf, irr>>
      BY <2>8, AcceptMeets DEF AcceptSpurious
    <3> QED BY <2>1, <3>1
  <2>9. CASE Ticks
    BY <2>1, <2>9 DEF Ticks, Tick, TIMER, KBD
  <2>10. CASE OtherRequest
    BY <2>1, <2>10 DEF OtherRequest, SpuriousKbd, DEVICE, KBD
  <2>11. ASSUME NEW sc \in Scancodes, Types(sc)
         PROVE  Flow'
    BY <2>1, <2>11 DEF Types, KeyPress
  <2>12. CASE ShellClear
    BY <2>1, <2>12 DEF ShellClear, vars
  <2> QED BY <1>3, <2>2, <2>3, <2>4, <2>5, <2>6, <2>7, <2>8, <2>9, <2>10, <2>11, <2>12
          DEF BootNext, bootVars
<1> QED BY <1>2, <1>3

(* Where kmain is before and after a call. *)
LEMMA KmainAt ==
  ASSUME at \in 0 .. 33, magic \in BOOLEAN, Kmain
  PROVE  /\ at \in 1 .. 32
         /\ at' = IF at = 7 /\ ~magic THEN 0 ELSE at + 1
         /\ at = 1 => GraphicsInit
         /\ at = 8 => GdtInit
         /\ at = 11 => IdtSetGates
         /\ at \in 12 .. 26 => OutByte
         /\ at = 27 => LoadIdt
         /\ at = 29 => TaskInit
<1> DEFINE Goal ==
         /\ at \in 1 .. 32
         /\ at' = IF at = 7 /\ ~magic THEN 0 ELSE at + 1
         /\ at = 1 => GraphicsInit
         /\ at = 8 => GdtInit
         /\ at = 11 => IdtSetGates
         /\ at \in 12 .. 26 => OutByte
         /\ at = 27 => LoadIdt
         /\ at = 29 => TaskInit
<1>1. CASE GraphicsInit
  <2>1. at = 1 /\ at' = at + 1
    BY <1>1, ReachesAt DEF GraphicsInit, Return
  <2> QED BY <1>1, <2>1
<1>2. CASE Clear
  <2>1. at = 2 /\ at' = at + 1
    BY <1>2, ReachesAt DEF Clear, Return
  <2> QED BY <1>2, <2>1
<1>3. CASE DrawRect
  <2>1. at \in 4 .. 6 /\ at' = at + 1
    BY <1>3, ReachesAt DEF DrawRect, Return
  <2> QED BY <1>3, <2>1
<1>4. CASE CheckMagic
  <2>1. at = 7 /\ at' = IF magic THEN at + 1 ELSE 0
    BY <1>4, ReachesAt DEF CheckMagic
  <2> QED BY <1>4, <2>1
<1>5. CASE GdtInit
  <2>1. at = 8 /\ at' = at + 1
    BY <1>5, ReachesAt DEF GdtInit, Return
  <2> QED BY <1>5, <2>1
<1>6. CASE MemInit
  <2>1. at \in {3, 9} /\ at' = at + 1
    BY <1>6, ReachesAt DEF MemInit, Return
  <2> QED BY <1>6, <2>1
<1>7. CASE IdtSetGates
  <2>1. at = 11 /\ at' = at + 1
    BY <1>7, ReachesAt DEF IdtSetGates, Return
  <2> QED BY <1>7, <2>1
<1>8. CASE OutByte
  <2>1. at \in 12 .. 26 /\ at' = at + 1
    BY <1>8, ReachesAt DEF OutByte, Return
  <2> QED BY <1>8, <2>1
<1>9. CASE LoadIdt
  <2>1. at = 27 /\ at' = at + 1
    BY <1>9, ReachesAt DEF LoadIdt, Return
  <2> QED BY <1>9, <2>1
<1>10. CASE TaskInit
  <2>1. at = 29 /\ at' = at + 1
    BY <1>10, ReachesAt DEF TaskInit, Return
  <2> QED BY <1>10, <2>1
<1>11. CASE OtherCall
  <2>1. at \in {10, 28, 30, 31} /\ at' = at + 1
    BY <1>11, ReachesAt DEF OtherCall, Return
  <2> QED BY <1>11, <2>1
<1>12. CASE Sti
  <2>1. at = 32 /\ at' = at + 1
    BY <1>12, ReachesAt DEF Sti, Return
  <2> QED BY <1>12, <2>1
<1> QED BY <1>1, <1>2, <1>3, <1>4, <1>5, <1>6, <1>7, <1>8, <1>9, <1>10, <1>11, <1>12 DEF Kmain

(* No step takes back a table that was set up. *)
LEMMA TablesKept ==
  ASSUME BInv, [BootNext]_bootVars
  PROVE  Tables'
<1>1. at \in 0 .. 33 /\ magic \in BOOLEAN
  BY KmainLength DEF BInv, BootTypeOK
<1>2. CASE ~Kmain
  BY <1>2, NotKmain DEF BInv, Tables
<1>3. CASE Kmain
  <2>1. /\ at \in 1 .. 32
        /\ at' = IF at = 7 /\ ~magic THEN 0 ELSE at + 1
    BY <1>1, <1>3, KmainAt
  <2>2. /\ at = 8 => gdt' = Segments /\ gdtr' = "kernel" /\ tr' = 43
        /\ ~GdtInit => UNCHANGED <<gdt, gdtr, tr>>
        /\ at = 11 => idt' = Gates
        /\ ~IdtSetGates => idt' = idt
        /\ at = 27 => idtr' = "kernel"
        /\ ~LoadIdt => idtr' = idtr
    <3>1. (at = 8 => GdtInit) /\ (at = 11 => IdtSetGates) /\ (at = 27 => LoadIdt)
      BY <1>1, <1>3, KmainAt
    <3> QED BY <1>3, <3>1 DEF Kmain, GraphicsInit, Clear, DrawRect, CheckMagic, GdtInit, MemInit,
            IdtSetGates, OutByte, LoadIdt, TaskInit, OtherCall, Sti, setup, tables
  <2>3. (GdtInit => at = 8) /\ (IdtSetGates => at = 11) /\ (LoadIdt => at = 27)
    BY <1>1, ReachesAt DEF GdtInit, IdtSetGates, LoadIdt
  <2> QED BY <2>1, <2>2, <2>3 DEF BInv, Tables
<1> QED BY <1>2, <1>3

(* No step takes back what is known of the screen, the magic number and    *)
(* the boot task.                                                          *)
LEMMA OthersKept ==
  ASSUME BInv, [BootNext]_bootVars
  PROVE  Others' /\ BootTaskKept'
<1>1. /\ at \in 0 .. 33 /\ magic \in BOOLEAN
      /\ free_memory_address \in Nat /\ active_task \in Nat
  BY KmainLength DEF BInv, BootTypeOK
<1> USE DEF BInv, Others, BootTaskKept
<1>2. CASE ~Kmain
  BY <1>2, NotKmain
<1>3. CASE Kmain
  <2>1. /\ at \in 1 .. 32 /\ at' = IF at = 7 /\ ~magic THEN 0 ELSE at + 1
        /\ magic' = magic /\ mbt' = mbt
    BY <1>1, <1>3, KmainAt, KmainKeeps
  <2>2. graphics_mode' \in {graphics_mode, Supported(mbt)}
    BY <1>3 DEF Kmain, GraphicsInit, Clear, DrawRect, CheckMagic, GdtInit, MemInit,
       IdtSetGates, OutByte, LoadIdt, TaskInit, OtherCall, Sti, setup, display
  <2>3. CASE TaskInit
    BY <1>1, <2>1, <2>2, <2>3, ReachesAt DEF TaskInit
  <2>4. CASE MemInit
    BY <1>1, <2>1, <2>2, <2>4, ReachesAt DEF MemInit
  <2>5. CASE ~TaskInit /\ ~MemInit
    <3>1. UNCHANGED <<free_memory_address, active_task>>
      BY <1>3, <2>5 DEF Kmain, GraphicsInit, Clear, DrawRect, CheckMagic, GdtInit,
         IdtSetGates, OutByte, LoadIdt, OtherCall, Sti, setup, heap
    <3>2. at # 29
      BY <1>1, <1>3, <2>5, KmainAt
    <3> QED BY <2>1, <2>2, <3>1, <3>2
  <2> QED BY <2>3, <2>4, <2>5
<1> QED BY <1>2, <1>3

(* The master's registers after a byte for one of its ports. *)
LEMMA MasterWritten ==
  ASSUME BootTypeOK, OutByte
  PROVE  /\ kmain[at].port = PIC1_COMMAND
              => pic'["master"] = Restarted(pic["master"], kmain[at].value)
         /\ kmain[at].port = PIC1_DATA
              => pic'["master"] = AfterData(pic["master"], kmain[at].value)
         /\ kmain[at].port \in {PIC2_COMMAND, PIC2_DATA} => pic'["master"] = pic["master"]
  BY DEF BootTypeOK, OutByte, WritePic, PIC1_COMMAND, PIC1_DATA, PIC2_COMMAND, PIC2_DATA

(* The first initialisation word makes a PIC await the other three and     *)
(* keeps its vectors.                                                      *)
LEMMA RestartedIs ==
  ASSUME NEW chip \in Chip
  PROVE  /\ Restarted(chip, 17).awaits = <<"base", "cascade", "mode">>
         /\ Restarted(chip, 17).base = chip.base
<1>1. <<"base", "cascade">> \o (IF 0 \in Bits(17) THEN <<"mode">> ELSE <<>>)
         = <<"base", "cascade", "mode">>
  <2>1. ASSUME NEW a, NEW b, NEW d
        PROVE  <<a, b>> \o <<d>> = <<a, b, d>>
    BY ThreeWords
  <2> QED BY <2>1, BitsOf
<1> QED BY <1>1 DEF Restarted, Chip

(* Every byte for the PICs brings the master where its place in kmain      *)
(* says.                                                                   *)
LEMMA MasterKept ==
  ASSUME BInv, [BootNext]_bootVars
  PROVE  Master'
<1>1. at \in 0 .. 33 /\ magic \in BOOLEAN /\ pic["master"] \in Chip
  BY KmainLength DEF BInv, BootTypeOK
<1> DEFINE m == pic["master"]
<1> USE DEF BInv, Master
<1>2. CASE ~Kmain
  BY <1>2, NotKmain
<1>3. CASE Kmain
  <2>1. /\ at \in 1 .. 32 /\ at' = IF at = 7 /\ ~magic THEN 0 ELSE at + 1
        /\ ~OutByte => pic' = pic
        /\ at \in 12 .. 26 => OutByte
    BY <1>1, <1>3, KmainAt, KmainKeeps
  <2>2. OutByte => at \in 12 .. 26
    BY <1>1, ReachesAt DEF OutByte
  <2>3. CASE ~OutByte
    <3>1. m' = m
      BY <2>1, <2>3, Zenon
    <3>2. /\ at' <= 7 => at <= 7
          /\ at' \notin 13 .. 14 /\ at' \notin 15 .. 16 /\ at' \notin 17 .. 18
          /\ at' >= 15 => at >= 15
          /\ at' >= 19 => at >= 19
          /\ at' >= 26 => at >= 26
      <4> HIDE DEF BInv, Master
      <4> QED BY <2>1, <2>3
    <3> HIDE DEF m
    <3> QED BY <3>1, <3>2, Zenon DEF m
  <2>4. CASE OutByte
    <3> USE <2>1, <2>2, <2>4
    <3>1. CASE at = 12
      <4>1. m' = Restarted(m, 17)
        BY <3>1, KmainBytes, MasterWritten DEF ob
      <4> HIDE DEF Master, m
      <4>2. m'.awaits = <<"base", "cascade", "mode">>
        BY <1>1, <4>1, RestartedIs DEF m
      <4> QED BY <3>1, <4>2 DEF Master, m
    <3>2. CASE at \in {13, 15, 17, 19, 21, 23, 26}
      <4>1. kmain[at].port \in {PIC2_COMMAND, PIC2_DATA}
        BY <3>2, KmainBytes DEF ob
      <4>2. m' = m
        BY <4>1, MasterWritten
      <4> QED BY <3>2, <4>2
    <3>3. CASE at = 14
      <4>1. m' = AfterData(m, 32)
        BY <3>3, KmainBytes, MasterWritten DEF ob
      <4>2. m.awaits = <<"base", "cascade", "mode">> /\ 32 - (32 % 8) = 32
        BY <3>3
      <4>3. m'.awaits = <<"cascade", "mode">> /\ m'.base = 32
        <5>1. Tail(m.awaits) = <<"cascade", "mode">> /\ Head(m.awaits) = "base" /\ m.awaits # <<>>
          BY <4>2, ThreeWords
        <5> QED BY <1>1, <4>1, <4>2, <5>1 DEF AfterData, Chip
      <4> QED BY <3>3, <4>3
    <3>4. CASE at = 16
      <4>1. m' = AfterData(m, 4)
        BY <3>4, KmainBytes, MasterWritten DEF ob
      <4>2. m.awaits = <<"cascade", "mode">> /\ m.base = 32
        BY <3>4
      <4>3. m'.awaits = <<"mode">> /\ m'.base = 32
        <5>1. Tail(m.awaits) = <<"mode">> /\ Head(m.awaits) = "cascade" /\ m.awaits # <<>>
          BY <4>2, TwoWords
        <5> QED BY <1>1, <4>1, <4>2, <5>1 DEF AfterData, Chip
      <4> QED BY <3>4, <4>3
    <3>5. CASE at = 18
      <4>1. m' = AfterData(m, 1)
        BY <3>5, KmainBytes, MasterWritten DEF ob
      <4>2. m.awaits = <<"mode">> /\ m.base = 32
        BY <3>5
      <4>3. m'.awaits = <<>> /\ m'.base = 32 /\ m'.mode = 1
        <5>1. Tail(m.awaits) = <<>> /\ Head(m.awaits) = "mode" /\ m.awaits # <<>>
          BY <4>2, OneWord
        <5> QED BY <1>1, <4>1, <4>2, <5>1 DEF AfterData, Chip
      <4> QED BY <3>5, <4>3
    <3>6. CASE at \in {20, 22, 24, 25}
      <4>1. PICK value : kmain[at] = ob(PIC1_DATA, value) /\ (at = 25 => value = 252)
        <5>1. CASE at = 20
          <6>1. kmain[at] = ob(PIC1_DATA, 0) /\ at # 25
            BY <5>1, KmainBytes
          <6> QED BY <6>1, Zenon
        <5>2. CASE at = 22
          <6>1. kmain[at] = ob(PIC1_DATA, 255) /\ at # 25
            BY <5>2, KmainBytes
          <6> QED BY <6>1, Zenon
        <5>3. CASE at = 24
          <6>1. kmain[at] = ob(PIC1_DATA, 253) /\ at # 25
            BY <5>3, KmainBytes
          <6> QED BY <6>1, Zenon
        <5>4. CASE at = 25
          <6>1. kmain[at] = ob(PIC1_DATA, 252)
            BY <5>4, KmainBytes
          <6> QED BY <6>1, ZenonT(40)
        <5> QED BY <3>6, <5>1, <5>2, <5>3, <5>4, Zenon
      <4>2. m' = AfterData(m, value)
        BY <4>1, MasterWritten DEF ob
      <4>3. m.awaits = <<>> /\ m.base = 32 /\ m.mode = 1
        BY <3>6
      <4>4. m' = [m EXCEPT !.mask = Bits(value)]
        BY <4>2, <4>3 DEF AfterData
      <4>5. m'.awaits = <<>> /\ m'.base = 32 /\ m'.mode = 1 /\ m'.mask = Bits(value)
        BY <1>1, <4>3, <4>4 DEF Chip
      <4> QED BY <3>6, <4>1, <4>5, BitsOf
    <3>7. at \in {12, 13, 14, 15, 16, 17, 18, 19, 20, 21, 22, 23, 24, 25, 26}
      OBVIOUS
    <3> QED BY <3>1, <3>2, <3>3, <3>4, <3>5, <3>6, <3>7
  <2> QED BY <2>3, <2>4
<1> QED BY <1>2, <1>3

Shades == {Was, Black, Red, Green, Blue}

(* Filling keeps memory a picture of words. *)
LEMMA FillType ==
  ASSUME NEW m \in [RAM -> Shades], NEW addresses, NEW color \in Shades
  PROVE  Fill(m, addresses, color) \in [RAM -> Shades]
  BY DEF Fill

(* The rectangles of kmain have colours. *)
LEMMA KmainColors == \A i \in 4 .. 6 : kmain[i].color \in Shades
<1> SUFFICES ASSUME NEW i \in 4 .. 6
             PROVE  kmain[i].color \in Shades
  OBVIOUS
<1>1. PICK color \in {Red, Green, Blue} : kmain[i].color = color
  BY KmainRects
<1> QED BY <1>1 DEF Shades

(* Every step keeps memory typed. *)
LEMMA MemKept ==
  ASSUME BootTypeOK, [BootNext]_bootVars
  PROVE  mem' \in [RAM -> Shades]
<1>1. mem \in [RAM -> Shades] /\ at \in 0 .. 33
  BY KmainLength DEF BootTypeOK, Shades
<1>2. GraphicsClear(mem, mbt, Black) \in [RAM -> Shades]
  BY <1>1, FillType DEF GraphicsClear, Shades
<1>3. CASE DrawRect
  <2>1. at \in 4 .. 6
    BY <1>1, <1>3, ReachesAt DEF DrawRect
  <2> DEFINE r == kmain[at].rect
  <2>2. DrawRectFull(mem, mbt, r.x, r.y, r.w, r.h, kmain[at].color) \in [RAM -> Shades]
    BY <1>1, <2>1, KmainColors, FillType DEF DrawRectFull
  <2> HIDE DEF r
  <2> QED BY <1>1, <1>3, <2>2 DEF DrawRect, r
<1>4. CASE Clear \/ ShellClear
  BY <1>1, <1>2, <1>4 DEF Clear, ShellClear, WipeScreen
<1>5. CASE ~DrawRect /\ ~Clear /\ ~ShellClear
  <2>1. mem' = mem
    <3>1. CASE Kmain
      BY <1>5, <3>1 DEF Kmain, GraphicsInit, CheckMagic, GdtInit, MemInit,
         IdtSetGates, OutByte, LoadIdt, TaskInit, OtherCall, Sti, setup, display
    <3>2. CASE ~Kmain
      BY <1>5, <3>2, NotKmain
    <3> QED BY <3>1, <3>2
  <2> QED BY <1>1, <2>1
<1> QED BY <1>3, <1>4, <1>5

(* Every step keeps the PICs typed. *)
LEMMA PicKept ==
  ASSUME BootTypeOK, [BootNext]_bootVars
  PROVE  pic' \in [{"master", "slave"} -> Chip] /\ reset' \in {"no", "clean", "lost"}
<1>1. /\ pic \in [{"master", "slave"} -> Chip] /\ reset \in {"no", "clean", "lost"}
      /\ at \in 0 .. 33
  BY KmainLength DEF BootTypeOK
<1>2. CASE OutByte
  <2>1. at \in 12 .. 26
    BY <1>1, <1>2, ReachesAt DEF OutByte
  <2>2. /\ kmain[at].value \in 0 .. 255
        /\ kmain[at].port \in {PIC1_COMMAND, PIC2_COMMAND} => kmain[at].value = 17
    <3>1. at \in {12, 13, 14, 15, 16, 17, 18, 19, 20, 21, 22, 23, 24, 25, 26}
      BY <2>1
    <3> QED BY <3>1, KmainBytes DEF ob, PIC1_COMMAND, PIC1_DATA, PIC2_COMMAND, PIC2_DATA
  <2>3. kmain[at].port \in {PIC1_COMMAND, PIC2_COMMAND, PIC1_DATA, PIC2_DATA}
    <3>1. at \in {12, 13, 14, 15, 16, 17, 18, 19, 20, 21, 22, 23, 24, 25, 26}
      BY <2>1
    <3> QED BY <3>1, KmainBytes DEF ob, PIC1_COMMAND, PIC1_DATA, PIC2_COMMAND, PIC2_DATA
  <2> DEFINE value == kmain[at].value
             port == kmain[at].port
  <2> HIDE DEF value, port
  <2>4. WritePic(port, value)
    BY <1>2 DEF OutByte, port, value
  <2>5. \A chip \in Chip : AfterData(chip, value) \in Chip /\ Restarted(chip, 17) \in Chip
    BY <2>2, ChipKept DEF value
  <2>6. value = 17 \/ port \in {PIC1_DATA, PIC2_DATA}
    BY <2>2, <2>3 DEF value, port
  <2>7. pic' \in [{"master", "slave"} -> Chip]
    BY <1>1, <2>4, <2>5, <2>6 DEF WritePic
  <2>8. reset' \in {reset, "clean", "lost"}
    BY <2>4 DEF WritePic
  <2> QED BY <1>1, <2>7, <2>8
<1>3. CASE ~OutByte
  <2>1. pic' = pic /\ reset' = reset
    BY <1>3, NotKmain, KmainKeeps
  <2> QED BY <1>1, <2>1
<1> QED BY <1>2, <1>3

(* Memory changes by a wipe or by a rectangle of kmain, and only if what   *)
(* mbt points to looks usable; with a multiboot loader it then is.         *)
LEMMA MemStep ==
  ASSUME BInv, [BootNext]_bootVars, mem' # mem
  PROVE  /\ Supported(mbt)
         /\ magic => /\ ValidScreen(mbt)
                     /\ \A p \in Pixels(mbt) : PixelAddress(mbt, p[1], p[2]) \in RAM
         /\ \/ mem' = GraphicsClear(mem, mbt, Black)
            \/ /\ at \in 4 .. 6
               /\ LET r == kmain[at].rect
                  IN  mem' = DrawRectFull(mem, mbt, r.x, r.y, r.w, r.h, kmain[at].color)
<1>1. at \in 0 .. 33 /\ (magic => mbt \in Framebuffers)
  BY KmainLength DEF BInv, BootTypeOK
<1>2. DrawRect \/ Clear \/ ShellClear
  <2>1. CASE Kmain
    BY <2>1 DEF Kmain, GraphicsInit, CheckMagic, GdtInit, MemInit,
       IdtSetGates, OutByte, LoadIdt, TaskInit, OtherCall, Sti, setup, display
  <2>2. CASE ~Kmain
    BY <2>2, NotKmain
  <2> QED BY <2>1, <2>2
<1>3. DrawRect => at \in 4 .. 6
  BY <1>1, ReachesAt DEF DrawRect
<1>4. /\ graphics_mode
      /\ \/ mem' = GraphicsClear(mem, mbt, Black)
         \/ /\ DrawRect
            /\ LET r == kmain[at].rect
               IN  mem' = DrawRectFull(mem, mbt, r.x, r.y, r.w, r.h, kmain[at].color)
  BY <1>2 DEF DrawRect, Clear, ShellClear, WipeScreen
<1>5. Supported(mbt)
  BY <1>4 DEF BInv, Others
<1>6. magic => /\ ValidScreen(mbt)
               /\ \A p \in Pixels(mbt) : PixelAddress(mbt, p[1], p[2]) \in RAM
  BY <1>1, <1>5, ScreenAssumption, Zenon
<1> QED BY <1>3, <1>4, <1>5, <1>6

(* Nobody writes the boot loader's structure, or takes its magic back.     *)
LEMMA MbtKept ==
  ASSUME [BootNext]_bootVars
  PROVE  mbt' = mbt /\ magic' = magic
  BY KmainKeeps, NotKmain

(* No step writes outside the frame buffer of a multiboot loader. *)
LEMMA FramebufferKept ==
  ASSUME BInv, [BootNext]_bootVars
  PROVE  OnlyFramebufferWritten'
<1>1. mbt' = mbt /\ magic' = magic
  BY MbtKept
<1>2. OnlyFramebufferWritten /\ mem \in [RAM -> Shades]
  BY DEF BInv, BootTypeOK, Shades
<1>3. CASE mem' = mem
  BY <1>1, <1>2, <1>3 DEF OnlyFramebufferWritten
<1>4. CASE mem' # mem
  <2>1. SUFFICES ASSUME magic, NEW a \in RAM,
                        a \notin mbt.addr .. mbt.addr + mbt.height * mbt.pitch - 1
                 PROVE  mem'[a] = mem[a]
    <3>1. Supported(mbt)
      BY <1>4, MemStep
    <3> QED BY <1>1, <1>2, <2>1, <3>1, Zenon DEF OnlyFramebufferWritten
  <2>2. ValidScreen(mbt) /\ a \in DOMAIN mem /\ a \in WordAddresses
    BY <1>2, <1>4, <2>1, MemStep, ScreenAssumption
  <2>3. CASE mem' = GraphicsClear(mem, mbt, Black)
    BY <2>1, <2>2, <2>3, ClearInside
  <2>4. CASE mem' # GraphicsClear(mem, mbt, Black)
    <3>1. /\ at \in 4 .. 6
          /\ LET r == kmain[at].rect
             IN  mem' = DrawRectFull(mem, mbt, r.x, r.y, r.w, r.h, kmain[at].color)
      BY <1>4, <2>4, MemStep
    <3>2. PICK x \in Nat, y \in Nat, w \in Nat, h \in Nat, color \in {Red, Green, Blue} :
            kmain[at].color = color /\ kmain[at].rect = [x |-> x, y |-> y, w |-> w, h |-> h]
      BY <3>1, KmainRects
    <3>3. mem' = DrawRectFull(mem, mbt, x, y, w, h, color)
      BY <3>1, <3>2
    <3>4. x \in Int /\ y \in Int /\ w \in Int /\ h \in Int
      OBVIOUS
    <3> QED BY <2>1, <2>2, <3>3, <3>4, RectInside
  <2> QED BY <2>3, <2>4
<1> QED BY <1>3, <1>4

(* A byte in port 0x60 keeps its request, or its handler. *)
LEMMA StuckKept ==
  ASSUME BInv, [BootNext]_bootVars
  PROVE  StuckOnlyIfLost'
<1>1. at \in 0 .. 33 /\ reset \in {"no", "clean", "lost"} /\ irr \subseteq {TIMER, KBD, DEVICE}
      /\ cpu \in {"main", "halted", "kbd_handler", "kbd_eoi", "timer_handler", "isr_stub"}
  BY KmainLength DEF BInv, BootTypeOK
<1>2. StuckOnlyIfLost
  BY DEF BInv
<1> USE DEF StuckOnlyIfLost
<1>3. CASE Kmain
  <2>1. UNCHANGED <<obf, cpu>> /\ (~OutByte => UNCHANGED <<irr, reset>>)
    BY <1>3, KmainKeeps
  <2>2. CASE OutByte
    <3>1. \/ UNCHANGED <<irr, reset>>
          \/ reset' = IF reset # "no" THEN reset ELSE IF obf = Empty THEN "clean" ELSE "lost"
      BY <2>2 DEF OutByte, WritePic
    <3>2. CASE UNCHANGED <<irr, reset>>
      BY <1>2, <2>1, <3>2
    <3>3. CASE ~UNCHANGED <<irr, reset>>
      <4>1. at = 12
        <5>1. at \in 12 .. 26
          BY <1>1, <2>2, ReachesAt DEF OutByte
        <5>2. kmain[at].port \notin {PIC1_DATA, PIC2_DATA, PIC2_COMMAND}
          BY <2>2, <3>3 DEF OutByte, WritePic, PIC1_COMMAND, PIC1_DATA, PIC2_COMMAND, PIC2_DATA
        <5>3. at # 12 => at \in {13, 14, 15, 16, 17, 18, 19, 20, 21, 22, 23, 24, 25, 26}
          BY <5>1
        <5> QED BY <5>2, <5>3, KmainBytes DEF ob
      <4>2. reset = "no"
        BY <4>1 DEF BInv, Flow
      <4> QED BY <2>1, <3>1, <3>3, <4>2
    <3> QED BY <3>2, <3>3
  <2> QED BY <1>2, <2>1, <2>2
<1>4. CASE ~Kmain
  <2>1. reset' = reset
    BY <1>4, NotKmain
  <2>2. CASE UNCHANGED vars \/ ShellClear
    BY <1>2, <2>1, <2>2 DEF vars, ShellClear
  <2>3. CASE Shell
    BY <1>2, <2>1, <2>3 DEF Shell, Thread, Check, Halt, Load, Store, Call
  <2>4. CASE KbdStep
    BY <1>2, <2>1, <2>4 DEF KbdStep, KbdRead, ReadData, KbdEoi
  <2>5. CASE TimerStep \/ StubStep
    BY <1>2, <2>1, <2>5 DEF TimerStep, TimerHandler, StubStep, IsrStub
  <2>6. ASSUME NEW irq \in 0 .. 7, Accept(irq)
        PROVE  StuckOnlyIfLost'
    <3>1. irq \in {TIMER, KBD} /\ cpu' = Handler[irq]
      BY <2>6, AcceptMeets DEF Accept
    <3>2. cpu # "kbd_handler" /\ obf' = obf /\ irr' = irr \ {irq}
      BY <2>6 DEF Accept
    <3>3. irq = KBD => cpu' = "kbd_handler"
      BY <3>1 DEF Handler, TIMER, KBD
    <3>4. irq = TIMER => (KBD \in irr => KBD \in irr')
      BY <3>2 DEF TIMER, KBD
    <3> QED BY <1>2, <2>1, <3>1, <3>2, <3>3, <3>4
  <2>7. CASE AcceptSpurious
    <3>1. irr \cap {TIMER, KBD} = {} /\ cpu # "kbd_handler" /\ obf' = obf
      BY <2>7, AcceptMeets DEF AcceptSpurious
    <3> QED BY <1>2, <2>1, <3>1
  <2>8. CASE Ticks \/ OtherRequest
    BY <1>2, <2>1, <2>8 DEF Ticks, Tick, OtherRequest, SpuriousKbd
  <2>9. ASSUME NEW sc \in Scancodes, Types(sc)
        PROVE  StuckOnlyIfLost'
    BY <2>9 DEF Types, KeyPress
  <2> QED BY <1>4, <2>2, <2>3, <2>4, <2>5, <2>6, <2>7, <2>8, <2>9 DEF BootNext, bootVars
<1> QED BY <1>3, <1>4

(* Every step keeps the types. *)
LEMMA TypeKept ==
  ASSUME BInv, [BootNext]_bootVars
  PROVE  BootTypeOK'
<1>1. BootTypeOK /\ Flow
  BY DEF BInv
<1>2. at \in 0 .. 33 /\ magic \in BOOLEAN
  BY KmainLength, <1>1 DEF BootTypeOK
<1>3. pic' \in [{"master", "slave"} -> Chip] /\ reset' \in {"no", "clean", "lost"}
  BY <1>1, PicKept
<1>4. mem' \in [RAM -> {Was, Black, Red, Green, Blue}]
  BY <1>1, MemKept DEF Shades
<1>5. mbt' \in Framebuffers \cup Garbage /\ (magic' => mbt' \in Framebuffers)
  BY <1>1, MbtKept DEF BootTypeOK
<1>6. at' \in 0 .. Len(kmain) /\ magic' \in BOOLEAN
  BY <1>2, KmainAt, KmainKeeps, NotKmain, KmainLength
<1>7. /\ graphics_mode' \in BOOLEAN /\ iflag' \in BOOLEAN
      /\ free_memory_address' \in Nat /\ active_task' \in Nat
  <2>1. /\ graphics_mode \in BOOLEAN /\ iflag \in BOOLEAN
        /\ free_memory_address \in Nat /\ active_task \in Nat
    BY <1>1 DEF BootTypeOK
  <2>2. CASE ~Kmain
    BY <2>1, <2>2, NotKmain
  <2>3. CASE Kmain
    <3>1. free_memory_address' \in Nat /\ active_task' \in Nat
      BY <2>1, <2>3 DEF Kmain, GraphicsInit, Clear, DrawRect, CheckMagic, GdtInit, MemInit,
         IdtSetGates, OutByte, LoadIdt, TaskInit, OtherCall, Sti, setup, heap
    <3>2. iflag' \in BOOLEAN
      BY <2>1, <2>3 DEF Kmain, GraphicsInit, Clear, DrawRect, CheckMagic, GdtInit, MemInit,
         IdtSetGates, OutByte, LoadIdt, TaskInit, OtherCall, Sti, setup
    <3>3. graphics_mode' \in BOOLEAN
      BY <2>1, <2>3 DEF Kmain, GraphicsInit, Clear, DrawRect, CheckMagic, GdtInit, MemInit,
         IdtSetGates, OutByte, LoadIdt, TaskInit, OtherCall, Sti, setup, display, Supported
    <3> QED BY <3>1, <3>2, <3>3
  <2> QED BY <2>2, <2>3
<1> DEFINE K ==
         /\ kbd_buff \in [Slots -> Chars \cup {NUL}]
         /\ buff_ridx \in Slots /\ buff_widx \in Slots
         /\ obf \in Scancodes \cup {Empty}
         /\ irr \subseteq {TIMER, KBD, DEVICE} /\ isr \subseteq {TIMER, KBD}
         /\ cpu \in {"main", "halted", "kbd_handler", "kbd_eoi", "timer_handler", "isr_stub"}
         /\ pc \in {"check", "hlt", "load", "store", "caller"}
<1>8. K'
  <2>1. K
    BY <1>1 DEF BootTypeOK
  <2>2. CASE Kmain
    <3>1. UNCHANGED <<kbd_buff, buff_ridx, buff_widx, obf, cpu, pc>>
      BY <2>2, KmainKeeps
    <3>2. (irr' = irr \/ irr' = {}) /\ (isr' = isr \/ isr' = {})
      BY <2>2, KmainKeeps DEF OutByte, WritePic
    <3> QED BY <2>1, <3>1, <3>2
  <2>3. CASE UNCHANGED vars \/ ShellClear
    BY <2>1, <2>3 DEF vars, ShellClear
  <2>4. CASE Shell
    <3>1. NextSlot(buff_ridx) \in Slots
      BY <2>1, NextSlotValue
    <3> QED BY <2>1, <2>4, <3>1 DEF Shell, Thread, Check, Halt, Load, Store, Call
  <2>5. CASE KbdStep
    <3>1. obf # Empty => Ascii(obf) \in Chars \cup {NUL}
      BY <2>1, AsciiType
    <3>2. NextSlot(buff_widx) \in Slots
      BY <2>1, NextSlotValue
    <3>3. CASE KbdRead
      <4>1. UNCHANGED <<buff_ridx, irr, isr, pc>> /\ cpu' = "kbd_eoi"
        BY <3>3 DEF KbdRead
      <4>2. obf' \in {obf, Empty} /\ buff_widx' \in {buff_widx, NextSlot(buff_widx)}
        BY <3>3 DEF KbdRead, ReadData
      <4>3. \/ kbd_buff' = kbd_buff
            \/ /\ obf # Empty
               /\ kbd_buff' = [kbd_buff EXCEPT ![buff_widx] = Ascii(obf)]
        <5>1. CASE obf = Empty
          BY <3>3, <5>1 DEF KbdRead, ReadData
        <5>2. CASE obf # Empty /\ IsChar(Ascii(obf)) /\ HasRoom
          BY <3>3, <5>2, Zenon DEF KbdRead
        <5>3. CASE obf # Empty /\ ~(IsChar(Ascii(obf)) /\ HasRoom)
          BY <3>3, <5>3 DEF KbdRead, ReadData
        <5> QED BY <5>1, <5>2, <5>3
      <4>4. kbd_buff' \in [Slots -> Chars \cup {NUL}]
        BY <2>1, <3>1, <4>3
      <4> QED BY <2>1, <3>2, <4>1, <4>2, <4>4
    <3>4. CASE KbdEoi
      BY <2>1, <3>4 DEF KbdEoi, EndOfInterrupt
    <3> QED BY <2>5, <3>3, <3>4 DEF KbdStep
  <2>6. CASE TimerStep \/ StubStep
    BY <2>1, <2>6 DEF TimerStep, TimerHandler, StubStep, IsrStub, EndOfInterrupt
  <2>7. ASSUME NEW irq \in 0 .. 7, Accept(irq)
        PROVE  K'
    <3>1. irq \in {TIMER, KBD} /\ cpu' \in {"timer_handler", "kbd_handler"}
      <4>1. irq \in {TIMER, KBD} /\ cpu' = Handler[irq]
        BY <2>7, AcceptMeets DEF Accept
      <4> QED BY <4>1 DEF Handler
    <3>2. UNCHANGED <<kbd_buff, buff_ridx, buff_widx, obf>> /\ irr' = irr \ {irq}
          /\ isr' = isr \cup {irq} /\ pc' \in {pc, "check"}
      BY <2>7 DEF Accept, WakeUp
    <3> QED BY <2>1, <3>1, <3>2
  <2>8. CASE AcceptSpurious
    <3>1. cpu' = "isr_stub"
      BY <2>8, AcceptMeets DEF AcceptSpurious
    <3> QED BY <2>1, <2>8, <3>1 DEF AcceptSpurious, WakeUp
  <2>9. CASE Ticks \/ OtherRequest
    BY <2>1, <2>9 DEF Ticks, Tick, OtherRequest, SpuriousKbd
  <2>10. ASSUME NEW sc \in Scancodes, Types(sc)
         PROVE  K'
    BY <2>1, <2>10 DEF Types, KeyPress
  <2> QED BY <2>2, <2>3, <2>4, <2>5, <2>6, <2>7, <2>8, <2>9, <2>10 DEF BootNext, bootVars
<1> QED BY <1>3, <1>4, <1>5, <1>6, <1>7, <1>8 DEF BootTypeOK

(* The invariant holds at power-on. *)
LEMMA InitBInv == BootInit => BInv
<1> SUFFICES ASSUME BootInit
             PROVE  BInv
  OBVIOUS
<1> USE DEF BootInit
<1>1. /\ kbd_buff \in [Slots -> Chars \cup {NUL}] /\ buff_ridx \in Slots /\ buff_widx \in Slots
      /\ obf \in Scancodes \cup {Empty} /\ irr \subseteq {TIMER, KBD, DEVICE}
      /\ isr \subseteq {TIMER, KBD} /\ cpu = "main" /\ pc = "check"
  BY KeyboardAssumption DEF Slots
<1>2. pic \in [{"master", "slave"} -> Chip] /\ pic["master"].base = 8
  BY DEF Chip
<1>3. mem \in [RAM -> {Was, Black, Red, Green, Blue}]
  OBVIOUS
<1>4. BootTypeOK
  <2>1. at \in 0 .. Len(kmain)
    BY KmainLength
  <2>2. magic \in BOOLEAN /\ graphics_mode \in BOOLEAN /\ iflag \in BOOLEAN
    BY Zenon
  <2>3. free_memory_address \in Nat /\ active_task \in Nat
    OBVIOUS
  <2>4. /\ mbt \in Framebuffers \cup Garbage /\ (magic => mbt \in Framebuffers)
        /\ reset \in {"no", "clean", "lost"}
    OBVIOUS
  <2> QED BY <1>1, <1>2, <1>3, <2>1, <2>2, <2>3, <2>4, Zenon DEF BootTypeOK
<1>5. Flow /\ Tables /\ Others /\ BootTaskKept
  BY DEF Flow, Tables, Others, BootTaskKept
<1>6. Master
  BY <1>2 DEF Master
<1>7. StuckOnlyIfLost
  BY DEF StuckOnlyIfLost
<1>8. OnlyFramebufferWritten
  BY DEF OnlyFramebufferWritten
<1> QED BY <1>4, <1>5, <1>6, <1>7, <1>8 DEF BInv

(* Every step keeps it, part by part. *)
LEMMA NextBInv == BInv /\ [BootNext]_bootVars => BInv'
<1> SUFFICES ASSUME BInv, [BootNext]_bootVars
             PROVE  BInv'
  OBVIOUS
<1>1. BootTypeOK' /\ Flow' /\ Tables' /\ Master' /\ Others'
  BY TypeKept, FlowKept, TablesKept, MasterKept, OthersKept
<1>2. StuckOnlyIfLost' /\ OnlyFramebufferWritten' /\ BootTaskKept'
  BY StuckKept, FramebufferKept, OthersKept
<1> QED BY <1>1, <1>2 DEF BInv

(* The invariant holds from power-on. *)
THEOREM BootInvariance == BootSpec => []BInv
  BY InitBInv, NextBInv, PTL DEF BootSpec

(* Every variable keeps its type; so the CPU never enters a gate that      *)
(* leads to no handler.                                                    *)
THEOREM BootTypeCorrect == BootSpec => []BootTypeOK
<1>1. BInv => BootTypeOK
  BY DEF BInv
<1> QED BY <1>1, BootInvariance, PTL

(* From power-on to the shell, a key waits with its request latched or its *)
(* handler running, unless it came before the PIC was initialised.         *)
THEOREM OnlyLostKeysStick == BootSpec => []StuckOnlyIfLost
<1>1. BInv => StuckOnlyIfLost
  BY DEF BInv
<1> QED BY <1>1, BootInvariance, PTL

(* With a multiboot loader the kernel draws inside the frame buffer, and   *)
(* only if there is one; with any other it draws nowhere, unless what mbt  *)
(* points to looks like a usable one.                                      *)
THEOREM DrawsInFramebuffer == BootSpec => []OnlyFramebufferWritten
<1>1. BInv => OnlyFramebufferWritten
  BY DEF BInv
<1> QED BY <1>1, BootInvariance, PTL

(* With a multiboot loader the kernel does not draw over itself: the guard *)
(* of its calls is there for the others.                                   *)
THEOREM KernelNotDrawnOn == BootSpec => [](magic => KernelIntact)
<1>1. BInv => (magic => KernelIntact)
  <2> SUFFICES ASSUME BInv, magic, NEW a \in KernelImage
               PROVE  mem[a] = Was
    BY DEF KernelIntact
  <2>1. mbt \in Framebuffers /\ a \in RAM
    BY ScreenAssumption DEF BInv, BootTypeOK
  <2>2. Supported(mbt) => a \notin mbt.addr .. mbt.addr + mbt.height * mbt.pitch - 1
    BY <2>1, ScreenAssumption, Zenon
  <2> QED BY <2>1, <2>2, Zenon DEF BInv, OnlyFramebufferWritten
<1> QED BY <1>1, BootInvariance, PTL

(* The boot task's block is not given out again. *)
THEOREM BootTaskStays == BootSpec => []BootTaskKept
<1>1. BInv => BootTaskKept
  BY DEF BInv
<1> QED BY <1>1, BootInvariance, PTL

(* Without a multiboot loader the tables, the PICs and the interrupt flag  *)
(* are left as they were found, as long as the kernel is.                  *)
THEOREM BadMagicLeavesMachine == BootSpec => []BadMagicInert
<1>1. BInv => BadMagicInert
  <2> SUFFICES ASSUME BInv, ~magic
               PROVE  BadMagicInert
    BY DEF BadMagicInert
  <2>1. at \in 0 .. 33 /\ at <= 7
    BY KmainLength DEF BInv, BootTypeOK, Others
  <2>2. at # 33 /\ at <= 12
    BY <2>1
  <2>3. ~iflag /\ reset = "no"
    BY <2>2, Zenon DEF BInv, Flow
  <2>4. gdtr = "loader" /\ idtr = "loader"
    BY <2>1, Zenon DEF BInv, Tables
  <2>5. pic.master.base = 8
    BY <2>1, Zenon DEF BInv, Master
  <2> QED BY <2>3, <2>4, <2>5, Zenon DEF BadMagicInert
<1> QED BY <1>1, BootInvariance, PTL

(* The kernel's segments cover memory, and the task register's all of tss, *)
(* wherever the linker puts it.                                            *)
THEOREM SegmentsCorrect == BootSpec => []SegmentsCover
<1>1. BInv => SegmentsCover
  <2> SUFFICES ASSUME BInv, gdtr = "kernel"
               PROVE  SegmentsCover
    BY DEF SegmentsCover
  <2>1. gdt = Segments /\ tr = 43
    BY DEF BInv, Tables
  <2>2. /\ Selected(8) = Descriptor(Zero, Max, 154, 207)
        /\ Selected(16) = Descriptor(Zero, Max, 146, 207)
        /\ Selected(tr) = Segments[43 \div 8]
    BY <2>1, SegmentsAt, Zenon DEF Selected
  <2>3. \A selector \in {8, 16} :
          /\ BaseOf(Selected(selector)) = Zero
          /\ LimitOf(Selected(selector)) = 16 * HALF - 1 /\ InPages(Selected(selector))
    <3>1. /\ BaseOf(Selected(8)) = Zero
          /\ LimitOf(Selected(8)) = 16 * HALF - 1 /\ InPages(Selected(8))
      BY <2>2, FlatSegment
    <3>2. /\ BaseOf(Selected(16)) = Zero
          /\ LimitOf(Selected(16)) = 16 * HALF - 1 /\ InPages(Selected(16))
      BY <2>2, FlatSegment
    <3> QED BY <3>1, <3>2, Zenon
  <2>4. Selected(8).access = 154 /\ Selected(16).access = 146
    BY <2>2, FlatSegment
  <2>5. IsCode(Selected(8)) /\ IsData(Selected(16))
    BY <2>4, Zenon DEF IsCode, IsData
  <2>6. /\ BaseOf(Selected(tr)) = TssAddress
        /\ LimitOf(Selected(tr)) >= TssSize - 1 /\ ~InPages(Selected(tr))
    BY <2>2, TssSegment, Zenon
  <2> QED BY <2>3, <2>5, <2>6, Zenon DEF SegmentsCover
<1> QED BY <1>1, BootInvariance, PTL

-----------------------------------------------------------------------------
(* The refinement of Keyboard. *)

LEMMA SeenKept ==
  ASSUME UNCHANGED <<obf, irr, reset>>
  PROVE  UNCHANGED <<SeenByte, SeenLines>>
  BY DEF SeenByte, SeenLines

(* Until the PIC is initialised nothing is seen, whatever happens.         *)
LEMMA NothingSeen ==
  ASSUME reset = "no"
  PROVE  /\ SeenByte = Empty /\ SeenLines = {}
         /\ reset' = reset => UNCHANGED <<SeenByte, SeenLines>>
  BY DEF SeenByte, SeenLines

(* From then on, a byte in port 0x60 is seen, or the keyboard is silent.   *)
LEMMA SeenLater ==
  ASSUME BInv, reset # "no", reset' = reset
  PROVE  /\ SeenLines = irr \cap {TIMER, KBD} /\ SeenLines' = irr' \cap {TIMER, KBD}
         /\ obf = Empty \/ cpu = "kbd_handler" => reset = "clean"
         /\ reset = "clean" => SeenByte = obf /\ SeenByte' = obf'
         /\ obf' = obf => SeenByte' = SeenByte
  BY DEF SeenByte, SeenLines, BInv, Flow, BootTypeOK

(* No call of kmain changes anything that Keyboard sees. *)
LEMMA KmainUnseen ==
  ASSUME BInv, Kmain
  PROVE  UNCHANGED Driver!vars
<1>1. UNCHANGED <<kbd_buff, buff_ridx, buff_widx, obf, cpu, pc, c, ret>>
  BY KmainKeeps
<1>2. at \in 0 .. 33
  BY KmainLength DEF BInv, BootTypeOK
<1>3. CASE UNCHANGED <<irr, isr, reset>>
  BY <1>1, <1>3, SeenKept DEF Driver!vars
<1>4. CASE ~UNCHANGED <<irr, isr, reset>>
  <2>1. OutByte
    BY <1>4, KmainKeeps
  <2>2. at = 12
    <3>1. at \in 12 .. 26
      BY <1>2, <2>1, ReachesAt DEF OutByte
    <3>2. kmain[at].port \notin {PIC1_DATA, PIC2_DATA, PIC2_COMMAND}
      BY <1>4, <2>1 DEF OutByte, WritePic, PIC1_COMMAND, PIC1_DATA, PIC2_COMMAND, PIC2_DATA
    <3>3. at # 12 => at \in {13, 14, 15, 16, 17, 18, 19, 20, 21, 22, 23, 24, 25, 26}
      BY <3>1
    <3> QED BY <3>2, <3>3, KmainBytes DEF ob
  <2>3. reset = "no" /\ isr = {}
    BY <2>2 DEF BInv, Flow
  <2>4. /\ irr' = {} /\ isr' = {}
        /\ reset' = IF obf = Empty THEN "clean" ELSE "lost"
    BY <1>4, <2>1, <2>3 DEF OutByte, WritePic
  <2>5. SeenByte' = Empty /\ SeenLines' = {}
    BY <1>1, <2>4 DEF SeenByte, SeenLines
  <2> QED BY <1>1, <2>3, <2>4, <2>5, NothingSeen DEF Driver!vars
<1> QED BY <1>3, <1>4

(* Every step of the booting kernel is one of Keyboard, or none. *)
LEMMA DriverStep ==
  ASSUME BInv, [BootNext]_bootVars
  PROVE  [Driver!Next]_(Driver!vars)
<1> SUFFICES Driver!Next \/ UNCHANGED Driver!vars
  OBVIOUS
<1>1. CASE Kmain
  BY <1>1, KmainUnseen
<1>2. CASE ~Kmain
  <2>1. reset' = reset
    BY <1>2, NotKmain
  <2>2. irr \subseteq {TIMER, KBD, DEVICE} /\ reset \in {"no", "clean", "lost"}
        /\ at \in 0 .. 33
    BY KmainLength DEF BInv, BootTypeOK
  <2>3. CASE UNCHANGED vars \/ ShellClear
    BY <2>1, <2>3, SeenKept DEF vars, ShellClear, Driver!vars
  <2>4. CASE Shell
    <3>1. UNCHANGED <<SeenByte, SeenLines>>
      BY <2>1, <2>4, SeenKept DEF Shell, Thread, Check, Halt, Load, Store, Call
    <3>2. Driver!Thread
      BY <2>4, <3>1 DEF Shell, Thread, Check, Halt, Load, Store, Call, NextSlot,
         Driver!Thread, Driver!Check, Driver!Halt, Driver!Load, Driver!Store, Driver!Call,
         Driver!NextSlot
    <3> QED BY <3>2 DEF Driver!Next
  <2>5. CASE KbdStep /\ KbdRead
    <3>1. at = 33 /\ reset # "no"
      BY <2>5 DEF KbdRead, BInv, Flow
    <3>2. /\ SeenByte = obf /\ SeenByte' = obf'
          /\ SeenLines = irr \cap {TIMER, KBD} /\ SeenLines' = irr' \cap {TIMER, KBD}
      BY <2>1, <2>5, <3>1, SeenLater DEF KbdRead
    <3>3. SeenLines' = SeenLines
      BY <2>5, <3>2 DEF KbdRead
    <3>4. Driver!KbdRead
      BY <2>5, <3>2, <3>3 DEF KbdRead, ReadData, IsChar, Ascii, HasRoom, NextSlot,
         Driver!KbdRead, Driver!ReadData, Driver!IsChar, Driver!Ascii, Driver!HasRoom, Driver!NextSlot
    <3> QED BY <3>4 DEF Driver!Next
  <2>6. CASE KbdStep /\ KbdEoi
    <3>1. UNCHANGED <<SeenByte, SeenLines>>
      BY <2>1, <2>6, SeenKept DEF KbdEoi
    <3>2. Driver!KbdEoi
      BY <2>6, <3>1 DEF KbdEoi, EndOfInterrupt, Driver!KbdEoi, Driver!EndOfInterrupt
    <3> QED BY <3>2 DEF Driver!Next
  <2>7. CASE TimerStep
    <3>1. UNCHANGED <<SeenByte, SeenLines>>
      BY <2>1, <2>7, SeenKept DEF TimerStep, TimerHandler
    <3>2. Driver!TimerHandler
      BY <2>7, <3>1 DEF TimerStep, TimerHandler, EndOfInterrupt, Driver!TimerHandler,
         Driver!EndOfInterrupt
    <3> QED BY <3>2 DEF Driver!Next
  <2>8. CASE StubStep
    <3>1. UNCHANGED <<SeenByte, SeenLines>>
      BY <2>1, <2>8, SeenKept DEF StubStep, IsrStub
    <3>2. Driver!IsrStub
      BY <2>8, <3>1 DEF StubStep, IsrStub, EndOfInterrupt, Driver!IsrStub, Driver!EndOfInterrupt
    <3> QED BY <3>2 DEF Driver!Next
  <2>9. ASSUME NEW irq \in 0 .. 7, Accept(irq)
        PROVE  Driver!Next
    <3>1. /\ at = 33 /\ reset # "no" /\ irq \in irr \cap {TIMER, KBD}
          /\ \A other \in irr \cap {TIMER, KBD} : irq <= other
          /\ cpu' = Handler[irq]
      BY <2>9, AcceptMeets DEF Accept
    <3>2. /\ SeenLines = irr \cap {TIMER, KBD} /\ SeenLines' = irr' \cap {TIMER, KBD}
          /\ SeenByte' = SeenByte
      BY <2>1, <2>9, <3>1, SeenLater DEF Accept
    <3>3. SeenLines' = SeenLines \ {irq}
      BY <2>9, <3>2 DEF Accept
    <3>4. Driver!Handler[irq] = Handler[irq] /\ irq \in {Driver!TIMER, Driver!KBD}
      BY <3>1 DEF Handler, TIMER, KBD, Driver!Handler, Driver!TIMER, Driver!KBD
    <3>5. Driver!Interrupt(irq)
      BY <2>9, <3>1, <3>2, <3>3, <3>4 DEF Accept, WakeUp, Driver!Interrupt, Driver!WakeUp
    <3> QED BY <3>4, <3>5 DEF Driver!Next
  <2>10. CASE AcceptSpurious
    <3>1. /\ reset # "no" /\ irr \cap {TIMER, KBD} = {} /\ cpu' = "isr_stub"
      BY <2>10, AcceptMeets DEF AcceptSpurious
    <3>2. SeenLines = {}
      BY <2>1, <3>1, SeenLater
    <3>3. UNCHANGED <<SeenByte, SeenLines>>
      BY <2>1, <2>10, SeenKept DEF AcceptSpurious
    <3>4. Driver!SpuriousIrq7
      BY <2>10, <3>1, <3>2, <3>3 DEF AcceptSpurious, WakeUp, Driver!SpuriousIrq7, Driver!WakeUp
    <3> QED BY <3>4 DEF Driver!Next
  <2>11. CASE Ticks
    <3>1. UNCHANGED <<kbd_buff, buff_ridx, buff_widx, obf, isr, cpu, pc, c, ret>>
          /\ TIMER \notin irr /\ irr' = irr \cup {TIMER}
      BY <2>11 DEF Ticks, Tick
    <3>2. CASE reset = "no"
      BY <2>1, <3>1, <3>2, NothingSeen DEF Driver!vars
    <3>3. CASE reset # "no"
      <4>1. /\ SeenLines = irr \cap {TIMER, KBD} /\ SeenLines' = irr' \cap {TIMER, KBD}
            /\ SeenByte' = SeenByte
        BY <2>1, <3>1, <3>3, SeenLater
      <4>2. TIMER \notin SeenLines /\ SeenLines' = SeenLines \cup {TIMER}
        BY <3>1, <4>1
      <4>3. Driver!Tick
        BY <3>1, <4>1, <4>2 DEF TIMER, Driver!Tick, Driver!TIMER
      <4> QED BY <4>3 DEF Driver!Next
    <3> QED BY <3>2, <3>3
  <2>12. CASE OtherRequest
    <3>1. UNCHANGED <<kbd_buff, buff_ridx, buff_widx, obf, isr, cpu, pc, c, ret>>
      BY <2>12 DEF OtherRequest, SpuriousKbd
    <3>2. CASE reset = "no"
      BY <2>1, <3>1, <3>2, NothingSeen DEF Driver!vars
    <3>3. CASE reset # "no"
      <4>1. /\ SeenLines = irr \cap {TIMER, KBD} /\ SeenLines' = irr' \cap {TIMER, KBD}
            /\ SeenByte' = SeenByte
            /\ obf = Empty => SeenByte = Empty
        BY <2>1, <3>1, <3>3, SeenLater
      <4>2. CASE SpuriousKbd
        <5>1. KBD \notin SeenLines /\ SeenLines' = SeenLines \cup {KBD} /\ SeenByte = Empty
          BY <4>1, <4>2 DEF SpuriousKbd
        <5>2. Driver!SpuriousKbd
          BY <3>1, <4>1, <5>1 DEF KBD, Driver!SpuriousKbd, Driver!KBD
        <5> QED BY <5>2 DEF Driver!Next
      <4>3. CASE ~SpuriousKbd
        <5>1. irr' = irr \cup {DEVICE}
          BY <2>12, <4>3 DEF OtherRequest
        <5>2. SeenLines' = SeenLines
          BY <4>1, <5>1 DEF DEVICE, TIMER, KBD
        <5> QED BY <3>1, <4>1, <5>2 DEF Driver!vars
      <4> QED BY <4>2, <4>3
    <3> QED BY <3>2, <3>3
  <2>13. ASSUME NEW sc \in Scancodes, Types(sc)
         PROVE  Driver!Next \/ UNCHANGED Driver!vars
    <3>1. /\ UNCHANGED <<kbd_buff, buff_ridx, buff_widx, isr, cpu, pc, c, ret>>
          /\ obf = Empty /\ obf' = sc /\ irr' = irr \cup {KBD}
      BY <2>13 DEF Types, KeyPress
    <3>2. CASE reset = "no"
      BY <2>1, <3>1, <3>2, NothingSeen DEF Driver!vars
    <3>3. CASE reset # "no"
      <4>1. /\ SeenLines = irr \cap {TIMER, KBD} /\ SeenLines' = irr' \cap {TIMER, KBD}
            /\ SeenByte = obf /\ SeenByte' = obf'
        BY <2>1, <3>1, <3>3, SeenLater
      <4>2. SeenLines' = SeenLines \cup {KBD}
        BY <3>1, <4>1
      <4>3. Driver!KeyPress(sc)
        BY <3>1, <4>1, <4>2 DEF KBD, Driver!KeyPress, Driver!KBD
      <4> QED BY <4>3 DEF Driver!Next
    <3> QED BY <3>2, <3>3
  <2> QED BY <1>2, <2>3, <2>4, <2>5, <2>6, <2>7, <2>8, <2>9, <2>10, <2>11, <2>12, <2>13
          DEF BootNext, bootVars, KbdStep
<1> QED BY <1>1, <1>2

(* What boot sets up is what Keyboard takes for granted; so all that is    *)
(* proved of Keyboard holds of the booted kernel.                          *)
THEOREM BootedKeyboard == BootSpec => KeyboardSpec
<1>1. BootInit => Driver!Init
  BY DEF BootInit, Driver!Init, SeenByte, SeenLines, Slots, Driver!Slots
<1>2. BInv /\ [BootNext]_bootVars => [Driver!Next]_(Driver!vars)
  BY DriverStep
<1> QED BY <1>1, <1>2, BootInvariance, PTL DEF BootSpec, KeyboardSpec, Driver!Spec

-----------------------------------------------------------------------------
(* The refinement of Canvas. *)

LEMMA WipeShown ==
  ASSUME BInv, mem' = GraphicsClear(mem, mbt, Black), mbt' = mbt, magic, magic' = magic,
         Supported(mbt), ValidScreen(mbt),
         \A p \in Pixels(mbt) : PixelAddress(mbt, p[1], p[2]) \in RAM
  PROVE  Shown!Wipe(Black)
<1>1. mem = [a \in RAM |-> mem[a]]
  BY DEF BInv, BootTypeOK
<1>2. \A p \in Reached(mbt) : mem'[PixelAddress(mbt, p[1], p[2])] = Black
  <2>1. \A p \in Reached(mbt) : p \in Pixels(mbt)
    BY DEF Reached
  <2> QED BY <1>1, <2>1, ClearShown
<1>3. Screen = [p \in Reached(mbt) |-> mem[PixelAddress(mbt, p[1], p[2])]]
  BY DEF Screen, Picture
<1>4. Screen' = [p \in Reached(mbt) |-> mem'[PixelAddress(mbt, p[1], p[2])]]
  BY DEF Screen, Picture
<1> QED BY <1>2, <1>3, <1>4 DEF Shown!Wipe

(* draw_rect_full paints a rectangle on the picture that is seen. *)
LEMMA PaintShown ==
  ASSUME BInv, mbt' = mbt, magic, magic' = magic, Supported(mbt), ValidScreen(mbt),
         \A p \in Pixels(mbt) : PixelAddress(mbt, p[1], p[2]) \in RAM,
         NEW x \in Int, NEW y \in Int, NEW w \in Int, NEW h \in Int, NEW color,
         NEW r, r = [x |-> x, y |-> y, w |-> w, h |-> h],
         mem' = DrawRectFull(mem, mbt, x, y, w, h, color)
  PROVE  Shown!Paint(r, color)
<1>1. mem = [a \in RAM |-> mem[a]]
  BY DEF BInv, BootTypeOK
<1>2. \A p \in Reached(mbt) : p \in Pixels(mbt) /\ p[1] \in Int /\ p[2] \in Int
  BY DEF Reached, Pixels, ValidScreen
<1>3. \A p \in Reached(mbt) :
        mem'[PixelAddress(mbt, p[1], p[2])]
          = IF p[1] \in x .. x + w - 1 /\ p[2] \in y .. y + h - 1
            THEN color ELSE mem[PixelAddress(mbt, p[1], p[2])]
  BY <1>1, <1>2, RectShown
<1>4. \A p \in Reached(mbt) :
        Shown!Inside(r, p) <=> p[1] \in x .. x + w - 1 /\ p[2] \in y .. y + h - 1
  BY <1>2 DEF Shown!Inside
<1>5. Screen = [p \in Reached(mbt) |-> mem[PixelAddress(mbt, p[1], p[2])]]
  BY DEF Screen, Picture
<1>6. Screen' = [p \in Reached(mbt) |-> mem'[PixelAddress(mbt, p[1], p[2])]]
  BY DEF Screen, Picture
<1> QED BY <1>3, <1>4, <1>5, <1>6 DEF Shown!Paint

(* Every step of the booting kernel wipes the picture, paints on it, or    *)
(* leaves it.                                                              *)
LEMMA CanvasStep ==
  ASSUME BInv, [BootNext]_bootVars
  PROVE  [Shown!Next]_Screen
<1>1. mbt' = mbt /\ magic' = magic
  BY MbtKept
<1>2. CASE mem' = mem \/ ~magic
  BY <1>1, <1>2 DEF Screen
<1>3. CASE mem' # mem /\ magic
  <2>1. /\ Supported(mbt) /\ ValidScreen(mbt)
        /\ \A p \in Pixels(mbt) : PixelAddress(mbt, p[1], p[2]) \in RAM
    BY <1>3, MemStep
  <2>2. CASE mem' = GraphicsClear(mem, mbt, Black)
    <3>1. Shown!Wipe(Black)
      BY <1>1, <1>3, <2>1, <2>2, WipeShown
    <3> QED BY <3>1 DEF Shown!Next
  <2>3. CASE mem' # GraphicsClear(mem, mbt, Black)
    <3>1. /\ at \in 4 .. 6
          /\ LET r == kmain[at].rect
             IN  mem' = DrawRectFull(mem, mbt, r.x, r.y, r.w, r.h, kmain[at].color)
      BY <1>3, <2>3, MemStep
    <3>2. PICK x \in Nat, y \in Nat, w \in Nat, h \in Nat, color \in {Red, Green, Blue} :
            kmain[at].color = color /\ kmain[at].rect = [x |-> x, y |-> y, w |-> w, h |-> h]
      BY <3>1, KmainRects
    <3> DEFINE r == kmain[at].rect
    <3>3. mem' = DrawRectFull(mem, mbt, x, y, w, h, color)
      BY <3>1, <3>2
    <3>4. x \in Int /\ y \in Int /\ w \in Int /\ h \in Int
      OBVIOUS
    <3>5. Shown!Paint(r, color)
      BY <1>1, <1>3, <2>1, <3>2, <3>3, <3>4, PaintShown
    <3>6. r \in Rectangles
      <4>1. at \in DOMAIN kmain
        BY <3>1, KmainLength
      <4>2. kmain[at].call = "draw_rect_full"
        BY <3>1, KmainNames DEF Names
      <4> QED BY <4>1, <4>2 DEF Rectangles, Drawn
    <3>7. color \in {Black, Red, Green, Blue}
      OBVIOUS
    <3> HIDE DEF r
    <3> QED BY <3>5, <3>6, <3>7, Zenon DEF Shown!Next
  <2> QED BY <2>2, <2>3
<1> QED BY <1>2, <1>3

(* What the kernel draws is what is seen, on every screen, with rows packed*)
(* or padded.                                                              *)
THEOREM DrawnAsSeen == BootSpec => CanvasSpec
<1>1. BInv /\ [BootNext]_bootVars => [Shown!Next]_Screen
  BY CanvasStep
<1> QED BY <1>1, BootInvariance, PTL DEF BootSpec, CanvasSpec, Shown!Spec
=============================================================================
