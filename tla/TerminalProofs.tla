---------------------------- MODULE TerminalProofs ----------------------------
(***************************************************************************)
(* Theorems about the shell and its console: what the string functions of  *)
(* sh.cpp compute for every buffer, that handle_cmd's order of tests finds *)
(* every command, that the buffer is the typed line for every length of    *)
(* cmd_buffer, and that the screen shows it for every size of the screen.  *)
(***************************************************************************)
EXTENDS Terminal, ConsoleProofs

Bytes == 0 .. 255

(* m begins with the C string line. *)
Holds(m, line) ==
  /\ line \in Seq(Bytes \ {NUL})
  /\ Len(line) \in Mem
  /\ \A j \in 0 .. Len(line) - 1 : m[j] = line[j + 1]
  /\ m[Len(line)] = NUL

-----------------------------------------------------------------------------
(* strcomp and strcomp_n. *)

StopsAt(m, s, n, i) ==
  /\ i = n \/ m[i] = NUL \/ m[i] # Lit(s, i)
  /\ \A j \in 0 .. i-1 : m[j] # NUL /\ m[j] = Lit(s, j)

(* The string functions stop at one place only, *)
LEMMA StopIs ==
  ASSUME NEW m, NEW s, NEW n \in Nat, NEW e \in 0 .. n, StopsAt(m, s, n, e)
  PROVE  Stop(m, s, n) = e
<1>1. ASSUME NEW i \in 0 .. n, StopsAt(m, s, n, i)
      PROVE  i = e
  <2>1. ~(i < e)
    <3> SUFFICES ASSUME i < e PROVE FALSE
      OBVIOUS
    <3>1. i \in 0 .. e-1 /\ i # n
      OBVIOUS
    <3> QED BY <1>1, <3>1 DEF StopsAt
  <2>2. ~(e < i)
    <3> SUFFICES ASSUME e < i PROVE FALSE
      OBVIOUS
    <3>1. e \in 0 .. i-1 /\ e # n
      OBVIOUS
    <3> QED BY <1>1, <3>1 DEF StopsAt
  <2> QED BY <2>1, <2>2
<1>2. Stop(m, s, n) = CHOOSE i \in 0 .. n : StopsAt(m, s, n, i)
  BY DEF Stop, StopsAt
<1> QED BY <1>1, <1>2

(* and there is one. *)
LEMMA StopExists ==
  ASSUME NEW m, NEW s, NEW n \in Nat
  PROVE  Stop(m, s, n) \in 0 .. n /\ StopsAt(m, s, n, Stop(m, s, n))
<1> DEFINE Ends(i) == i = n \/ m[i] = NUL \/ m[i] # Lit(s, i)
           T == {i \in 0 .. n : Ends(i)}
<1>1. T \subseteq Nat /\ T # {} /\ T \subseteq 0 .. n
  <2>1. Ends(n)
    OBVIOUS
  <2> HIDE DEF Ends
  <2> QED BY <2>1
<1>2. PICK e \in T : \A y \in T : e <= y
  BY <1>1, LeastNat
<1>3. e \in 0 .. n /\ Ends(e)
  BY <1>2
<1>4. ASSUME NEW j \in 0 .. e-1
      PROVE  ~Ends(j)
  <2>1. j \in 0 .. n /\ ~(e <= j)
    BY <1>3
  <2> HIDE DEF Ends
  <2> QED BY <1>2, <2>1
<1>5. StopsAt(m, s, n, e)
  BY <1>3, <1>4 DEF StopsAt
<1> QED BY <1>3, <1>5, StopIs

(* On a C string without embedded NULs strcomp is equality. *)
LEMMA StrcompEqual ==
  ASSUME NEW m, NEW line, Holds(m, line), NEW s \in Seq(Bytes \ {NUL})
  PROVE  strcomp(m, s) <=> line = s
<1> DEFINE e == Stop(m, s, Len(s))
           k == Len(line)
<1>1. /\ Len(s) \in Nat /\ k \in Nat /\ line \in Seq(Bytes \ {NUL})
      /\ \A i \in 1 .. Len(s) : s[i] \in Bytes /\ s[i] # NUL
      /\ \A i \in 1 .. k : line[i] \in Bytes /\ line[i] # NUL
  BY DEF Holds
<1>2. /\ \A j \in 0 .. k - 1 : m[j] = line[j + 1] /\ m[j] # NUL
      /\ m[k] = NUL
  BY <1>1 DEF Holds
<1>3. ASSUME strcomp(m, s)
      PROVE  line = s
  <2>1. e \in 0 .. Len(s) /\ StopsAt(m, s, Len(s), e) /\ m[e] = Lit(s, e)
    BY <1>1, <1>3, StopExists DEF strcomp
  <2> HIDE DEF e
  <2>2. e = Len(s)
    <3> SUFFICES ASSUME e # Len(s) PROVE FALSE
      OBVIOUS
    <3>1. m[e] = NUL
      BY <2>1 DEF StopsAt
    <3>2. Lit(s, e) = s[e + 1] /\ e + 1 \in 1 .. Len(s)
      BY <1>1, <2>1 DEF Lit
    <3> QED BY <1>1, <2>1, <3>1, <3>2
  <2>3. m[e] = NUL
    BY <1>1, <2>1, <2>2 DEF Lit
  <2>4. \A j \in 0 .. e - 1 : m[j] # NUL /\ m[j] = s[j + 1]
    BY <1>1, <2>1, <2>2 DEF StopsAt, Lit
  <2>5. k = e
    <3>1. ~(k < e)
      BY <1>1, <1>2, <2>1, <2>4
    <3>2. ~(e < k)
      BY <1>1, <1>2, <2>1, <2>3
    <3> QED BY <1>1, <2>1, <3>1, <3>2
  <2>6. \A i \in 1 .. k : line[i] = s[i]
    <3> SUFFICES ASSUME NEW i \in 1 .. k
                 PROVE  line[i] = s[i]
      OBVIOUS
    <3>1. i - 1 \in 0 .. k - 1 /\ i - 1 + 1 = i
      BY <1>1
    <3> QED BY <1>1, <1>2, <2>4, <2>5, <3>1
  <2> QED BY <1>1, <2>2, <2>5, <2>6
<1>4. ASSUME line = s
      PROVE  strcomp(m, s)
  <2>1. \A j \in 0 .. k - 1 : Lit(s, j) = line[j + 1]
    BY <1>1, <1>4 DEF Lit
  <2>2. StopsAt(m, s, Len(s), k)
    BY <1>1, <1>2, <1>4, <2>1 DEF StopsAt
  <2>3. Stop(m, s, Len(s)) = k
    BY <1>1, <1>4, <2>2, StopIs
  <2>4. Lit(s, k) = NUL
    BY <1>1, <1>4 DEF Lit
  <2> QED BY <1>2, <2>3, <2>4 DEF strcomp
<1> QED BY <1>3, <1>4

(* A line that begins with the literal is accepted by strcomp_n. *)
LEMMA PrefixMatches ==
  ASSUME NEW m, NEW line, Holds(m, line), NEW s \in Seq(Bytes \ {NUL}),
         Len(s) <= Len(line), \A i \in 1 .. Len(s) : line[i] = s[i]
  PROVE  strcomp_n(m, s, Len(s))
<1>1. Len(s) \in Nat /\ Len(line) \in Nat /\ \A i \in 1 .. Len(s) : s[i] # NUL
  BY DEF Holds
<1>2. ASSUME NEW j \in 0 .. Len(s) - 1
      PROVE  m[j] # NUL /\ m[j] = Lit(s, j)
  <2>1. j + 1 \in 1 .. Len(s) /\ j \in 0 .. Len(line) - 1
    BY <1>1
  <2>2. m[j] = line[j + 1] /\ Lit(s, j) = s[j + 1]
    BY <1>1, <2>1 DEF Holds, Lit
  <2> QED BY <1>1, <2>1, <2>2
<1>3. StopsAt(m, s, Len(s), Len(s))
  BY <1>1, <1>2 DEF StopsAt
<1>4. Stop(m, s, Len(s)) = Len(s)
  BY <1>1, <1>3, StopIs
<1> QED BY <1>4 DEF strcomp_n

(* One whose first byte is another is not, unless it is two above. *)
LEMMA OtherFirst ==
  ASSUME NEW m, NEW s \in Seq(Bytes \ {NUL}), NEW n \in Nat \ {0},
         Len(s) >= 1, m[0] # s[1], m[0] - s[1] # 2
  PROVE  ~strcomp_n(m, s, n)
<1>1. Lit(s, 0) = s[1]
  BY DEF Lit
<1>2. StopsAt(m, s, n, 0)
  BY <1>1 DEF StopsAt
<1>3. Stop(m, s, n) = 0
  BY <1>2, StopIs
<1> QED BY <1>1, <1>3 DEF strcomp_n

-----------------------------------------------------------------------------
(* CString. *)

(* The rest of a line from its byte a on. *)
LEMMA CStringRest ==
  ASSUME NEW m, NEW line, Holds(m, line), NEW a \in 0 .. Len(line)
  PROVE  CString(m, a) = SubSeq(line, a + 1, Len(line))
<1> DEFINE k == Len(line)
           IsEnd(i) == /\ i = MAX_CMD_LENGTH \/ m[i] = NUL
                       /\ \A j \in a .. i-1 : m[j] # NUL
<1>1. /\ MAX_CMD_LENGTH \in Nat /\ k \in 0 .. MAX_CMD_LENGTH - 1 /\ a \in 0 .. k
      /\ line \in Seq(Bytes \ {NUL}) /\ m[k] = NUL
      /\ \A j \in 0 .. k - 1 : m[j] = line[j + 1] /\ m[j] # NUL
  <2>1. line \in Seq(Bytes \ {NUL}) /\ k \in Nat
    BY DEF Holds
  <2>2. \A j \in 0 .. k - 1 : line[j + 1] # NUL
    BY <2>1
  <2> QED BY <2>1, <2>2, CommandsAssumption DEF Holds, Mem
<1>2. k \in a .. MAX_CMD_LENGTH /\ IsEnd(k)
  BY <1>1
<1>3. ASSUME NEW i \in a .. MAX_CMD_LENGTH, IsEnd(i)
      PROVE  i = k
  <2>1. ~(i < k)
    BY <1>1, <1>3
  <2>2. ~(k < i)
    BY <1>1, <1>3
  <2> QED BY <2>1, <2>2, <1>1
<1> DEFINE e == CHOOSE i \in a .. MAX_CMD_LENGTH : IsEnd(i)
<1>4. e = k
  <2> HIDE DEF IsEnd
  <2> QED BY <1>2, <1>3
<1>5. CString(m, a) = [i \in 1 .. e - a |-> m[a + i - 1]]
  BY DEF CString
<1> HIDE DEF e
<1>6. CString(m, a) = [i \in 1 .. k - a |-> m[a + i - 1]]
  BY <1>4, <1>5
<1>7. \A i \in 1 .. k - a : m[a + i - 1] = line[a + i]
  BY <1>1
<1>8. SubSeq(line, a + 1, k) = [i \in 1 .. k - a |-> line[a + i]]
  BY <1>1
<1> QED BY <1>6, <1>7, <1>8

(* CString never leaves the buffer. *)
LEMMA CStringType ==
  ASSUME NEW m \in [Mem -> Bytes], NEW a \in 0 .. MAX_CMD_LENGTH
  PROVE  CString(m, a) \in Seq(Bytes)
<1> DEFINE Ends(i) == i = MAX_CMD_LENGTH \/ m[i] = NUL
           IsEnd(i) == Ends(i) /\ \A j \in a .. i-1 : m[j] # NUL
           T == {i \in a .. MAX_CMD_LENGTH : Ends(i)}
           e == CHOOSE i \in a .. MAX_CMD_LENGTH : IsEnd(i)
<1>1. MAX_CMD_LENGTH \in Nat /\ a \in Nat /\ a <= MAX_CMD_LENGTH
  BY CommandsAssumption
<1>2. MAX_CMD_LENGTH \in T /\ T \subseteq Nat
  BY <1>1
<1>3. PICK l \in T : \A y \in T : l <= y
  <2> HIDE DEF T
  <2> QED BY <1>2, LeastNat
<1>4. l \in a .. MAX_CMD_LENGTH /\ Ends(l)
  BY <1>3
<1>5. ASSUME NEW j \in a .. l-1
      PROVE  m[j] # NUL
  <2>1. j \in a .. MAX_CMD_LENGTH /\ ~(l <= j)
    BY <1>1, <1>4
  <2>2. j \notin T
    BY <1>3, <2>1
  <2> QED BY <2>1, <2>2
<1>6. \E i \in a .. MAX_CMD_LENGTH : IsEnd(i)
  BY <1>4, <1>5
<1>7. e \in a .. MAX_CMD_LENGTH
  <2> HIDE DEF IsEnd
  <2> QED BY <1>6
<1>8. CString(m, a) = [i \in 1 .. e - a |-> m[a + i - 1]]
  BY DEF CString
<1> HIDE DEF e
<1>9. e - a \in Nat /\ \A i \in 1 .. e - a : a + i - 1 \in Mem
  BY <1>1, <1>7 DEF Mem
<1>10. \A i \in 1 .. e - a : m[a + i - 1] \in Bytes
  BY <1>9
<1> QED BY <1>8, <1>9, <1>10

-----------------------------------------------------------------------------
(* handle_cmd. *)

Texts == {CLEAR.text, CAT.text, HELP.text, LS.text, TEST.text, TLIST.text, TRUN.text}

(* The commands' texts hold no terminator. *)
LEMMA TextsAreStrings == \A s \in Texts : s \in Seq(Bytes \ {NUL})
<1>1. /\ CLEAR.text \in Seq(Bytes \ {NUL}) /\ CAT.text \in Seq(Bytes \ {NUL})
      /\ HELP.text \in Seq(Bytes \ {NUL}) /\ LS.text \in Seq(Bytes \ {NUL})
  BY DEF CLEAR, CAT, HELP, LS, Cmd, Bytes, NUL, SPACE
<1>2. /\ TEST.text \in Seq(Bytes \ {NUL}) /\ TLIST.text \in Seq(Bytes \ {NUL})
      /\ TRUN.text \in Seq(Bytes \ {NUL})
  BY DEF TEST, TLIST, TRUN, Cmd, Bytes, NUL, SPACE
<1> QED BY <1>1, <1>2 DEF Texts

(* handle_cmd's tests, in their order. *)
LEMMA Table ==
  /\ DOMAIN CommandTable = 1 .. 7
  /\ CommandTable[1] = CLEAR /\ CommandTable[2] = CAT /\ CommandTable[3] = HELP
  /\ CommandTable[4] = LS /\ CommandTable[5] = TEST /\ CommandTable[6] = TLIST
  /\ CommandTable[7] = TRUN
BY DEF CommandTable

(* handle_cmd does what the first test that succeeds says. *)
LEMMA FirstMatch ==
  ASSUME NEW m, NEW k \in 1 .. 7, Matches(m, CommandTable[k]),
         \A i \in 1 .. k-1 : ~Matches(m, CommandTable[i])
  PROVE  Dispatch(m) = [kind |-> CommandTable[k].kind, arg |-> CString(m, CommandTable[k].n)]
<1> DEFINE matching == {i \in DOMAIN CommandTable : Matches(m, CommandTable[i])}
<1>1. /\ matching \subseteq Nat /\ k \in matching
      /\ \A y \in matching : k <= y
  BY Table
<1>2. Min(matching) = k /\ matching # {}
  <2> HIDE DEF matching
  <2> QED BY <1>1, MinIs
<1> QED BY <1>2 DEF Dispatch

(* The tests with strcomp accept their command and nothing else. *)
LEMMA ExactMatch ==
  ASSUME NEW m, NEW line, Holds(m, line), NEW cmd \in {CLEAR, HELP, LS, TEST, TLIST}
  PROVE  Matches(m, cmd) <=> line = cmd.text
<1>1. CLEAR.n = 0 /\ HELP.n = 0 /\ LS.n = 0 /\ TEST.n = 0 /\ TLIST.n = 0
  BY DEF CLEAR, HELP, LS, TEST, TLIST, Cmd
<1>2. cmd.n = 0 /\ cmd.text \in Texts
  BY <1>1 DEF Texts
<1>3. cmd.text \in Seq(Bytes \ {NUL})
  BY <1>2, TextsAreStrings
<1> QED BY <1>2, <1>3, StrcompEqual DEF Matches

(* What begins with a text has its bytes. *)
LEMMA PrefixBytes ==
  ASSUME NEW s \in Seq(Bytes \ {NUL}), NEW line \in Seq(Bytes \ {NUL}), IsPrefix(s, line)
  PROVE  Len(s) <= Len(line) /\ \A i \in 1 .. Len(s) : line[i] = s[i]
<1>1. Len(s) <= Len(line) /\ SubSeq(s, 1, Len(s)) = SubSeq(line, 1, Len(s))
  BY DEF IsPrefix
<1>2. ASSUME NEW i \in 1 .. Len(s)
      PROVE  line[i] = s[i]
  <2>1. SubSeq(s, 1, Len(s))[i] = s[i] /\ SubSeq(line, 1, Len(s))[i] = line[i]
    BY <1>1
  <2> QED BY <1>1, <2>1
<1> QED BY <1>1, <1>2

(* A line that begins with another letter than c or e is not cat's. *)
LEMMA NotCat ==
  ASSUME NEW m, NEW line, Holds(m, line), Len(line) >= 1,
         line[1] \in {104, 108, 116}
  PROVE  ~Matches(m, CAT)
<1>1. CAT.n = 4 /\ CAT.text \in Texts /\ Len(CAT.text) = 4 /\ CAT.text[1] = 99
  BY DEF CAT, Cmd, Texts
<1>2. m[0] = line[1]
  BY DEF Holds
<1>3. m[0] # 99 /\ m[0] - 99 # 2
  BY <1>2
<1>4. CAT.text \in Seq(Bytes \ {NUL})
  BY <1>1, TextsAreStrings
<1>5. ~strcomp_n(m, CAT.text, 4)
  <2>1. m[0] # CAT.text[1] /\ m[0] - CAT.text[1] # 2 /\ Len(CAT.text) >= 1
    BY <1>1, <1>3
  <2>2. 4 \in Nat \ {0}
    OBVIOUS
  <2> HIDE DEF CAT
  <2> QED BY <1>4, <2>1, <2>2, OtherFirst
<1> QED BY <1>1, <1>5 DEF Matches

Commands7 == {CLEAR, CAT, HELP, LS, TEST, TLIST, TRUN}

(* The line is the command's text, or begins with it. *)
IsCommand(line, cmd) ==
  IF cmd.n = 0 THEN line = cmd.text ELSE IsPrefix(cmd.text, line)

(* A line that is a command reaches it, past the tests before it, and its  *)
(* argument is the rest of the line. "test list" is the one line that two  *)
(* commands match.                                                         *)
LEMMA DispatchRuns ==
  ASSUME NEW m, NEW line, Holds(m, line), NEW cmd \in Commands7,
         IsCommand(line, cmd), ~(cmd = TRUN /\ line = TLIST.text)
  PROVE  /\ Dispatch(m).kind = cmd.kind
         /\ cmd.n > 0 => Dispatch(m).arg = SubSeq(line, cmd.n + 1, Len(line))
<1> DEFINE M(c) == Matches(m, c)
<1>1. /\ M(CLEAR) <=> line = CLEAR.text
      /\ M(HELP) <=> line = HELP.text
      /\ M(LS) <=> line = LS.text
      /\ M(TEST) <=> line = TEST.text
      /\ M(TLIST) <=> line = TLIST.text
  BY ExactMatch
<1>2. /\ CLEAR.n = 0 /\ HELP.n = 0 /\ LS.n = 0 /\ TEST.n = 0 /\ TLIST.n = 0
      /\ CAT.n = 4 /\ TRUN.n = 5 /\ Len(CAT.text) = 4 /\ Len(TRUN.text) = 5
  BY DEF CLEAR, CAT, HELP, LS, TEST, TLIST, TRUN, Cmd
<1>3. /\ line \in Seq(Bytes \ {NUL}) /\ Len(line) \in Nat
      /\ CAT.text \in Seq(Bytes \ {NUL}) /\ TRUN.text \in Seq(Bytes \ {NUL})
  BY TextsAreStrings DEF Holds, Texts
<1>4. SUFFICES \E k \in 1 .. 7 :
          /\ CommandTable[k] = cmd /\ M(cmd)
          /\ \A i \in 1 .. k-1 : ~M(CommandTable[i])
  <2>1. PICK k \in 1 .. 7 : /\ CommandTable[k] = cmd /\ M(cmd)
                           /\ \A i \in 1 .. k-1 : ~M(CommandTable[i])
    BY <1>4
  <2>2. Dispatch(m) = [kind |-> cmd.kind, arg |-> CString(m, cmd.n)]
    BY <2>1, FirstMatch
  <2>3. ASSUME cmd.n > 0
        PROVE  CString(m, cmd.n) = SubSeq(line, cmd.n + 1, Len(line))
    <3>1. cmd \in {CAT, TRUN}
      BY <1>2, <2>3 DEF Commands7
    <3>2. cmd.n = Len(cmd.text) /\ IsPrefix(cmd.text, line)
      <4>1. CASE cmd = CAT
        <5>1. IsCommand(line, CAT) /\ CAT.n # 0 /\ CAT.n = Len(CAT.text)
          BY <1>2, <4>1
        <5>2. IsPrefix(CAT.text, line)
          BY Zenon, <5>1 DEF IsCommand
        <5> QED BY <4>1, <5>1, <5>2
      <4>2. CASE cmd = TRUN
        <5>1. IsCommand(line, TRUN) /\ TRUN.n # 0 /\ TRUN.n = Len(TRUN.text)
          BY <1>2, <4>2
        <5>2. IsPrefix(TRUN.text, line)
          BY Zenon, <5>1 DEF IsCommand
        <5> QED BY <4>2, <5>1, <5>2
      <4> QED BY <3>1, <4>1, <4>2
    <3>3. cmd.n \in 0 .. Len(line)
      <4>1. cmd.text \in Seq(Bytes \ {NUL}) /\ cmd.n \in Nat
        BY <1>2, <1>3, <3>1
      <4>2. Len(cmd.text) <= Len(line)
        BY <1>3, <3>2, <4>1, PrefixBytes
      <4> QED BY <1>3, <3>2, <4>1, <4>2
    <3> QED BY <3>3, CStringRest
  <2> QED BY <2>2, <2>3
<1>5. CASE cmd = CLEAR
  BY <1>1, <1>2, <1>5, Table DEF IsCommand
<1>6. CASE cmd = CAT
  <2>1. Len(CAT.text) <= Len(line) /\ \A i \in 1 .. 4 : line[i] = CAT.text[i]
    <3>1. IsPrefix(CAT.text, line)
      BY <1>2, <1>6 DEF IsCommand
    <3> QED BY <1>2, <1>3, <3>1, PrefixBytes
  <2>2. M(CAT)
    <3>1. strcomp_n(m, CAT.text, Len(CAT.text))
      BY <1>2, <1>3, <2>1, PrefixMatches
    <3> QED BY <1>2, <3>1 DEF Matches
  <2>3. line # CLEAR.text
    BY <2>1 DEF CAT, CLEAR, Cmd
  <2> QED BY <1>1, <1>6, <2>2, <2>3, Table
<1>7. CASE cmd = HELP
  <2>1. line = HELP.text
    BY <1>2, <1>7 DEF IsCommand
  <2>2. ~M(CAT)
    BY <2>1, NotCat DEF HELP, Cmd
  <2>3. line # CLEAR.text
    BY <2>1 DEF CLEAR, HELP, Cmd
  <2> QED BY <1>1, <1>7, <2>1, <2>2, <2>3, Table
<1>8. CASE cmd = LS
  <2>1. line = LS.text
    BY <1>2, <1>8 DEF IsCommand
  <2>2. ~M(CAT)
    BY <2>1, NotCat DEF LS, Cmd
  <2>3. line # CLEAR.text /\ line # HELP.text
    BY <2>1 DEF CLEAR, HELP, LS, Cmd
  <2> QED BY <1>1, <1>8, <2>1, <2>2, <2>3, Table
<1>9. CASE cmd = TEST
  <2>1. line = TEST.text
    BY <1>2, <1>9 DEF IsCommand
  <2>2. ~M(CAT)
    BY <2>1, NotCat DEF TEST, Cmd
  <2>3. line # CLEAR.text /\ line # HELP.text /\ line # LS.text
    BY <2>1 DEF CLEAR, HELP, LS, TEST, Cmd
  <2> QED BY <1>1, <1>9, <2>1, <2>2, <2>3, Table
<1>10. CASE cmd = TLIST
  <2>1. line = TLIST.text
    BY <1>2, <1>10 DEF IsCommand
  <2>2. ~M(CAT)
    BY <2>1, NotCat DEF TLIST, Cmd
  <2>3. line # CLEAR.text /\ line # HELP.text /\ line # LS.text /\ line # TEST.text
    BY <2>1 DEF CLEAR, HELP, LS, TEST, TLIST, Cmd
  <2> QED BY <1>1, <1>10, <2>1, <2>2, <2>3, Table
<1>11. CASE cmd = TRUN
  <2>1. Len(TRUN.text) <= Len(line) /\ \A i \in 1 .. 5 : line[i] = TRUN.text[i]
    <3>1. IsPrefix(TRUN.text, line)
      BY <1>2, <1>11 DEF IsCommand
    <3> QED BY <1>2, <1>3, <3>1, PrefixBytes
  <2>2. M(TRUN)
    <3>1. strcomp_n(m, TRUN.text, Len(TRUN.text))
      BY <1>2, <1>3, <2>1, PrefixMatches
    <3> QED BY <1>2, <3>1 DEF Matches
  <2>3. Len(line) >= 5 /\ line[1] = 116
    <3>1. TRUN.text[1] = 116
      BY DEF TRUN, Cmd
    <3>2. line[1] = TRUN.text[1]
      BY <2>1
    <3> QED BY <1>2, <2>1, <3>1, <3>2
  <2>4. ~M(CAT)
    BY <2>3, NotCat
  <2>5. line # CLEAR.text /\ line # HELP.text /\ line # LS.text /\ line # TEST.text
    <3>1. /\ CLEAR.text[1] = 99 /\ HELP.text[1] = 104 /\ LS.text[1] = 108
          /\ Len(TEST.text) = 4
      BY DEF CLEAR, HELP, LS, TEST, Cmd
    <3>2. line # CLEAR.text /\ line # HELP.text /\ line # LS.text
      BY <2>3, <3>1
    <3>3. ASSUME line = TEST.text
          PROVE  FALSE
      <4>1. Len(line) = 4
        BY <3>1, <3>3
      <4> QED BY <2>3, <4>1
    <3> QED BY <3>2, <3>3
  <2> QED BY <1>1, <1>11, <2>2, <2>4, <2>5, Table
<1> QED BY <1>5, <1>6, <1>7, <1>8, <1>9, <1>10, <1>11 DEF Commands7

-----------------------------------------------------------------------------
(* The shell's buffer. *)

Chars == Typed \ {NL, CR, BS}

(* The bytes below buff_pos were typed for this line; what lies above may  *)
(* be of an earlier one.                                                   *)
LineInv ==
  /\ cmd_buffer \in [Mem -> 0 .. 255]
  /\ buff_pos \in Mem
  /\ \A i \in 0 .. buff_pos - 1 : cmd_buffer[i] \in Chars

(* What is stored in the line is no terminator. *)
LEMMA Characters ==
  /\ Chars \subseteq 1 .. 127
  /\ \A c \in Chars : c # NUL
<1>1. Chars \subseteq 1 .. 127
  <2>1. Chars \subseteq Typed
    BY DEF Chars
  <2> QED BY <2>1, ShellAssumption
<1> QED BY <1>1 DEF NUL

(* Nothing was typed yet. *)
LEMMA InitLineInv == Init => LineInv
  BY CommandsAssumption, ShellAssumption DEF Init, LineInv, Mem, Chars

(* Every key keeps the bytes below buff_pos those that were typed. *)
LEMMA NextLineInv == LineInv /\ [Next]_shell => LineInv'
<1> SUFFICES ASSUME LineInv, [Next]_shell
             PROVE  LineInv'
  OBVIOUS
<1> USE CommandsAssumption, ShellAssumption DEF Mem
<1>1. ASSUME NEW c \in Typed, Enter(c)
      PROVE  LineInv'
  <2>1. CASE buff_pos > 0
    <3>1. cmd_buffer' = [cmd_buffer EXCEPT ![buff_pos] = NUL] /\ buff_pos' = 0
      BY <1>1, <2>1 DEF Enter, Terminated
    <3> QED BY <3>1 DEF LineInv, NUL
  <2>2. CASE ~(buff_pos > 0)
    BY <1>1, <2>2 DEF Enter, shell, LineInv
  <2> QED BY <2>1, <2>2
<1>2. ASSUME NEW c \in Typed, Backspace(c)
      PROVE  LineInv'
  BY <1>2 DEF Backspace, LineInv
<1>3. ASSUME NEW c \in Typed, Insert(c)
      PROVE  LineInv'
  <2>1. CASE HasSpace
    <3>1. /\ cmd_buffer' = [cmd_buffer EXCEPT ![buff_pos] = c]
          /\ buff_pos' = buff_pos + 1 /\ buff_pos < MAX_CMD_LENGTH - 1
          /\ c \in Chars /\ c \in 0 .. 255
      BY <1>3, <2>1 DEF Insert, HasSpace, Chars
    <3> QED BY <3>1 DEF LineInv
  <2>2. CASE ~HasSpace
    BY <1>3, <2>2 DEF Insert, LineInv
  <2> QED BY <2>1, <2>2
<1>4. CASE UNCHANGED shell
  BY <1>4 DEF shell, LineInv
<1> QED BY <1>1, <1>2, <1>3, <1>4 DEF Next, Key

(* In every reachable state the line and its cursor lie in the buffer. *)
THEOREM LineInvariance == Spec => []LineInv
  BY InitLineInv, NextLineInv, PTL DEF Spec

-----------------------------------------------------------------------------
(* The string that handle_cmd gets is the line. *)

LEMMA TerminatedIsLine ==
  ASSUME LineInv
  PROVE  CString(Terminated, 0) = TypedLine
<1> DEFINE m == Terminated
           IsEnd(i) == /\ i = MAX_CMD_LENGTH \/ m[i] = NUL
                       /\ \A j \in 0 .. i-1 : m[j] # NUL
<1>1. /\ MAX_CMD_LENGTH \in Nat /\ buff_pos \in 0 .. MAX_CMD_LENGTH - 1
      /\ m[buff_pos] = NUL
      /\ \A j \in 0 .. buff_pos - 1 : m[j] = cmd_buffer[j] /\ m[j] # NUL
  <2>1. /\ MAX_CMD_LENGTH \in Nat /\ buff_pos \in 0 .. MAX_CMD_LENGTH - 1
        /\ cmd_buffer \in [0 .. MAX_CMD_LENGTH - 1 -> 0 .. 255]
    BY CommandsAssumption DEF LineInv, Mem
  <2>2. \A j \in 0 .. buff_pos - 1 : cmd_buffer[j] # NUL
    BY Characters DEF LineInv
  <2>3. m[buff_pos] = NUL /\ \A j \in 0 .. buff_pos - 1 : m[j] = cmd_buffer[j]
    BY <2>1 DEF Terminated
  <2> QED BY <2>1, <2>2, <2>3
<1> HIDE DEF m
<1>2. buff_pos \in 0 .. MAX_CMD_LENGTH /\ IsEnd(buff_pos)
  BY <1>1
<1>3. ASSUME NEW i \in 0 .. MAX_CMD_LENGTH, IsEnd(i)
      PROVE  i = buff_pos
  <2>1. ~(i < buff_pos)
    BY <1>1, <1>3
  <2>2. ~(buff_pos < i)
    BY <1>1, <1>3
  <2> QED BY <2>1, <2>2, <1>1
<1> DEFINE e == CHOOSE i \in 0 .. MAX_CMD_LENGTH : IsEnd(i)
<1>4. e = buff_pos
  <2> HIDE DEF IsEnd
  <2> QED BY <1>2, <1>3
<1>5. CString(m, 0) = [i \in 1 .. e - 0 |-> m[0 + i - 1]]
  BY DEF CString
<1> HIDE DEF e
<1>6. CString(m, 0) = [i \in 1 .. buff_pos |-> m[0 + i - 1]]
  BY <1>1, <1>4, <1>5
<1>7. \A i \in 1 .. buff_pos : m[0 + i - 1] = cmd_buffer[i - 1]
  BY <1>1
<1> QED BY <1>6, <1>7 DEF TypedLine, m

-----------------------------------------------------------------------------
(* Refinement: the buffer is an editable line. *)

LEMMA InitLine == Init => Line!Init
<1> SUFFICES ASSUME Init
             PROVE  Line!Init
  OBVIOUS
<1>1. buff_pos = 0 /\ ran.cmd = <<>>
  BY DEF Init
<1>2. TypedLine = <<>>
  BY <1>1 DEF TypedLine
<1> QED BY <1>1, <1>2 DEF Line!Init

(* The line has as many characters as buff_pos says. *)
LEMMA TypedIs ==
  ASSUME LineInv
  PROVE  /\ buff_pos \in Nat /\ Len(TypedLine) = buff_pos
         /\ TypedLine \in Seq(Chars) /\ TypedLine \in Seq(Nat)
<1>1. /\ buff_pos \in Nat /\ Len(TypedLine) = buff_pos /\ TypedLine \in Seq(Chars)
  BY CommandsAssumption DEF LineInv, TypedLine, Mem
<1>2. Chars \subseteq Nat
  BY Characters
<1>3. TypedLine \in Seq(Nat)
  BY <1>1, <1>2, SeqMonotonic
<1> QED BY <1>1, <1>3

(* Erasing takes the last character off the line. *)
LEMMA TypedErased ==
  ASSUME LineInv, buff_pos > 0, buff_pos' = buff_pos - 1, UNCHANGED cmd_buffer
  PROVE  TypedLine' = SubSeq(TypedLine, 1, Len(TypedLine) - 1)
<1>1. buff_pos \in Nat \ {0} /\ TypedLine \in Seq(Chars) /\ Len(TypedLine) = buff_pos
  BY TypedIs
<1>2. TypedLine' = [i \in 1 .. buff_pos - 1 |-> cmd_buffer[i - 1]]
  BY DEF TypedLine
<1>3. SubSeq(TypedLine, 1, buff_pos - 1) = [i \in 1 .. buff_pos - 1 |-> TypedLine[i]]
  BY <1>1
<1>4. \A i \in 1 .. buff_pos - 1 : TypedLine[i] = cmd_buffer[i - 1]
  BY <1>1 DEF TypedLine
<1> QED BY <1>1, <1>2, <1>3, <1>4

(* Typing adds one. *)
LEMMA TypedInserted ==
  ASSUME LineInv, NEW c \in Chars, cmd_buffer' = [cmd_buffer EXCEPT ![buff_pos] = c],
         buff_pos' = buff_pos + 1
  PROVE  TypedLine' = Append(TypedLine, c)
<1> DEFINE a == Append(TypedLine, c)
<1>1. /\ buff_pos \in Nat /\ TypedLine \in Seq(Chars) /\ Len(TypedLine) = buff_pos
      /\ cmd_buffer \in [Mem -> 0 .. 255] /\ buff_pos \in Mem
  BY TypedIs DEF LineInv
<1>2. TypedLine' = [i \in 1 .. buff_pos + 1 |-> cmd_buffer'[i - 1]]
  BY DEF TypedLine
<1>3. /\ a \in Seq(Chars) /\ Len(a) = buff_pos + 1 /\ a[buff_pos + 1] = c
      /\ \A i \in 1 .. buff_pos : a[i] = TypedLine[i]
  BY <1>1, AppendProperties
<1>4. \A i \in 1 .. buff_pos : TypedLine[i] = cmd_buffer[i - 1]
                               /\ cmd_buffer'[i - 1] = cmd_buffer[i - 1]
  BY <1>1 DEF TypedLine
<1>5. cmd_buffer'[buff_pos + 1 - 1] = c
  BY <1>1
<1> HIDE DEF a
<1>6. \A i \in 1 .. buff_pos + 1 : cmd_buffer'[i - 1] = a[i]
  BY <1>1, <1>3, <1>4, <1>5
<1>7. a = [i \in 1 .. buff_pos + 1 |-> a[i]]
  BY <1>3
<1> QED BY <1>2, <1>6, <1>7 DEF a

(* Every key does to the line what LineEdit says. *)
LEMMA StepLine ==
  ASSUME LineInv, [Next]_shell
  PROVE  [Line!Next]_(Line!vars)
<1> USE CommandsAssumption DEF Mem
<1>1. TypedLine \in Seq(Chars) /\ Len(TypedLine) = buff_pos
  BY DEF LineInv, TypedLine
<1>2. ASSUME NEW c \in Typed, Enter(c)
      PROVE  [Line!Next]_(Line!vars)
  <2>1. CASE buff_pos > 0
    <3>1. buff_pos' = 0 /\ ran'.cmd = CString(Terminated, 0)
      BY <1>2, <2>1 DEF Enter
    <3>2. TypedLine' = <<>>
      BY <3>1 DEF TypedLine
    <3>3. TypedLine # <<>>
      BY <1>1, <2>1
    <3> QED BY <3>1, <3>2, <3>3, TerminatedIsLine DEF Line!Enter, Line!Next
  <2>2. CASE ~(buff_pos > 0)
    BY <1>2, <2>2 DEF Enter, shell, Line!vars, TypedLine
  <2> QED BY <2>1, <2>2
<1>3. ASSUME NEW c \in Typed, Backspace(c)
      PROVE  [Line!Next]_(Line!vars)
  <2>1. CASE buff_pos > 0
    <3>1. /\ buff_pos' = buff_pos - 1 /\ UNCHANGED <<cmd_buffer, ran>>
          /\ buff_pos \in Nat \ {0}
      BY <1>3, <2>1 DEF Backspace, LineInv
    <3>2. TypedLine' = SubSeq(TypedLine, 1, Len(TypedLine) - 1)
      BY <2>1, <3>1, TypedErased
    <3>3. TypedLine # <<>>
      BY <1>1, <2>1
    <3> QED BY <3>1, <3>2, <3>3 DEF Line!Erase, Line!Next
  <2>2. CASE ~(buff_pos > 0)
    BY <1>3, <2>2 DEF Backspace, Line!vars, TypedLine
  <2> QED BY <2>1, <2>2
<1>4. ASSUME NEW c \in Typed, Insert(c)
      PROVE  [Line!Next]_(Line!vars)
  <2>1. CASE HasSpace
    <3>1. /\ cmd_buffer' = [cmd_buffer EXCEPT ![buff_pos] = c]
          /\ buff_pos' = buff_pos + 1 /\ buff_pos < MAX_CMD_LENGTH - 1
          /\ c \in Chars /\ UNCHANGED ran
          /\ buff_pos \in Nat /\ cmd_buffer \in [Mem -> 0 .. 255] /\ buff_pos \in Mem
      <4>1. /\ cmd_buffer' = [cmd_buffer EXCEPT ![buff_pos] = c]
            /\ buff_pos' = buff_pos + 1 /\ c \in Chars /\ UNCHANGED ran
        BY <1>4, <2>1 DEF Insert, Chars
      <4>2. buff_pos < MAX_CMD_LENGTH - 1
        BY <2>1 DEF HasSpace
      <4> QED BY <4>1, <4>2 DEF LineInv
    <3>2. TypedLine' = Append(TypedLine, c)
      BY <3>1, TypedInserted
    <3>3. Len(TypedLine) < MAX_CMD_LENGTH - 1
      BY <1>1, <3>1
    <3> QED BY <3>1, <3>2, <3>3 DEF Line!Type, Line!Next, Chars
  <2>2. CASE ~HasSpace
    BY <1>4, <2>2 DEF Insert, Line!vars, TypedLine
  <2> QED BY <2>1, <2>2
<1>5. CASE UNCHANGED shell
  BY <1>5 DEF shell, Line!vars, TypedLine
<1> QED BY <1>2, <1>3, <1>4, <1>5 DEF Next, Key

(* For every buffer length the shell implements the editable line: what is *)
(* run is the line as it was typed and erased, never a byte of an older    *)
(* one, and a line that is full takes no more.                             *)
THEOREM Refinement == Spec => LineSpec
<1>1. Init => Line!Init
  BY InitLine
<1>2. LineInv /\ [Next]_shell => [Line!Next]_(Line!vars)
  BY StepLine
<1> QED BY <1>1, <1>2, LineInvariance, PTL DEF Spec, LineSpec, Line!Spec

-----------------------------------------------------------------------------
(* Commands. *)

Kinds == {CommandTable[i].kind : i \in DOMAIN CommandTable} \cup {"none", "not found"}

(* The last call of handle_cmd. *)
RanInv ==
  /\ ran.cmd \in Seq(Bytes) /\ ran.arg \in Seq(Bytes) /\ ran.kind \in Kinds
  /\ CommandsRun

(* handle_cmd calls a command, or none, with a string. *)
LEMMA DispatchType ==
  ASSUME NEW m \in [Mem -> Bytes]
  PROVE  Dispatch(m).kind \in Kinds /\ Dispatch(m).arg \in Seq(Bytes)
<1> DEFINE matching == {i \in DOMAIN CommandTable : Matches(m, CommandTable[i])}
           cmd == IF matching = {} THEN OTHER_CMD ELSE CommandTable[Min(matching)]
<1>1. matching \subseteq Nat /\ matching \subseteq 1 .. 7
  BY Table
<1>2. \A i \in 1 .. 7 : CommandTable[i].kind \in Kinds /\ CommandTable[i].n \in 0 .. 5
  <2>1. \A i \in 1 .. 7 : CommandTable[i].kind \in Kinds
    BY Table DEF Kinds
  <2>2. /\ CLEAR.n = 0 /\ CAT.n = 4 /\ HELP.n = 0 /\ LS.n = 0 /\ TEST.n = 0 /\ TLIST.n = 0
        /\ TRUN.n = 5
    BY DEF CLEAR, CAT, HELP, LS, TEST, TLIST, TRUN, Cmd
  <2>3. ASSUME NEW i \in 1 .. 7
        PROVE  CommandTable[i] \in {CLEAR, CAT, HELP, LS, TEST, TLIST, TRUN}
    <3>1. i = 1 \/ i = 2 \/ i = 3 \/ i = 4 \/ i = 5 \/ i = 6 \/ i = 7
      OBVIOUS
    <3> QED BY <3>1, Table
  <2>4. \A c \in {CLEAR, CAT, HELP, LS, TEST, TLIST, TRUN} : c.n \in 0 .. 5
    BY <2>2
  <2> QED BY <2>1, <2>3, <2>4
<1>3. cmd.kind \in Kinds /\ cmd.n \in 0 .. 5
  <2>1. CASE matching = {}
    <3>1. OTHER_CMD.kind = "not found" /\ OTHER_CMD.n = 0
      BY DEF OTHER_CMD, Cmd
    <3>2. "not found" \in Kinds
      BY DEF Kinds
    <3>3. cmd = OTHER_CMD
      BY <2>1
    <3> HIDE DEF cmd
    <3>4. cmd.kind \in Kinds
      BY Zenon, <3>1, <3>2, <3>3
    <3>5. cmd.n = 0
      BY <3>1, <3>3
    <3> QED BY <3>4, <3>5
  <2>2. CASE matching # {}
    <3>1. Min(matching) \in matching
      <4> HIDE DEF matching
      <4> QED BY <1>1, <2>2, MinLeast
    <3>2. Min(matching) \in 1 .. 7
      BY <1>1, <3>1
    <3> QED BY <1>2, <2>2, <3>2
  <2> QED BY <2>1, <2>2
<1>4. Dispatch(m) = [kind |-> cmd.kind, arg |-> CString(m, cmd.n)]
  BY DEF Dispatch
<1> HIDE DEF cmd
<1>5. cmd.n \in 0 .. MAX_CMD_LENGTH
  BY <1>3, CommandsAssumption
<1>6. CString(m, cmd.n) \in Seq(Bytes)
  BY <1>5, CStringType
<1> QED BY <1>3, <1>4, <1>6

(* With its terminator, the buffer holds the line. *)
LEMMA TerminatedHolds ==
  ASSUME LineInv
  PROVE  Terminated \in [Mem -> Bytes] /\ Holds(Terminated, TypedLine)
<1>1. Terminated \in [Mem -> Bytes] /\ Terminated[buff_pos] = NUL
  BY DEF LineInv, Terminated, Bytes, NUL
<1>2. /\ buff_pos \in Nat /\ buff_pos \in Mem
      /\ \A i \in 0 .. buff_pos - 1 : cmd_buffer[i] \in Bytes \ {NUL}
  <2>1. Chars \subseteq Bytes \ {NUL}
    BY Characters DEF Bytes
  <2> QED BY <2>1, CommandsAssumption DEF LineInv, Mem
<1>3. TypedLine \in Seq(Bytes \ {NUL}) /\ Len(TypedLine) = buff_pos
  BY <1>2 DEF TypedLine
<1>4. ASSUME NEW j \in 0 .. buff_pos - 1
      PROVE  Terminated[j] = TypedLine[j + 1]
  <2>1. TypedLine[j + 1] = cmd_buffer[j]
    BY <1>2 DEF TypedLine
  <2>2. Terminated[j] = cmd_buffer[j]
    BY <1>2, CommandsAssumption DEF Terminated, LineInv, Mem
  <2> QED BY <2>1, <2>2
<1> QED BY <1>1, <1>2, <1>3, <1>4 DEF Holds

(* No command ran yet. *)
LEMMA InitRanInv == Init => RanInv
<1> SUFFICES ASSUME Init
             PROVE  RanInv
  OBVIOUS
<1>1. ran.cmd = <<>> /\ ran.arg = <<>> /\ ran.kind = "none"
  BY DEF Init
<1>2. /\ CLEAR.text # <<>> /\ HELP.text # <<>> /\ LS.text # <<>> /\ TEST.text # <<>>
      /\ TLIST.text # <<>> /\ Len(CAT.text) = 4 /\ Len(TRUN.text) = 5
  BY DEF CLEAR, CAT, HELP, LS, TEST, TLIST, TRUN, Cmd
<1>3. /\ CLEAR.n = 0 /\ HELP.n = 0 /\ LS.n = 0 /\ TEST.n = 0 /\ TLIST.n = 0
  BY DEF CLEAR, HELP, LS, TEST, TLIST, Cmd
<1>4. ASSUME NEW cmd \in {CLEAR, CAT, HELP, LS, TEST, TLIST, TRUN}
      PROVE  ~Means(<<>>, cmd)
  <2>1. CASE cmd \in {CLEAR, HELP, LS, TEST, TLIST}
    BY <1>2, <1>3, <2>1 DEF Means
  <2>2. CASE cmd \in {CAT, TRUN}
    <3>1. ~(Len(cmd.text) <= Len(<<>>))
      BY <1>2, <2>2, SMTT(20)
    <3>2. cmd.text # <<>>
      BY <1>2, <2>2
    <3> QED BY <3>1, <3>2 DEF Means, IsPrefix
  <2> QED BY <2>1, <2>2
<1>5. CommandsRun
  BY <1>1, <1>4 DEF CommandsRun
<1> QED BY <1>1, <1>5 DEF RanInv, Kinds

(* Enter runs the command that the line names. *)
LEMMA NextRanInv == LineInv /\ RanInv /\ [Next]_shell => RanInv'
<1> SUFFICES ASSUME LineInv, RanInv, [Next]_shell
             PROVE  RanInv'
  OBVIOUS
<1>1. ASSUME UNCHANGED ran
      PROVE  RanInv'
  BY <1>1 DEF RanInv, CommandsRun
<1>2. ASSUME NEW c \in Typed, Enter(c)
      PROVE  RanInv'
  <2>1. CASE buff_pos > 0
    <3> DEFINE did == Dispatch(Terminated)
               line == TypedLine
    <3>1. ran' = [cmd |-> line, kind |-> did.kind, arg |-> did.arg]
      BY <1>2, <2>1, TerminatedIsLine DEF Enter
    <3>2. Terminated \in [Mem -> Bytes] /\ Holds(Terminated, line)
      BY TerminatedHolds
    <3>3. did.kind \in Kinds /\ did.arg \in Seq(Bytes)
      BY <3>2, DispatchType
    <3>4. line \in Seq(Bytes)
      BY <3>2 DEF Holds
    <3> HIDE DEF line
    <3>5. ASSUME NEW cmd \in {CLEAR, CAT, HELP, LS, TEST, TLIST, TRUN},
                 Means(line, cmd), ~(cmd = TRUN /\ Means(line, TLIST))
          PROVE  /\ did.kind = cmd.kind
                 /\ cmd.n > 0 => did.arg = SubSeq(line, cmd.n + 1, Len(line))
      <4>1. IsCommand(line, cmd) /\ cmd \in Commands7
        BY Zenon, <3>5 DEF Means, IsCommand, Commands7
      <4>2. ~(cmd = TRUN /\ line = TLIST.text)
        <5>1. TLIST.n = 0
          BY DEF TLIST, Cmd
        <5> QED BY Zenon, <3>5, <5>1 DEF Means
      <4> QED BY <3>2, <4>1, <4>2, DispatchRuns
    <3> HIDE DEF did
    <3>6. ran'.cmd = line /\ ran'.kind = did.kind /\ ran'.arg = did.arg
      BY <3>1
    <3>7. CommandsRun'
      BY <3>5, <3>6 DEF CommandsRun
    <3> QED BY <3>3, <3>4, <3>6, <3>7 DEF RanInv
  <2>2. CASE ~(buff_pos > 0)
    BY <1>1, <1>2, <2>2 DEF Enter, shell
  <2> QED BY <2>1, <2>2
<1>3. ASSUME NEW c \in Typed, Backspace(c) \/ Insert(c)
      PROVE  RanInv'
  BY <1>1, <1>3 DEF Backspace, Insert
<1>4. CASE UNCHANGED shell
  BY <1>1, <1>4 DEF shell
<1> QED BY <1>2, <1>3, <1>4 DEF Next, Key

(* In every reachable state the command that ran is the one that the line  *)
(* named.                                                                  *)
THEOREM RanInvariance == Spec => []RanInv
  BY InitRanInv, NextRanInv, LineInvariance, PTL DEF Spec

(* sh_loop never writes outside cmd_buffer and handle_cmd's argument is a  *)
(* string inside it, for every buffer length.                              *)
THEOREM TypeCorrect == Spec => []TypeOK
<1>1. LineInv /\ RanInv => TypeOK
  BY DEF LineInv, RanInv, TypeOK, Kinds, Bytes
<1> QED BY <1>1, LineInvariance, RanInvariance, PTL

(* Every command that is typed is the one that runs, with its argument,    *)
(* although the tests overlap and strcomp_n accepts more than its text.    *)
THEOREM CommandsCorrect == Spec => []CommandsRun
<1>1. RanInv => CommandsRun
  BY DEF RanInv
<1> QED BY <1>1, RanInvariance, PTL

-----------------------------------------------------------------------------
(* The terminal: the cells before the cursor keep showing the prompt and   *)
(* the line, as long as every key had a glyph and could be undone.         *)

TInv ==
  /\ LineInv
  /\ On(con, W-1, H-1) /\ con.hw = Pos(con)
  /\ clean => Shown(con, Prompt \o TypedLine)

(* The prompt can be shown. *)
LEMMA PromptType ==
  /\ Prompt \in Seq(Printable) /\ Prompt \in Seq(Nat) /\ Prompt # <<>> /\ DEFAULT \in Attrs
  /\ NewPrompt \in Seq(Nat) /\ NewPrompt # <<>> /\ Len(NewPrompt) = Len(Prompt) + 1
  /\ \A i \in 2 .. Len(NewPrompt) : NewPrompt[i] \in Printable
  /\ SubSeq(NewPrompt, 2, Len(NewPrompt)) = Prompt
<1>1. Prompt \in Seq(Printable) /\ Prompt # <<>>
  BY TerminalAssumption
<1>2. Printable \subseteq Nat /\ NL \in Nat /\ DEFAULT \in Attrs
  BY DEF Printable, SPACE, NL, DEFAULT, Attrs
<1>3. Prompt \in Seq(Nat) /\ <<NL>> \in Seq(Nat) /\ Len(<<NL>>) = 1
  <2>1. Prompt \in Seq(Nat)
    BY <1>1, <1>2, SeqMonotonic
  <2>2. <<NL>> \in Seq(Nat) /\ Len(<<NL>>) = 1
    BY <1>2
  <2> QED BY <2>1, <2>2
<1> DEFINE p == NewPrompt
           n == Len(Prompt)
<1>4. /\ p \in Seq(Nat) /\ Len(p) = n + 1 /\ n \in Nat
      /\ \A i \in 2 .. n + 1 : p[i] = Prompt[i - 1]
  <2>1. /\ <<NL>> \o Prompt \in Seq(Nat) /\ Len(<<NL>> \o Prompt) = 1 + n
        /\ \A i \in 1 .. Len(<<NL>> \o Prompt) :
             (<<NL>> \o Prompt)[i] = IF i <= 1 THEN <<NL>>[i] ELSE Prompt[i - 1]
    BY <1>3, ConcatProperties
  <2>2. n \in Nat
    BY <1>3
  <2> HIDE DEF n
  <2> QED BY <2>1, <2>2 DEF NewPrompt
<1> HIDE DEF p
<1>5. \A i \in 2 .. n + 1 : p[i] \in Printable
  BY <1>1, <1>4
<1>6. SubSeq(p, 2, n + 1) = Prompt
  <2>1. SubSeq(p, 2, n + 1) = [i \in 1 .. n |-> p[i + 1]]
    BY <1>4
  <2>2. Prompt = [i \in 1 .. n |-> Prompt[i]]
    BY <1>1
  <2>3. \A i \in 1 .. n : p[i + 1] = Prompt[i]
    BY <1>4
  <2> QED BY <2>1, <2>2, <2>3
<1>7. p # <<>>
  BY <1>4
<1> QED BY <1>1, <1>2, <1>3, <1>4, <1>5, <1>6, <1>7 DEF p

(* A prompt on a new line is shown before the cursor, wherever it was. *)
LEMMA NewPromptShown ==
  ASSUME NEW k, On(k, W-1, H-1)
  PROVE  LET m == PutChars(k, NewPrompt)
         IN  On(m, W-1, H-1) /\ m.hw = Pos(m) /\ Shown(m, Prompt)
<1> DEFINE p == NewPrompt
           m == PutChars(k, NewPrompt)
<1>1. /\ p \in Seq(Nat) /\ p # <<>> /\ DEFAULT \in Attrs /\ 1 \in 0 .. Len(p)
      /\ \A i \in 1 + 1 .. Len(p) : p[i] \in Printable
      /\ SubSeq(p, 1 + 1, Len(p)) = Prompt
  <2>1. 1 + 1 = 2
    OBVIOUS
  <2>2. 1 \in 0 .. Len(p)
    BY PromptType
  <2> QED BY <2>1, <2>2, PromptType
<1>2. m = PrintString(k, p, DEFAULT)
  BY DEF PutChars
<1> HIDE DEF p, m
<1>3. On(m, W-1, H-1) /\ m.hw = Pos(m)
  BY <1>1, <1>2, StringOn
<1>4. Shown(m, SubSeq(p, 1 + 1, Len(p)))
  BY <1>1, <1>2, StringShown
<1>5. Shown(m, Prompt)
  BY <1>1, <1>4
<1> QED BY <1>3, <1>5 DEF m

(* Behind a new prompt nothing is typed. *)
LEMMA NothingTyped == Prompt \o <<>> = Prompt
BY PromptType

(* What is shown ends with the last character of the line. *)
LEMMA LastApart ==
  ASSUME NEW p \in Seq(Nat), NEW t \in Seq(Nat), Len(t) > 0
  PROVE  /\ p \o SubSeq(t, 1, Len(t) - 1) \in Seq(Nat) /\ t[Len(t)] \in Nat
         /\ p \o t = Append(p \o SubSeq(t, 1, Len(t) - 1), t[Len(t)])
<1> DEFINE n == Len(t)
           f == SubSeq(t, 1, n - 1)
           c == t[n]
<1>1. n \in 1 .. Len(t) /\ 1 \in 1 .. Len(t) /\ c \in Nat
  OBVIOUS
<1>2. SubSeq(t, 1, n) = f \o <<c>>
  BY <1>1, SubSeqRecursiveSecond
<1>3. SubSeq(t, 1, n) = t
  BY SubSeqFull
<1>4. f \in Seq(Nat) /\ <<c>> \in Seq(Nat)
  <2>1. \A i \in 1 .. n - 1 : t[i] \in Nat
    BY <1>1
  <2>2. 1 \in Int /\ n - 1 \in Int
    BY <1>1
  <2>3. f \in Seq(Nat)
    BY <2>1, <2>2, SubSeqProperties
  <2> QED BY <1>1, <2>3
<1> HIDE DEF f, c, n
<1>5. p \o f \in Seq(Nat)
  BY <1>4, ConcatProperties
<1>6. (p \o f) \o <<c>> = p \o (f \o <<c>>)
  BY <1>4, ConcatAssociative, SMTT(20)
<1>7. Append(p \o f, c) = (p \o f) \o <<c>>
  BY <1>1, <1>5
<1> QED BY <1>1, <1>2, <1>3, <1>5, <1>6, <1>7 DEF f, c, n

(* The first prompt is shown. *)
LEMMA InitTInv == TInit => TInv
<1> SUFFICES ASSUME TInit PROVE TInv
  OBVIOUS
<1> DEFINE k == [vmem |-> [i \in Index |-> Blank], cx |-> 0, cy |-> 0, hw |-> 0]
<1>1. LineInv
  BY InitLineInv DEF TInit
<1>2. On(k, W-1, H-1)
  BY ClearOn
<1>3. con = PrintString(k, Prompt, DEFAULT)
  BY DEF TInit, PutChars
<1> HIDE DEF k
<1>4. On(con, W-1, H-1) /\ con.hw = Pos(con)
  BY <1>2, <1>3, PromptType, StringOn
<1>5. Shown(con, Prompt)
  <2>1. 0 \in 0 .. Len(Prompt) /\ (\A i \in 0 + 1 .. Len(Prompt) : Prompt[i] \in Printable)
    BY PromptType
  <2>2. Shown(con, SubSeq(Prompt, 0 + 1, Len(Prompt)))
    BY <1>2, <1>3, <2>1, PromptType, StringShown
  <2>3. SubSeq(Prompt, 0 + 1, Len(Prompt)) = Prompt
    BY PromptType
  <2> QED BY <2>2, <2>3
<1>6. TypedLine = <<>>
  BY DEF TInit, Init, TypedLine
<1> QED BY <1>1, <1>4, <1>5, <1>6, NothingTyped DEF TInv

(* Every key does the same to the buffer and to the screen. *)
LEMMA NextTInv == TInv /\ [TNext]_vars => TInv'
<1> SUFFICES ASSUME TInv, [TNext]_vars PROVE TInv'
  OBVIOUS
<1>1. LineInv /\ On(con, W-1, H-1) /\ con.hw = Pos(con)
  BY DEF TInv
<1>2. LineInv'
  <2>1. [TNext]_vars => [Next]_shell
    BY DEF TNext, TEnter, TBackspace, TInsert, Next, Key, vars, shell
  <2> QED BY <1>1, <2>1, NextLineInv
<1>3. ASSUME On(con', W-1, H-1), con'.hw = Pos(con'), clean' => Shown(con', Prompt \o TypedLine')
      PROVE  TInv'
  <2>1. (con.hw = Pos(con))' /\ On(con, W-1, H-1)'
    BY <1>3 DEF On, CleanBelow, Pos
  <2>2. (clean => Shown(con, Prompt \o TypedLine))'
    BY <1>3 DEF Shown, Pos
  <2> QED BY <1>2, <2>1, <2>2 DEF TInv
<1>4. /\ Prompt \in Seq(Nat) /\ DEFAULT \in Attrs
      /\ TypedLine \in Seq(Nat) /\ TypedLine \in Seq(Chars) /\ Len(TypedLine) = buff_pos
      /\ buff_pos \in Nat
  BY <1>1, PromptType, TypedIs
<1>5. ASSUME NEW c \in Typed, TEnter(c)
      PROVE  TInv'
  <2>1. PICK k \in (IF buff_pos > 0 THEN AfterCommand ELSE {con}) : con' = PutChars(k, NewPrompt)
    BY <1>5 DEF TEnter
  <2>2. On(k, W-1, H-1)
    <3>1. CASE ~(buff_pos > 0)
      BY <1>1, <2>1, <3>1
    <3>2. CASE buff_pos > 0
      <4>1. k = Clear(con) \/ \E out \in Outputs : k = PrintString(con, out, DEFAULT)
        BY <2>1, <3>2 DEF AfterCommand, PutChars
      <4>2. CASE k = Clear(con)
        BY <1>1, <4>2, ClearedOn
      <4>3. ASSUME NEW out \in Outputs, k = PrintString(con, out, DEFAULT)
            PROVE  On(k, W-1, H-1)
        <5>1. out \in Seq(Nat)
          BY TerminalAssumption
        <5> QED BY <1>1, <1>4, <4>3, <5>1, StringOn
      <4> QED BY <4>1, <4>2, <4>3
    <3> QED BY <3>1, <3>2
  <2>3. TypedLine' = <<>>
    <3>1. buff_pos' = 0
      BY <1>4, <1>5 DEF TEnter, Enter, shell
    <3> QED BY <3>1 DEF TypedLine
  <2>4. On(con', W-1, H-1) /\ con'.hw = Pos(con') /\ Shown(con', Prompt)
    BY <2>1, <2>2, NewPromptShown
  <2>5. Shown(con', Prompt \o TypedLine')
    BY <2>3, <2>4, NothingTyped
  <2> QED BY <1>3, <2>4, <2>5
<1>6. ASSUME NEW c \in Typed, TBackspace(c)
      PROVE  TInv'
  <2>1. CASE ~(buff_pos > 0)
    <3>1. con' = con /\ (clean' <=> clean)
      BY <1>6, <2>1 DEF TBackspace
    <3>2. TypedLine' = TypedLine
      BY <1>6, <2>1 DEF TBackspace, Backspace, TypedLine
    <3> QED BY <1>1, <1>3, <3>1, <3>2 DEF TInv
  <2>2. CASE buff_pos > 0
    <3>1. con' = PrintString(con, <<BS, SPACE, BS>>, DEFAULT)
      BY <1>6, <2>2 DEF TBackspace, PutChars, Erasure
    <3>2. BS \in Nat /\ SPACE \in Nat /\ <<BS, SPACE, BS>> \in Seq(Nat) /\ <<BS, SPACE, BS>> # <<>>
      BY DEF BS, SPACE
    <3> DEFINE e == <<BS, SPACE, BS>>
    <3> HIDE DEF e
    <3>3. On(con', W-1, H-1) /\ con'.hw = Pos(con')
      BY <1>1, <1>4, <3>1, <3>2, StringOn DEF e
    <3>4. ASSUME clean'
          PROVE  Shown(con', Prompt \o TypedLine')
      <4>1. clean /\ con.cx > 0
        <5>1. clean /\ con.cx # 0
          BY <1>6, <2>2, <3>4 DEF TBackspace
        <5>2. con.cx \in 0 .. W-1
          BY <1>1 DEF On
        <5> QED BY <5>1, <5>2, Size
      <4> DEFINE s == Prompt \o TypedLine'
                 c0 == TypedLine[buff_pos]
      <4>2. TypedLine' = SubSeq(TypedLine, 1, Len(TypedLine) - 1)
        BY <1>1, <1>6, <2>2, TypedErased DEF TBackspace, Backspace
      <4>3. s \in Seq(Nat) /\ c0 \in Nat /\ Prompt \o TypedLine = Append(s, c0)
        BY <1>4, <2>2, <4>2, LastApart
      <4> HIDE DEF s, c0
      <4>4. Shown(con, Append(s, c0))
        BY <4>1, <4>3 DEF TInv
      <4>5. Shown(Put(Put(Put(con, BS, DEFAULT), SPACE, DEFAULT), BS, DEFAULT), s)
        BY <1>1, <1>4, <4>1, <4>3, <4>4, ErasedShown
      <4>6. con' = Put(Put(Put(con, BS, DEFAULT), SPACE, DEFAULT), BS, DEFAULT)
        BY <1>1, <1>4, <3>1, <3>2, ThreeChars
      <4> QED BY <4>5, <4>6 DEF s
    <3> QED BY <1>3, <3>3, <3>4
  <2> QED BY <2>1, <2>2
<1>7. ASSUME NEW c \in Typed, TInsert(c)
      PROVE  TInv'
  <2>1. CASE ~HasSpace
    <3>1. con' = con /\ (clean' <=> clean)
      BY <1>7, <2>1 DEF TInsert
    <3>2. TypedLine' = TypedLine
      BY <1>7, <2>1 DEF TInsert, Insert, TypedLine
    <3> QED BY <1>1, <1>3, <3>1, <3>2 DEF TInv
  <2>2. CASE HasSpace
    <3>1. c \in Chars /\ c \in Nat
      BY <1>7, Characters DEF TInsert, Insert, Chars
    <3>2. con' = Put(con, c, DEFAULT)
      BY <1>1, <1>4, <1>7, <2>2, <3>1, OneChar DEF TInsert, PutChars
    <3>3. On(con', W-1, H-1) /\ con'.hw = Pos(con')
      BY <1>1, <1>4, <3>1, <3>2, PutOn
    <3>4. ASSUME clean'
          PROVE  Shown(con', Prompt \o TypedLine')
      <4>1. clean /\ c \in Printable
        BY <1>7, <2>2, <3>4 DEF TInsert
      <4>2. TypedLine' = Append(TypedLine, c)
        BY <1>1, <1>7, <2>2, <3>1, TypedInserted DEF TInsert, Insert
      <4> DEFINE s == Prompt \o TypedLine
      <4>3. s \in Seq(Nat) /\ Prompt \o Append(TypedLine, c) = Append(s, c)
        BY <1>4, <3>1
      <4>4. Shown(con, s)
        BY <4>1 DEF TInv
      <4> HIDE DEF s
      <4>5. Shown(con', Append(s, c))
        BY <1>1, <1>4, <3>2, <4>1, <4>3, <4>4, GlyphShown
      <4> QED BY <4>2, <4>3, <4>5
    <3> QED BY <1>3, <3>3, <3>4
  <2> QED BY <2>1, <2>2
<1>8. CASE UNCHANGED vars
  <2>1. con' = con /\ (clean' <=> clean) /\ TypedLine' = TypedLine
    BY <1>8 DEF vars, TypedLine
  <2> QED BY <1>1, <1>3, <2>1 DEF TInv
<1> QED BY <1>5, <1>6, <1>7, <1>8 DEF TNext

(* In every reachable state the shell, the line and the screen agree. *)
THEOREM TInvariance == TSpec => []TInv
BY InitTInv, NextTInv, PTL DEF TSpec

(* The console never gets in the shell's way: what is proved of the shell  *)
(* alone holds on the terminal.                                            *)
THEOREM TerminalRunsShell == TSpec => Spec
<1>1. TInit => Init
  BY DEF TInit
<1>2. [TNext]_vars => [Next]_shell
  BY DEF TNext, TEnter, TBackspace, TInsert, Next, Key, vars, shell
<1> QED BY <1>1, <1>2, PTL DEF TSpec, Spec

(* For every size of the screen, every prompt and every text a command     *)
(* prints, the hardware cursor is where the next character goes whenever   *)
(* sh_loop waits for a key, although clear does not move it.               *)
THEOREM HardwareCursorCorrect == TSpec => []HardwareCursorHere
<1>1. TInv => HardwareCursorHere
  BY DEF TInv, HardwareCursorHere
<1> QED BY <1>1, TInvariance, PTL

(* For every size of the screen and of the buffer, the user sees the line  *)
(* that Enter will run, across wrapped and scrolled rows, until a key is   *)
(* typed that print_char cannot show or undo.                              *)
THEOREM LineShownCorrect == TSpec => []LineShownIfClean
<1>1. TInv => LineShownIfClean
  BY DEF TInv, LineShownIfClean, LineShown, Shown
<1> QED BY <1>1, TInvariance, PTL
=============================================================================
