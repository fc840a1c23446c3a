---------------------------- MODULE KernelTests ----------------------------
(***************************************************************************)
(* The testing framework: test_init registers the tests at boot, then the  *)
(* shell lists them, with their numbers, and runs one by the number that   *)
(* the user typed.  A test is its description; the one that prints an      *)
(* address is test_mem.                                                    *)
(***************************************************************************)
EXTENDS Numbers

CONSTANTS
  MAX_TESTS,             (* size of test_reg                               *)
  Tests,                 (* what test_add may be called with               *)
  Texts,                 (* what may follow "test " besides a number       *)
  Addresses              (* what kmalloc may return to test_mem            *)

ASSUME KernelTestsAssumption ==
  /\ MAX_TESTS \in 1 .. INT_END - 1
  /\ \A str \in Texts : str \in Seq(0 .. 127)
  /\ Addresses \subseteq Words

VARIABLES
  test_reg,              (* the first test_count entries                   *)
  phase,                 (* "boot" in test_init, then "shell"              *)
  listed,                (* the lines test_list last printed               *)
  said                   (* the last "test <n>": what was typed, the entry *)
                         (* whose function was called (0: none), and an    *)
                         (* address with the text it was printed as        *)

vars == <<test_reg, phase, listed, said>>

Init ==
  /\ test_reg = <<>>
  /\ phase = "boot"
  /\ listed = <<>>
  /\ said = [arg |-> <<>>, entry |-> 0, address |-> 0, text |-> <<>>]

test_add(desc) ==
  /\ phase = "boot"
  /\ test_reg' = IF Len(test_reg) < MAX_TESTS THEN Append(test_reg, desc) ELSE test_reg
  /\ UNCHANGED <<phase, listed, said>>

sh_loop ==
  /\ phase = "boot"
  /\ phase' = "shell"
  /\ UNCHANGED <<test_reg, listed, said>>

test_list ==
  /\ phase = "shell"
  /\ listed' = [i \in DOMAIN test_reg |-> [number |-> print_dec(i), desc |-> test_reg[i]]]
  /\ UNCHANGED <<test_reg, phase, said>>

(* Slip: the number is taken for the index. *)
IndexIsNumber(test_num) == test_num

IndexOf(test_num) == test_num - 1

(* Slip: the index after the last passes. *)
RegisteredOrNext(test_idx) == test_idx >= 0 /\ test_idx <= Len(test_reg)

Registered(test_idx) == test_idx >= 0 /\ test_idx < Len(test_reg)

(* "test <n>" of handle_cmd and test_exec.  A number that is not positive  *)
(* is refused by the one or the other.                                     *)
test_exec(arg) ==
  /\ phase = "shell"
  /\ LET idx == IndexOf(atoi(arg))
     IN  \E address \in Addresses :
           said' = IF Registered(idx)
                   THEN [arg |-> arg, entry |-> idx + 1,
                         address |-> address, text |-> print_hex(address)]
                   ELSE [arg |-> arg, entry |-> 0, address |-> 0, text |-> <<>>]
  /\ UNCHANGED <<test_reg, phase, listed>>

Next ==
  \/ \E desc \in Tests : test_add(desc)
  \/ sh_loop
  \/ test_list
  \/ \E arg \in Texts \cup {listed[i].number : i \in DOMAIN listed} : test_exec(arg)

Spec == Init /\ [][Next]_vars

-----------------------------------------------------------------------------

(* No test but those registered is called, whatever the user types and     *)
(* however its number wraps.                                               *)
TypeOK ==
  /\ test_reg \in Seq(Tests) /\ Len(test_reg) <= MAX_TESTS
  /\ phase \in {"boot", "shell"}
  /\ \A i \in DOMAIN listed : listed[i].desc \in Tests
  /\ said.entry \in 0 .. Len(test_reg)

(* A number that the list shows runs the test that it shows next to it:    *)
(* print_dec and atoi agree, and both count from one.                      *)
ListedTestRuns ==
  \A i \in DOMAIN listed :
    said.arg = listed[i].number =>
      said.entry # 0 /\ test_reg[said.entry] = listed[i].desc

(* What a text says as a number in a base, digits and letters alike.       *)
DigitOf(c) == IF c < 65 THEN c - ZERO ELSE c - 65 + 10

ValueOf(text, base) ==
  LET value[i \in 0 .. Len(text)] ==
        IF i = 0 THEN 0 ELSE value[i-1] * base + DigitOf(text[i])
  IN  value[Len(text)]

(* An int that fits is run or refused as the number that was typed.        *)
FittingNumberMeant ==
  LET n == ValueOf(Number(said.arg), 10)
  IN  phase = "shell" /\ n < INT_END =>
        said.entry \in {0, n} /\ (said.entry = 0 => n \notin DOMAIN test_reg)

(* Of an address the memory test prints its digits, from the first that is *)
(* not zero to the last: no 0x before them.  Of the address 0 it prints    *)
(* nothing.  print_hex writes 0x and, for 0, a digit into its buffer, but  *)
(* then prints from behind them.                                           *)
AddressShown ==
  said.entry # 0 =>
    IF said.address = 0
    THEN said.text = <<>>
    ELSE /\ Len(said.text) > 0 /\ said.text[1] # ZERO
         /\ ValueOf(said.text, 16) = said.address
=============================================================================
