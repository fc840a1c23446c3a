------------------------------ MODULE KeyQueue ------------------------------
(***************************************************************************)
(* What the keyboard driver promises the shell, without its ring buffer,   *)
(* its interrupt handler or its wait loop: a bounded first-in first-out    *)
(* queue of typed characters.  A key held by the keyboard controller is    *)
(* taken exactly once; a key that stands for a character is appended if    *)
(* there is room and is dropped only if there is none; a read returns the  *)
(* oldest character and removes it.                                        *)
(***************************************************************************)
EXTENDS Naturals, Sequences

CONSTANTS
  Keys,       (* what the controller can hold: scancodes                   *)
  NoKey,      (* the controller's output register is empty                 *)
  CharOf(_),  (* the character of a key, NUL if it has none                *)
  NUL,        (* not a character                                           *)
  Capacity    (* characters the queue holds                                *)

VARIABLES
  key,        (* the key waiting in the controller, or NoKey               *)
  queue,      (* characters accepted and not yet read                      *)
  last        (* the character most recently returned to the shell         *)

vars == <<key, queue, last>>

Init == key = NoKey /\ queue = <<>> /\ last = NUL

(* The user presses a key: the controller holds one at a time. *)
Press(k) ==
  /\ key = NoKey
  /\ key' = k
  /\ UNCHANGED <<queue, last>>

(* The driver takes the key: into the queue, unless it is no character or  *)
(* the queue is full.                                                      *)
Take ==
  /\ key # NoKey
  /\ key' = NoKey
  /\ queue' = IF CharOf(key) # NUL /\ Len(queue) < Capacity
              THEN Append(queue, CharOf(key))
              ELSE queue
  /\ UNCHANGED last

(* The shell reads the oldest character. *)
Get ==
  /\ queue # <<>>
  /\ last' = Head(queue)
  /\ queue' = Tail(queue)
  /\ UNCHANGED key

Next == (\E k \in Keys : Press(k)) \/ Take \/ Get

Spec == Init /\ [][Next]_vars
=============================================================================
