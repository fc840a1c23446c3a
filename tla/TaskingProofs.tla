--------------------------- MODULE TaskingProofs ---------------------------
(***************************************************************************)
(* Theorems about Tasking, for any number of tasks.                        *)
(***************************************************************************)
EXTENDS Tasking, TLAPS

(* Where each task's link points while task_new is under way: the ring of  *)
(* the other tasks is closed until the new block is linked in; then the    *)
(* chain up to it is complete and only its own link is missing.            *)
RingInv ==
  /\ pc = "boot" => last_id = 0
  /\ pc = "idle" => last_id >= 1 /\ RingOf(last_id)
  /\ pc \in {"walk", "link"} =>
       /\ last_id >= 2 /\ RingOf(last_id - 1)
       /\ temp_task \in 1 .. last_id - 1
  /\ pc = "link" => temp_task = last_id - 1
  /\ pc = "close" => last_id >= 2 /\ \A t \in 1 .. last_id - 1 : next[t] = t + 1

(* Until the first switch, which ends on no stack, the boot task runs and  *)
(* no other task has a stack.                                              *)
RunInv ==
  /\ ready_tasks = IF pc = "boot" THEN NULL ELSE 1
  /\ pc = "boot" => ~interrupts /\ running = 1
  /\ running = 1 => /\ active_task = IF pc = "boot" THEN NULL ELSE 1
                    /\ \A t \in Tasks : ~saved[t]
  /\ running = Wild => last_id >= 2

IInv == TypeOK /\ RingInv /\ RunInv

(* The invariant holds before task_init. *)
LEMMA InitIInv == Init => IInv
<1> SUFFICES ASSUME Init
             PROVE  IInv
  OBVIOUS
<1>1. TypeOK
  <2>1. next \in [Tasks -> Links] /\ saved \in [Tasks -> BOOLEAN]
    BY DEF Init, Links
  <2>2. last_id \in 0 .. MaxTasks /\ running \in {1, Wild}
    BY TaskingAssumption DEF Init
  <2>3. active_task \in Tasks \cup {NULL} /\ ready_tasks \in {NULL, 1}
        /\ temp_task \in Tasks \cup {NULL}
    BY DEF Init
  <2>4. interrupts \in BOOLEAN /\ pc \in {"boot", "idle", "walk", "link", "close"}
    BY Zenon DEF Init
  <2> QED BY <2>1, <2>2, <2>3, <2>4 DEF TypeOK
<1>2. pc = "boot" /\ pc \notin {"idle", "walk", "link", "close"}
  BY DEF Init
<1>3. RingInv
  BY <1>2 DEF Init, RingInv
<1>4. RunInv
  BY <1>2 DEF Init, RunInv, NULL, Wild
<1> QED BY <1>1, <1>3, <1>4 DEF IInv

(* What the scheduler finds behind the boot task. *)
LEMMA FirstLink ==
  ASSUME IInv, pc # "boot"
  PROVE  /\ last_id = 1 => next[1] = NULL
         /\ last_id >= 1
         /\ next[1] \in {NULL, 2}
         /\ next[1] = 2 => last_id >= 2 /\ 2 \in Tasks
<1>1. last_id \in 0 .. MaxTasks /\ MaxTasks \in Nat \ {0}
  BY TaskingAssumption DEF IInv, TypeOK
<1>2. CASE pc = "idle"
  BY <1>1, <1>2 DEF IInv, RingInv, RingOf, RunInv, Tasks, NULL
<1>3. CASE pc \in {"walk", "link"}
  BY <1>1, <1>3 DEF IInv, RingInv, RingOf, RunInv, Tasks, NULL
<1>4. CASE pc = "close"
  BY <1>1, <1>4 DEF IInv, RingInv, Tasks, NULL
<1> QED BY <1>2, <1>3, <1>4 DEF IInv, TypeOK

(* Every step of task_new and every tick of the timer keeps it. *)
LEMMA NextIInv == IInv /\ [Next]_vars => IInv'
<1> SUFFICES ASSUME IInv, [Next]_vars
             PROVE  IInv'
  OBVIOUS
<1> USE TaskingAssumption DEF Tasks, NULL, Junk, Wild, Links
<1>1. CASE task_init
  BY <1>1 DEF task_init, IInv, TypeOK, RingInv, RunInv, RingOf
<1>2. CASE sti
  BY <1>2 DEF sti, IInv, TypeOK, RingInv, RunInv, RingOf
<1>3. CASE NewBlock
  BY <1>3 DEF NewBlock, IInv, TypeOK, RingInv, RunInv, RingOf
<1>4. CASE Walk
  <2>1. /\ pc = "walk" /\ running = 1 /\ last_id >= 2 /\ ready_tasks = 1
        /\ RingOf(last_id - 1) /\ temp_task \in 1 .. last_id - 1
        /\ UNCHANGED <<next, saved, last_id, active_task, ready_tasks, interrupts, running>>
    BY <1>4 DEF Walk, IInv, RingInv, RunInv
  <2>2. NotLast <=> temp_task < last_id - 1
    BY <2>1 DEF NotLast, RingOf, IInv, TypeOK
  <2>3. CASE NotLast
    <3>1. temp_task' = temp_task + 1 /\ pc' = "walk"
      BY <1>4, <2>1, <2>2, <2>3 DEF Walk, RingOf
    <3>2. temp_task' \in 1 .. last_id - 1
      BY <2>1, <2>2, <2>3, <3>1 DEF IInv, TypeOK
    <3> QED BY <2>1, <3>1, <3>2 DEF IInv, TypeOK, RingInv, RunInv, RingOf
  <2>4. CASE ~NotLast
    <3>1. temp_task' = temp_task /\ pc' = "link"
      BY <1>4, <2>4 DEF Walk
    <3>2. temp_task = last_id - 1
      BY <2>1, <2>2, <2>4 DEF IInv, TypeOK
    <3> QED BY <2>1, <3>1, <3>2 DEF IInv, TypeOK, RingInv, RunInv, RingOf
  <2> QED BY <2>3, <2>4
<1>5. CASE Link
  <2>1. /\ pc = "link" /\ pc' = "close" /\ running = 1 /\ last_id >= 2
        /\ temp_task = last_id - 1 /\ RingOf(last_id - 1)
        /\ next' = [next EXCEPT ![temp_task] = last_id]
        /\ last_id \in 0 .. MaxTasks /\ next \in [Tasks -> Links]
    BY <1>5 DEF Link, IInv, RingInv, TypeOK
  <2>2. \A t \in 1 .. last_id - 1 : next'[t] = t + 1
    BY <2>1 DEF RingOf
  <2> QED BY <1>5, <2>1, <2>2 DEF Link, IInv, TypeOK, RingInv, RunInv
<1>6. CASE Close
  <2>1. /\ pc = "close" /\ pc' = "idle" /\ running = 1 /\ last_id >= 2 /\ ready_tasks = 1
        /\ \A t \in 1 .. last_id - 1 : next[t] = t + 1
        /\ next' = [next EXCEPT ![last_id] = ready_tasks]
        /\ last_id \in 0 .. MaxTasks /\ next \in [Tasks -> Links]
        /\ UNCHANGED <<last_id, ready_tasks>>
    BY <1>6 DEF Close, IInv, RingInv, TypeOK, RunInv
  <2>2. RingOf(last_id)'
    BY <2>1 DEF RingOf
  <2> QED BY <1>6, <2>1, <2>2 DEF Close, IInv, TypeOK, RingInv, RunInv
<1>7. CASE Timer
  <2>1. /\ interrupts /\ running = 1 /\ pc # "boot" /\ active_task = 1
        /\ \A t \in Tasks : ~saved[t]
        /\ UNCHANGED <<next, last_id, ready_tasks, interrupts, pc, temp_task>>
    BY <1>7 DEF Timer, IInv, TypeOK, RunInv
  <2>2. CASE CanSwitch
    <3>1. next[1] = 2 /\ last_id >= 2 /\ 2 \in Tasks
      BY <2>1, <2>2, FirstLink DEF CanSwitch
    <3>2. /\ active_task' = 2 /\ saved' = [saved EXCEPT ![1] = TRUE]
          /\ running' = IF 2 \in Tasks /\ saved'[2] THEN 2 ELSE Wild
      BY <1>7, <2>1, <2>2, <3>1 DEF Timer
    <3>3. ~saved'[2] /\ saved' \in [Tasks -> BOOLEAN]
      BY <2>1, <3>1, <3>2 DEF IInv, TypeOK
    <3>4. running' = Wild
      BY <3>2, <3>3
    <3> QED BY <2>1, <3>1, <3>2, <3>3, <3>4 DEF IInv, TypeOK, RingInv, RunInv, RingOf
  <2>3. CASE ~CanSwitch
    BY <1>7, <2>1, <2>3 DEF Timer, IInv, TypeOK, RingInv, RunInv, RingOf
  <2> QED BY <2>2, <2>3
<1>8. CASE UNCHANGED vars
  BY <1>8 DEF vars, IInv, TypeOK, RingInv, RunInv, RingOf
<1> QED BY <1>1, <1>2, <1>3, <1>4, <1>5, <1>6, <1>7, <1>8 DEF Next, TaskNew

(* The invariant holds in every state of every behaviour. *)
THEOREM Invariance == Spec => []IInv
  BY InitIInv, NextIInv, PTL DEF Spec

(* Every variable keeps its type; the scheduler never takes an unset field *)
(* for a task.                                                             *)
THEOREM TypeCorrect == Spec => []TypeOK
<1>1. IInv => TypeOK
  BY DEF IInv
<1> QED BY <1>1, Invariance, PTL

(* However many tasks are created, and whenever the timer ticks, the ring  *)
(* is closed and in order whenever task_new has returned.                  *)
THEOREM RingCorrect == Spec => []RingClosed
<1>1. IInv => RingClosed
  BY DEF IInv, RingInv, RingClosed
<1> QED BY <1>1, Invariance, PTL

(* With the boot task alone the timer never switches: the kernel as it     *)
(* stands is single-threaded, apart from its interrupt handlers.           *)
THEOREM AloneCorrect == Spec => []AloneNotSwitched
<1>1. IInv => AloneNotSwitched
  BY DEF IInv, TypeOK, RingInv, RunInv, AloneNotSwitched, Wild, NULL, Tasks
<1> QED BY <1>1, Invariance, PTL

(* A block that is not linked in yet has the link that kmalloc's memory    *)
(* held.                                                                   *)
FreshInv ==
  \A t \in Tasks :
    t > last_id \/ (t = last_id /\ pc \in {"walk", "link", "close"}) => next[t] = Junk

LEMMA FreshKept == IInv /\ FreshInv /\ [Next]_vars => FreshInv'
<1> SUFFICES ASSUME IInv, FreshInv, [Next]_vars, NEW t \in Tasks,
                    (t > last_id \/ (t = last_id /\ pc \in {"walk", "link", "close"}))'
             PROVE  next'[t] = Junk
  BY DEF FreshInv
<1>1. /\ last_id \in 0 .. MaxTasks /\ MaxTasks \in Nat /\ t \in Nat
      /\ next \in [Tasks -> Links]
  BY TaskingAssumption DEF IInv, TypeOK, Tasks
<1> USE <1>1 DEF FreshInv
<1>2. CASE task_init
  BY <1>2 DEF task_init
<1>3. CASE sti \/ Timer \/ UNCHANGED vars
  BY <1>3 DEF sti, Timer, vars
<1>4. CASE NewBlock
  BY <1>4 DEF NewBlock
<1>5. CASE Walk
  BY <1>5 DEF Walk
<1>6. CASE Link
  <2>1. temp_task \in Tasks /\ temp_task < last_id
    BY <1>6 DEF Link, IInv, RingInv, Tasks
  <2> QED BY <1>6, <2>1 DEF Link
<1>7. CASE Close
  BY <1>7 DEF Close
<1> QED BY <1>2, <1>3, <1>4, <1>5, <1>6, <1>7 DEF Next, TaskNew

(* What the ticks can come to: the tasks of the ring, or of the chain up   *)
(* to the new block.                                                       *)
LEMMA ReachIsRing ==
  ASSUME IInv, FreshInv, pc # "boot", NEW t \in InReach
  PROVE  /\ t \in 1 .. IF pc \in {"walk", "link"} THEN last_id - 1 ELSE last_id
         /\ next[t] = Junk => t = last_id /\ pc = "close"
<1> DEFINE n == IF pc \in {"walk", "link"} THEN last_id - 1 ELSE last_id
           S == 1 .. n
<1>1. /\ last_id \in 0 .. MaxTasks /\ MaxTasks \in Nat /\ ready_tasks = 1
      /\ pc \in {"idle", "walk", "link", "close"}
  BY TaskingAssumption DEF IInv, TypeOK, RunInv
<1>2. n \in 1 .. MaxTasks
  BY <1>1 DEF IInv, RingInv
<1>3. CASE pc # "close"
  <2>1. RingOf(n)
    BY <1>1, <1>3 DEF IInv, RingInv
  <2> HIDE DEF n
  <2>2. \A s \in S : next[s] \in S \cup {NULL}
    BY <1>1, <1>2, <2>1 DEF RingOf
  <2>3. Closed(S) /\ S \in SUBSET Tasks
    BY <1>1, <1>2, <2>2 DEF Closed, Tasks, NULL
  <2>4. t \in S
    BY <2>3 DEF InReach
  <2>5. next[t] # Junk
    BY <1>2, <2>2, <2>4 DEF Junk, NULL
  <2> QED BY <2>4, <2>5 DEF n
<1>4. CASE pc = "close"
  <2>1. n = last_id /\ \A s \in 1 .. last_id - 1 : next[s] = s + 1
    BY <1>4 DEF IInv, RingInv
  <2>2. next[last_id] = Junk
    BY <1>1, <1>2, <1>4, <2>1 DEF FreshInv, Tasks
  <2> HIDE DEF n
  <2>3. Closed(S) /\ S \in SUBSET Tasks
    BY <1>1, <1>2, <2>1, <2>2 DEF Closed, Tasks, Junk
  <2>4. t \in S
    BY <2>3 DEF InReach
  <2>5. t # last_id => next[t] # Junk
    BY <1>1, <2>1, <2>4 DEF Junk
  <2> QED BY <1>4, <2>4, <2>5 DEF n
<1> QED BY <1>3, <1>4

(* Whenever the timer ticks, every block that it could come to has its     *)
(* link set, but for the new one between the last two stores of task_new.  *)
THEOREM LinksSetInTime == Spec => []LinksSet
<1>1. Init => FreshInv
  BY DEF Init, FreshInv
<1>2. IInv /\ FreshInv => LinksSet
  BY ReachIsRing DEF LinksSet
<1> QED BY <1>1, <1>2, FreshKept, Invariance, PTL DEF Spec

(* The walk never goes back: it passes over the tasks in the order of      *)
(* their creation and stops at the last but the new one, so that it takes  *)
(* no more steps than there are tasks.                                     *)
WalkNeverGoesBack ==
  [][temp_task' # temp_task /\ pc = "walk" =>
       temp_task' > temp_task /\ temp_task' < last_id]_vars

(* The walk of task_new goes from task to task in the order of creation,   *)
(* whatever the timer does, and never back: for any number of tasks it has *)
(* an end.  That the thread gets there is a matter of fairness.            *)
THEOREM WalkHasEnd == Spec => WalkNeverGoesBack
<1> DEFINE Forward == temp_task' # temp_task /\ pc = "walk" =>
                        temp_task' > temp_task /\ temp_task' < last_id
<1>1. IInv /\ [Next]_vars => [Forward]_vars
  <2> SUFFICES ASSUME IInv, Next, temp_task' # temp_task, pc = "walk"
               PROVE  temp_task' > temp_task /\ temp_task' < last_id
    OBVIOUS
  <2>1. /\ last_id >= 2 /\ RingOf(last_id - 1) /\ temp_task \in 1 .. last_id - 1
        /\ last_id \in 0 .. MaxTasks /\ MaxTasks \in Nat /\ ready_tasks = 1
    BY TaskingAssumption DEF IInv, TypeOK, RingInv, RunInv
  <2>2. Walk
    BY DEF Next, TaskNew, task_init, sti, NewBlock, Link, Close, Timer
  <2>3. temp_task' = next[temp_task] /\ next[temp_task] # NULL /\ next[temp_task] # ready_tasks
    BY <2>2 DEF Walk, NotLast
  <2>4. temp_task < last_id - 1 /\ next[temp_task] = temp_task + 1
    BY <2>1, <2>3 DEF RingOf
  <2> QED BY <2>1, <2>3, <2>4
<1> QED BY <1>1, Invariance, PTL DEF Spec, WalkNeverGoesBack
=============================================================================
