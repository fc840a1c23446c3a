------------------------------ MODULE Tasking ------------------------------
(***************************************************************************)
(* task.cpp and switch.asm: the ring of task blocks, built by task_new in  *)
(* the kernel's thread and walked by the scheduler in the timer interrupt. *)
(* task_new is split at every access to the ring, in the order in which    *)
(* the compiled code stores (temp_task->next before new_task->next); the   *)
(* timer handler is an interrupt gate and runs in one step.  The program   *)
(* as it stands calls task_init only; task_new is its interface.           *)
(*                                                                         *)
(* A task is named by its id.  context_switch keeps a task's stack pointer *)
(* in the first word of its block; task_new fills other words of it (esp   *)
(* is the fourth), and kmalloc does not clear memory.                      *)
(***************************************************************************)
EXTENDS Integers

CONSTANT MaxTasks        (* the bound on calls of task_new, plus one       *)

ASSUME TaskingAssumption == MaxTasks \in Nat \ {0}

Tasks == 1 .. MaxTasks
NULL  == 0
Junk  == -1              \* what kmalloc's memory held before
Wild  == 0               \* the CPU runs on a stack that no task has

VARIABLES
  next,                  (* the field next of every block                  *)
  saved,                 (* TRUE: a block's first word is its task's stack *)
  last_id,               (* next_task_id - 1                               *)
  active_task, ready_tasks,
  interrupts,            (* IF, set by sti                                 *)
  pc, temp_task,         (* task_new                                       *)
  running                (* the task whose stack the CPU is on, or Wild    *)

vars == <<next, saved, last_id, active_task, ready_tasks, interrupts, pc, temp_task, running>>

Init ==
  /\ next = [t \in Tasks |-> Junk]
  /\ saved = [t \in Tasks |-> FALSE]
  /\ last_id = 0
  /\ active_task = NULL /\ ready_tasks = NULL
  /\ interrupts = FALSE
  /\ pc = "boot" /\ temp_task = NULL
  /\ running = 1

(* Slip: active_task->next is not set. *)
TaskInitNoNull ==
  /\ pc = "boot"
  /\ last_id' = last_id + 1
  /\ active_task' = last_id'
  /\ ready_tasks' = active_task'
  /\ pc' = "idle"
  /\ UNCHANGED <<next, saved, interrupts, temp_task, running>>

task_init ==
  /\ pc = "boot"
  /\ last_id' = last_id + 1
  /\ active_task' = last_id'
  /\ next' = [next EXCEPT ![last_id'] = NULL]
  /\ ready_tasks' = active_task'
  /\ pc' = "idle"
  /\ UNCHANGED <<saved, interrupts, temp_task, running>>

(* kmain, once everything is initialised. *)
sti ==
  /\ pc = "idle" /\ ~interrupts
  /\ interrupts' = TRUE
  /\ UNCHANGED <<next, saved, last_id, active_task, ready_tasks, pc, temp_task, running>>

(* Up to the walk.  The new block is not in the ring; its registers go to  *)
(* words that context_switch does not read.                                *)
NewBlock ==
  /\ pc = "idle" /\ running = 1
  /\ last_id < MaxTasks
  /\ last_id' = last_id + 1
  /\ temp_task' = ready_tasks
  /\ pc' = "walk"
  /\ UNCHANGED <<next, saved, active_task, ready_tasks, interrupts, running>>

(* Slip: only the end of the list is tested. *)
NotLastUnlessNull == next[temp_task] # NULL

NotLast == next[temp_task] # NULL /\ next[temp_task] # ready_tasks

Walk ==
  /\ pc = "walk" /\ running = 1
  /\ IF NotLast THEN temp_task' = next[temp_task] /\ pc' = pc
                ELSE pc' = "link" /\ UNCHANGED temp_task
  /\ UNCHANGED <<next, saved, last_id, active_task, ready_tasks, interrupts, running>>

(* Slip: nothing sets the new block's own link. *)
LinkOnly ==
  /\ pc = "link" /\ running = 1
  /\ next' = [next EXCEPT ![temp_task] = last_id]
  /\ pc' = "idle"
  /\ UNCHANGED <<saved, last_id, active_task, ready_tasks, interrupts, temp_task, running>>

Link ==
  /\ pc = "link" /\ running = 1
  /\ next' = [next EXCEPT ![temp_task] = last_id]
  /\ pc' = "close"
  /\ UNCHANGED <<saved, last_id, active_task, ready_tasks, interrupts, temp_task, running>>

(* Slip: the new task ends the list. *)
CloseWithNull ==
  /\ pc = "close" /\ running = 1
  /\ next' = [next EXCEPT ![last_id] = NULL]
  /\ pc' = "idle"
  /\ UNCHANGED <<saved, last_id, active_task, ready_tasks, interrupts, temp_task, running>>

Close ==
  /\ pc = "close" /\ running = 1
  /\ next' = [next EXCEPT ![last_id] = ready_tasks]
  /\ pc' = "idle"
  /\ UNCHANGED <<saved, last_id, active_task, ready_tasks, interrupts, temp_task, running>>

(* Slip: no test for a single task. *)
AlwaysSwitch == active_task # NULL

(* !active_task and !next_task return. *)
CanSwitch == active_task # NULL /\ next[active_task] # NULL

(* timer_handler_main: scheduler and context_switch.  The old task's stack *)
(* pointer goes to the first word of its block, the new one's comes from   *)
(* there.                                                                  *)
Timer ==
  /\ interrupts /\ running # Wild
  /\ IF CanSwitch
     THEN LET next_task == next[active_task]
          IN  /\ active_task' = next_task
              /\ saved' = [saved EXCEPT ![active_task] = TRUE]
              /\ running' = IF next_task \in Tasks /\ saved'[next_task] THEN next_task ELSE Wild
     ELSE UNCHANGED <<active_task, saved, running>>
  /\ UNCHANGED <<next, last_id, ready_tasks, interrupts, pc, temp_task>>

TaskNew == NewBlock \/ Walk \/ Link \/ Close

Next == task_init \/ sti \/ TaskNew \/ Timer

Spec == Init /\ [][Next]_vars

(* The thread is not starved: it gets on between two ticks of the timer.   *)
FairSpec == Spec /\ WF_vars(Walk) /\ WF_vars(Link) /\ WF_vars(Close)

-----------------------------------------------------------------------------

Links == Tasks \cup {NULL, Junk}

TypeOK ==
  /\ next \in [Tasks -> Links]
  /\ saved \in [Tasks -> BOOLEAN]
  /\ last_id \in 0 .. MaxTasks
  /\ active_task \in Tasks \cup {NULL} /\ ready_tasks \in {NULL, 1}
  /\ interrupts \in BOOLEAN
  /\ pc \in {"boot", "idle", "walk", "link", "close"}
  /\ temp_task \in Tasks \cup {NULL}
  /\ running \in {1, Wild}

(* The list of n tasks: the boot task alone ends with NULL, as task_init   *)
(* left it; two or more form a ring in the order of their creation.        *)
RingOf(n) ==
  \A t \in 1 .. n :
    next[t] = IF t < n THEN t + 1 ELSE IF n = 1 THEN NULL ELSE ready_tasks

(* Between two calls of task_new every task is in the ring, once, in order *)
(* of creation: the scheduler passes over none and comes back to the first.*)
RingClosed == pc = "idle" => RingOf(last_id)

(* As long as task_new was not called the timer never takes the CPU from   *)
(* the kernel's thread, which is what the shell and the keyboard driver    *)
(* are written for.                                                        *)
AloneNotSwitched == last_id <= 1 => running = 1 /\ active_task = last_id

(* The blocks that ticks can come to from the first one, however many of   *)
(* them: those in every set that holds it and what its blocks link to.     *)
Closed(S) ==
  ready_tasks \in S /\ \A t \in S : next[t] \in Tasks => next[t] \in S
InReach == {t \in Tasks : \A S \in SUBSET Tasks : Closed(S) => t \in S}

(* At every moment of task_new each block that a tick, or one after it,    *)
(* could come to has its link set, but for the new block's between the     *)
(* last two stores: there a scheduler that got so far would follow what    *)
(* kmalloc's memory held before.                                           *)
LinksSet ==
  pc # "boot" => \A t \in InReach : next[t] = Junk => t = last_id /\ pc = "close"

(* A call of task_new returns, unless the timer ended everything.          *)
TaskNewReturns == pc \in {"walk", "link", "close"} ~> (pc = "idle" \/ running = Wild)

(* "Set up the new task's registers": the scheduler switches to tasks that *)
(* can run.                                                                *)
NewTaskRuns == running # Wild
=============================================================================
