------------------------------ MODULE RunQueue ------------------------------
(***************************************************************************)
(* What the scheduler promises (the comment above task_next in             *)
(* kernel/task.c): loaded tasks form one queue in the order they were      *)
(* loaded, a task that is started is put at its end and runs at once, and  *)
(* when the running task ends the next one in the queue runs, the first    *)
(* one if it was the last.  Sched.tla is shown to implement this.          *)
(***************************************************************************)
EXTENDS Sequences, SequencesExt

CONSTANTS Procs, NULL

VARIABLES queue,     \* the tasks, oldest first
          running    \* the one that has the processor, NULL if there is none

Init == queue = <<>> /\ running = NULL

Start(p) ==
  /\ p \notin ToSet(queue)
  /\ queue' = Append(queue, p)
  /\ running' = p

(* The task after the i-th in q, the first one when that is the last.      *)
Successor(q, i) ==
  IF Len(q) = 1 THEN NULL ELSE IF i = Len(q) THEN q[1] ELSE q[i + 1]

End(p) ==
  /\ p = running
  /\ \E i \in DOMAIN queue :
       /\ queue[i] = p
       /\ queue' = RemoveAt(queue, i)
       /\ running' = Successor(queue, i)

Next == \E p \in Procs : Start(p) \/ End(p)

Spec == Init /\ [][Next]_<<queue, running>>
=============================================================================
