------------------------------- MODULE Sched --------------------------------
(***************************************************************************)
(* Processes and scheduling: kernel/sched.c, kernel/task.c, and the entry  *)
(* paths of kernel/isr80h.c and arch/x86/kernel/idt.c that create, switch  *)
(* and end processes.                                                      *)
(*                                                                         *)
(* The gates of the IDT clear the interrupt flag, so a handler runs to its *)
(* end without being interrupted: each action is one entry into the kernel *)
(* from the vector to the return to user mode.                             *)
(*                                                                         *)
(* A process (struct task_struct) and its task (struct thread_info) are    *)
(* created and destroyed together and carry the same name p.  The name of  *)
(* a process that has ended stands for a later one from then on, with the  *)
(* fields kzalloc will give it; the kernel itself never sees an old        *)
(* task_struct again (NoDanglingSlot, UserBound).                          *)
(***************************************************************************)
EXTENDS Naturals, FiniteSets, Sequences

CONSTANTS
  Procs,          \* names of processes
  NULL,
  MaxProcesses,   \* KERNEL_MAX_PROCESSES
  Failures        \* the failures the environment may produce, see LoadPoints

(* Where process_load_for_slot can fail, in its order, and "argv" for      *)
(* process_inject_argument.  "paging": paging_new_4gb_chunk does not check *)
(* its kzalloc, and writes a page table over low memory.                   *)
LoadPoints == {"struct", "file", "stack", "task", "paging", "map"}

ASSUME SchedAssumption ==
  /\ NULL \notin Procs
  /\ MaxProcesses \in Nat \ {0}
  /\ Failures \subseteq LoadPoints \cup {"argv"}

(* There are as many names as addresses of a thread_info.                  *)
ASSUME ProcsFinite == IsFiniteSet(Procs)

VARIABLES
  list,             \* task_head, task_tail, current_task and the links
  processes,        \* processes[]
  current_process,
  id,               \* process->id; 0 from kzalloc until the load is done
  live,             \* the processes whose task exists
  cr3,              \* whose page directory is loaded, NULL for the kernel's
  registers,        \* task->registers: whose ip, cs, flags, esp and ss they hold
  cpu,              \* whose the processor runs on; Registers.tla has the others
  mode              \* "boot", "user", "panic"; "wild" once memory is overwritten

vars == <<list, processes, current_process, id, live, cr3, registers, cpu, mode>>

Slots == 0 .. MaxProcesses - 1
ProcOrNull == Procs \cup {NULL}

-----------------------------------------------------------------------------
(* The task list of kernel/task.c *)

(* Slip: after the last task comes the second one.                         *)
GetNextSkipsHead(l) ==
  IF l.current # NULL /\ l.next[l.current] # NULL THEN l.next[l.current]
  ELSE IF l.head # NULL /\ l.next[l.head] \notin {NULL, l.current} THEN l.next[l.head]
  ELSE l.head

task_get_next(l) ==
  IF l.current = NULL \/ l.next[l.current] = NULL THEN l.head ELSE l.next[l.current]

(* A new task, whose links are NULL, at the end of the list.               *)
task_insert(l, t) ==
  IF l.head = NULL THEN [l EXCEPT !.head = t, !.tail = t, !.current = t]
  ELSE [l EXCEPT !.next[l.tail] = t, !.prev[t] = l.tail, !.tail = t]

(* Slip: the list is not told that its last task went.                     *)
RemoveKeepsTail(l, t) ==
  LET l1 == IF l.head = t THEN [l EXCEPT !.head = l.next[t]] ELSE l
      l2 == IF l1.current = t THEN [l1 EXCEPT !.current = task_get_next(l1)] ELSE l1
      l3 == IF l.prev[t] # NULL THEN [l2 EXCEPT !.next[l.prev[t]] = l.next[t]] ELSE l2
  IN  IF l.next[t] # NULL THEN [l3 EXCEPT !.prev[l.next[t]] = l.prev[t]] ELSE l3

task_list_remove(l, t) ==
  LET l1 == IF l.head = t THEN [l EXCEPT !.head = l.next[t]] ELSE l
      l2 == IF l1.tail = t THEN [l1 EXCEPT !.tail = l.prev[t]] ELSE l1
      l3 == IF l2.current = t THEN [l2 EXCEPT !.current = task_get_next(l2)] ELSE l2
      l4 == IF l.prev[t] # NULL THEN [l3 EXCEPT !.next[l.prev[t]] = l.next[t]] ELSE l3
  IN  IF l.next[t] # NULL THEN [l4 EXCEPT !.prev[l.next[t]] = l.prev[t]] ELSE l4

(* task_free: off the list, and its memory given back.                     *)
task_free(l, t) ==
  [task_list_remove(l, t) EXCEPT !.next[t] = NULL, !.prev[t] = NULL]

-----------------------------------------------------------------------------
(* The process table of kernel/sched.c *)

FreeSlots == {i \in Slots : processes[i] = NULL}

process_get_free_slot == CHOOSE i \in FreeSlots : \A j \in FreeSlots : i <= j

Occupied(ps) == {i \in Slots : ps[i] # NULL}

(* The process process_switch_to_any finds, when there is one.             *)
process_switch_to_any(ps) ==
  ps[CHOOSE i \in Occupied(ps) : \A j \in Occupied(ps) : i <= j]

(* Slip: the slot of the current process, not that of the one that ends.   *)
UnlinkCurrent(p) ==
  [processes EXCEPT ![id[IF current_process = NULL THEN p ELSE current_process]] = NULL]

(* The table after process_unlink.                                         *)
process_unlink(p) == [processes EXCEPT ![id[p]] = NULL]

-----------------------------------------------------------------------------
(* Entering and leaving the kernel *)

(* task_current_save_state: the frame goes into the current task.          *)
SavedRegisters == [registers EXCEPT ![list.current] = cpu]

(* paging_switch of task_switch; in the handlers it is the last one.       *)
task_switch(t) == cr3' = t

(* Slip: user mode resumes with the registers of the interrupted task.     *)
ReturnToCaller(t, regs) == cpu' = cpu

(* The registers task_return loads.                                        *)
task_return(t, regs) == cpu' = regs[t]

(* The return through popad and iret of the wrapper in idt.asm, after the  *)
(* handler's task_page: current_task's directory, the frame's registers.   *)
ReturnFromHandler(l) == task_switch(l.current) /\ cpu' = cpu

(* task_next, when there is a task: it and its process are made current.   *)
task_next(l, regs) ==
  /\ current_process' = l.current
  /\ task_switch(l.current) /\ task_return(l.current, regs)

-----------------------------------------------------------------------------
(* Ending a process *)

(* process_terminate(p), then task_next.  The allocations, the program and *)
(* the stack go back to the heap, task_free takes the task off the list,   *)
(* process_unlink clears the slot; the task_struct itself is never freed.  *)
(* process_switch_to_any panics on an empty table, task_next on an empty   *)
(* list; else the process the former chose is replaced by the latter.      *)
EndProcess(p) ==
  LET l == task_free(list, p)
      ps == process_unlink(p)
      regs == SavedRegisters
  IN  /\ list' = l
      /\ processes' = ps
      /\ registers' = regs
      /\ live' = live \ {p}
      /\ id' = [id EXCEPT ![p] = 0]
      /\ IF l.current = NULL \/ (current_process = p /\ Occupied(ps) = {})
         THEN /\ mode' = "panic" /\ cr3' = NULL
              /\ current_process' = IF current_process = p /\ Occupied(ps) # {}
                                    THEN process_switch_to_any(ps) ELSE current_process
              /\ UNCHANGED cpu
         ELSE task_next(l, regs) /\ UNCHANGED mode

isr80h_command9_exit == mode = "user" /\ EndProcess(list.current)

(* Slip: the process in the first slot is taken for the faulting one.      *)
ExceptionEndsFirst ==
  mode = "user" /\ processes[0] # NULL /\ EndProcess(processes[0])

(* Exceptions end the process that sched.c, not task.c, calls current.     *)
idt_handle_exception == mode = "user" /\ EndProcess(current_process)

-----------------------------------------------------------------------------
(* Loading a process *)

(* process_load_for_slot succeeds: process_get finds nobody in the slot,   *)
(* task_new has put the task on the list, the slot and the id are set,     *)
(* process_switch makes the process current.                               *)
process_load_switch(p, l) ==
  LET slot == process_get_free_slot
  IN  /\ processes[slot] = NULL
      /\ list' = [l EXCEPT !.current = p]
      /\ processes' = [processes EXCEPT ![slot] = p]
      /\ id' = [id EXCEPT ![p] = slot]
      /\ live' = live \cup {p}
      /\ current_process' = p

(* The out: path.  The new process is terminated with the id kzalloc gave  *)
(* it, 0, so process_unlink clears slot 0, whoever has it; a task that was *)
(* put on the list is taken off.  No task_struct, nothing to terminate.    *)
LoadFails(p, f) ==
  /\ processes' = IF f = "struct" THEN processes ELSE process_unlink(p)
  /\ list' = IF f = "map" THEN task_free(task_insert(list, p), p) ELSE list
  /\ UNCHANGED <<current_process, id, live>>

Loadable == {p \in Procs : p \notin live}

(* task_init: the entry state of the new process.                          *)
NewRegisters(p, regs) == [regs EXCEPT ![p] = p]

(* process_load_switch and task_switch of the commands that start a        *)
(* program.                                                                *)
StartProgram(p) ==
  /\ mode = "user" /\ p \in Loadable /\ FreeSlots # {}
  /\ process_load_switch(p, task_insert(list, p))
  /\ registers' = NewRegisters(p, SavedRegisters)
  /\ task_switch(p)
  /\ UNCHANGED mode

isr80h_command6_process_load_start(p) ==
  StartProgram(p) /\ task_return(p, registers')

(* When process_inject_argument fails the child is loaded and current, and *)
(* the handler returns the error through the wrapper.                      *)
isr80h_command7_invake_system_command(p) ==
  /\ StartProgram(p)
  /\ \E fails \in {FALSE, "argv" \in Failures} :
       IF fails THEN ReturnFromHandler(list') ELSE task_return(p, registers')

(* Both commands when the load fails.                                      *)
StartFails(p, f) ==
  /\ mode = "user" /\ p \in Loadable /\ FreeSlots # {}
  /\ f \in (Failures \cap LoadPoints) \ {"paging"}
  /\ LoadFails(p, f)
  /\ registers' = SavedRegisters
  /\ ReturnFromHandler(list')
  /\ UNCHANGED mode

(* paging_new_4gb_chunk out of memory: nothing is claimed from here on.    *)
StartWild(p) ==
  /\ mode \in {"boot", "user"} /\ p \in Loadable /\ FreeSlots # {}
  /\ "paging" \in Failures
  /\ mode' = "wild"
  /\ UNCHANGED <<list, processes, current_process, id, live, cr3, registers, cpu>>

(* Every other way through isr80h_handler and interrupt_handler changes    *)
(* no process: commands 0-5 and 8, a bad path or command number, a full    *)
(* process table, the keyboard's interrupt.                                *)
isr80h_handler ==
  /\ mode = "user"
  /\ registers' = SavedRegisters
  /\ ReturnFromHandler(list)
  /\ UNCHANGED <<list, processes, current_process, id, live, mode>>

-----------------------------------------------------------------------------
(* kernel_main: the first process is loaded and run, or the kernel panics. *)

BootOk(p) ==
  /\ mode = "boot"
  /\ process_load_switch(p, task_insert(list, p))
  /\ registers' = NewRegisters(p, registers)
  /\ task_switch(p) /\ task_return(p, registers')
  /\ mode' = "user"

BootFails(p, f) ==
  /\ mode = "boot"
  /\ f \in (Failures \cap LoadPoints) \ {"paging"}
  /\ LoadFails(p, f)
  /\ mode' = "panic"
  /\ UNCHANGED <<cr3, registers, cpu>>

(* panic() is an endless loop.                                             *)
Halted == mode \in {"panic", "wild"} /\ UNCHANGED vars

Init ==
  /\ list = [head |-> NULL, tail |-> NULL, current |-> NULL,
             next |-> [p \in Procs |-> NULL], prev |-> [p \in Procs |-> NULL]]
  /\ processes = [i \in Slots |-> NULL]
  /\ current_process = NULL
  /\ id = [p \in Procs |-> 0]
  /\ live = {}
  /\ cr3 = NULL
  /\ registers = [p \in Procs |-> p]
  /\ cpu = NULL
  /\ mode = "boot"

Next ==
  \/ \E p \in Procs : BootOk(p) \/ StartWild(p)
                      \/ isr80h_command6_process_load_start(p)
                      \/ isr80h_command7_invake_system_command(p)
  \/ \E p \in Procs, f \in Failures : BootFails(p, f) \/ StartFails(p, f)
  \/ isr80h_command9_exit \/ idt_handle_exception
  \/ isr80h_handler \/ Halted

Spec == Init /\ [][Next]_vars

(* A program other than the oldest one ends sooner or later, whatever else *)
(* it does before: utilities end, the shell at the head of the list does   *)
(* not.  Nothing else is assumed; there is no preemption to be fair.       *)
Ends(p) ==
  /\ list.current = p /\ list.head # p
  /\ isr80h_command9_exit \/ idt_handle_exception

FairSpec == Spec /\ \A p \in Procs : SF_vars(Ends(p))

-----------------------------------------------------------------------------
(* Properties *)

(* Every variable has its type.                                            *)
TypeOK ==
  /\ list \in [head : ProcOrNull, tail : ProcOrNull, current : ProcOrNull,
               next : [Procs -> ProcOrNull], prev : [Procs -> ProcOrNull]]
  /\ processes \in [Slots -> ProcOrNull]
  /\ current_process \in ProcOrNull
  /\ id \in [Procs -> Slots]
  /\ live \in SUBSET Procs
  /\ cr3 \in ProcOrNull
  /\ registers \in [Procs -> Procs]
  /\ cpu \in ProcOrNull
  /\ mode \in {"boot", "user", "panic", "wild"}

(* Whatever sequence of loads, failed loads, exits and exceptions happens, *)
(* the links of task.c stay those of one doubly linked list of exactly the *)
(* existing tasks: no link, and neither head, tail nor current_task, leads *)
(* to a freed thread_info.                                                 *)
Linked(l, ts) ==
  /\ l.head = NULL <=> ts = {}
  /\ l.tail = NULL <=> ts = {}
  /\ l.current = NULL <=> ts = {}
  /\ ts # {} => {l.head, l.tail, l.current} \subseteq ts
  /\ \A t \in ts :
       /\ l.next[t] = NULL <=> t = l.tail
       /\ l.prev[t] = NULL <=> t = l.head
       /\ l.next[t] # NULL => l.next[t] \in ts /\ l.prev[l.next[t]] = t
       /\ l.prev[t] # NULL => l.prev[t] \in ts /\ l.next[l.prev[t]] = t

ListIntegrity == Linked(list, live)

(* The table never holds a process that has ended or failed to load, nor   *)
(* one in a slot that is not its own, although process_unlink trusts an id *)
(* that is 0 until the load is over.                                       *)
NoDanglingSlot ==
  \A i \in Slots : processes[i] # NULL => processes[i] \in live /\ id[processes[i]] = i

(* User code runs only as the process both schedulers agree on, with its   *)
(* page directory loaded, and never on the directory of an ended one.      *)
UserBound ==
  mode = "user" => /\ list.current \in live
                   /\ current_process = list.current
                   /\ cr3 = list.current

(* The processor runs the registers of current_task, and the state saved   *)
(* in a task is its own: nobody resumes as somebody else.                  *)
ContextBound ==
  mode = "user" => cpu = list.current /\ \A t \in live : registers[t] = t

(* The table holds processes that exist, each in its own slot, and a load  *)
(* that fails costs slot 0 its process, and no other slot: every process   *)
(* whose id is not 0 can be found in the table as long as it has a task,   *)
(* whichever loads fail, so that no two of them share a slot.              *)
SlotsComplete ==
  /\ NoDanglingSlot
  /\ \A p \in live : id[p] # 0 => processes[id[p]] = p

(* The kernel panics for want of a process only when none is left          *)
(* (panic("No processes to switch to") in process_switch_to_any).          *)
PanicOnlyWhenEmpty == mode = "panic" => live = {}

(* The running task is the oldest or the newest one, whatever happened: a  *)
(* task between them does not run before the oldest has ended.             *)
RunsAtAnEnd == mode = "user" => list.current \in {list.head, list.tail}

(* The tasks in the order of the links, from the head.                     *)
Chain(l) ==
  LET walk[n \in 0 .. Cardinality(Procs)] ==
        IF n = 0 THEN IF l.head = NULL THEN <<>> ELSE <<l.head>>
        ELSE LET s == walk[n - 1]
             IN  IF s = <<>> \/ l.next[s[Len(s)]] = NULL THEN s
                 ELSE Append(s, l.next[s[Len(s)]])
  IN  walk[Cardinality(Procs)]

Queue == INSTANCE RunQueue WITH queue <- Chain(list), running <- list.current

(* The linked list of task.c is the queue of RunQueue: loads append and    *)
(* run at once, an end hands over to the next in order, failed loads and   *)
(* the other system calls change neither the order nor who runs.           *)
ImplementsRunQueue == Queue!Spec

(* A live process ends only by its own exit or exception: no load that     *)
(* fails, and no exit of another, takes it off the list.                   *)
OnlyTheRunnerEnds == [][\A p \in live : p \notin live' => p = list.current /\ p = cpu]_vars

(* Control always comes back to the oldest program, the shell, as long as  *)
(* the programs started from it end.                                       *)
HeadRegainsControl == []<>(mode # "user" \/ list.current = list.head)
=============================================================================
