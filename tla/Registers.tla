----------------------------- MODULE Registers ------------------------------
(***************************************************************************)
(* The general purpose registers across entries into the kernel: pushad    *)
(* and popad of arch/x86/kernel/idt.asm, task_save_state (kernel/task.c)   *)
(* and restore_general_purpose_registers (arch/x86/kernel/task.asm), on    *)
(* top of Sched, whose cpu and registers stand for what iret loads (ip,    *)
(* cs, flags, esp, ss).                                                    *)
(*                                                                         *)
(* A value is named by the process and the register it belongs to, so that *)
(* one that turns up in another register or process can be told.           *)
(***************************************************************************)
EXTENDS Sched

VARIABLES saved,       \* task->registers, the general purpose ones
          general      \* those of the processor

rvars == <<vars, saved, general>>

GeneralRegisters == {"edi", "esi", "ebp", "ebx", "edx", "ecx", "eax"}

Own(p) == [r \in GeneralRegisters |-> <<p, r>>]

Junk == <<NULL, "memory">>       \* a word read through the process's own ebx
Kernel == <<NULL, "kernel">>     \* a value of the kernel
Result == <<NULL, "result">>     \* what a system call returned

(* Slip: the pointer is overwritten first.                                 *)
PointerFirst == <<"ebx", "edi", "esi", "ebp", "edx", "ecx", "eax">>

(* restore_general_purpose_registers loads in this order, through ebx.     *)
LoadOrder == <<"edi", "esi", "ebp", "ebx", "edx", "ecx", "eax">>

Place(r) == CHOOSE n \in 1 .. Len(LoadOrder) : LoadOrder[n] = r

(* What is in the registers after it: up to ebx they come from regs; the   *)
(* ones after it are read at the address the process had in ebx; and its   *)
(* last instruction pops its caller's ebp over the one just loaded.        *)
restore_general_purpose_registers(regs) ==
  [r \in GeneralRegisters |->
     IF r = "ebp" THEN Kernel
     ELSE IF Place(r) <= Place("ebx") THEN regs[r] ELSE Junk]

(* popad gives back what pushad pushed; isr80h_wrapper then sets eax.      *)
PopAll == general' = general
PopResult == general' = [general EXCEPT !["eax"] = Result]

task_save_state == [saved EXCEPT ![list.current] = general]

(* task_return to the process that is current after the step.              *)
Resume == general' = IF mode' = "user" THEN restore_general_purpose_registers(saved'[list'.current])
                     ELSE general

RInit ==
  /\ Init
  /\ saved = [p \in Procs |-> Own(p)]      \* kzalloc: any values, named as p's
  /\ general = [r \in GeneralRegisters |-> Kernel]

(* The entries, by the way they return.                                    *)
RBoot == (\E p \in Procs : BootOk(p)) /\ UNCHANGED saved /\ Resume

RStart ==
  \E p \in Procs :
    /\ \/ isr80h_command6_process_load_start(p)
       \/ isr80h_command7_invake_system_command(p)
    /\ saved' = [task_save_state EXCEPT ![p] = Own(p)]
    /\ IF task_return(p, registers') THEN Resume ELSE PopResult

REnd ==
  /\ isr80h_command9_exit \/ idt_handle_exception
  /\ saved' = [task_save_state EXCEPT ![list.current] = Own(list.current)]
  /\ Resume

RStartFails ==
  /\ \E p \in Procs, f \in Failures : StartFails(p, f)
  /\ saved' = task_save_state /\ PopResult

RSystemCall == isr80h_handler /\ saved' = task_save_state /\ PopResult

(* The keyboard's interrupt, through the wrapper of the interrupt macro.   *)
RInterrupt == isr80h_handler /\ saved' = task_save_state /\ PopAll

RHalt ==
  /\ \/ \E p \in Procs : StartWild(p)
     \/ \E p \in Procs, f \in Failures : BootFails(p, f)
     \/ Halted
  /\ UNCHANGED <<saved, general>>

RNext ==
  RBoot \/ RStart \/ REnd \/ RStartFails \/ RSystemCall \/ RInterrupt \/ RHalt

(* Programs other than the oldest end, as in FairSpec.                     *)
RSpec == RInit /\ [][RNext]_rvars /\ \A p \in Procs : SF_vars(Ends(p))

-----------------------------------------------------------------------------
(* Properties *)

(* The calling convention of C: a system call leaves edi, esi and ebx of   *)
(* its caller alone, also when other programs are started, run and end     *)
(* before the caller goes on.  (ebp is saved by the stubs of the programs' *)
(* library, kernel.asm; edx, ecx and eax, which task_return does lose, are *)
(* the callee's to lose.)                                                  *)
CalleeSaved ==
  mode = "user" => \A r \in {"edi", "esi", "ebx"} : general[r] = Own(list.current)[r]
=============================================================================
