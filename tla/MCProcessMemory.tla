-------------------------- MODULE MCProcessMemory --------------------------
(***************************************************************************)
(* Bounds for ProcessMemory: two processes at a time, each started any     *)
(* number of times until the task_structs that stay have used up the heap. *)
(***************************************************************************)
EXTENDS ProcessMemory, TLC

CONSTANTS p1, p2

Symmetric == Permutations(Procs)

=============================================================================
