------------------------------- MODULE MCHeap -------------------------------
(* Instance of Heap for TLC: five blocks of two bytes at address 2 of a    *)
(* 4-bit address space.  Every request size is explored (15 overflows when *)
(* rounded up), and every address is offered to kfree.                     *)
EXTENDS Heap

MCSizes == 0 .. WordMod - 1
MCPointers == 0 .. WordMod - 1
=============================================================================
