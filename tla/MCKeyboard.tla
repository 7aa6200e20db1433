----------------------------- MODULE MCKeyboard -----------------------------
(* A table of three keys: none, 'a' and caps lock.  Scancode 3 is the one  *)
(* just past it, 4 is out of range and 130 a release.  The byte after the  *)
(* table is 0 or a character.                                              *)
EXTENDS Keyboard, TLC

Symmetry == Permutations(Procs)

MCScanSet == [s \in 0 .. 2 |-> IF s = 1 THEN 97 ELSE 0]
MCAfterTable == {0, 65}
MCScancodes == {0, 1, 2, 3, 4, 130}
=============================================================================
