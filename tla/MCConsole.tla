----------------------------- MODULE MCConsole ------------------------------
(***************************************************************************)
(* Rows of three cells, so that lines, erasures and numbers go over their  *)
(* ends; a line buffer of four and nodes of three, so that both fill up.   *)
(* Five keys are enough for an Enter to wait while a program ends that was *)
(* run after a command that failed.  A print without memory prints again   *)
(* what was printed last, here the newline.                                *)
(***************************************************************************)
EXTENDS Console

MCChars == {97, Space, Backspace, CR}
MCIntMin == -128
MCNumbers == {0, -10}
MCGarbage == {<<Newline>>}

=============================================================================
