------------------------------ MODULE Terminal ------------------------------
(***************************************************************************)
(* The text screen (lib/print.c) and numbers written on it (itoa of        *)
(* programs/stdlib/src/stdlib.c).  Characters are their codes.  A terminal *)
(* is the cursor and the cells written so far; the others are blank, as    *)
(* terminal_initialize left them.  Nothing scrolls: the row only grows.    *)
(***************************************************************************)
EXTENDS Integers, Sequences, SequencesExt

CONSTANTS
  Width,        \* VGA_WIDTH
  IntMin        \* INT_MIN

ASSUME TerminalAssumption == Width \in Nat \ {0} /\ IntMin \in Int /\ IntMin < 0

Newline == 10
Backspace == 8
Space == 32

terminal_initialize == [row |-> 0, col |-> 0, mem |-> <<>>]

Cursor(t) == t.row * Width + t.col
Cell(t, pos) == IF pos \in DOMAIN t.mem THEN t.mem[pos] ELSE Space

terminal_put_char(t, x, y, c) ==
  LET at == y * Width + x
      With(m) == [p \in DOMAIN m \cup {at} |-> IF p \in DOMAIN m THEN m[p] ELSE Space]
  IN  [t EXCEPT !.mem = [With(@) EXCEPT ![at] = c]]

(* Slip: an erasure does not go back over the end of a row.                *)
BackspaceInRow(t) ==
  IF t.col = 0 THEN t
  ELSE terminal_put_char([t EXCEPT !.col = @ - 1], t.col - 1, t.row, Space)

terminal_backspace(t) ==
  LET back == IF t.col = 0 THEN [t EXCEPT !.row = @ - 1, !.col = Width - 1]
              ELSE [t EXCEPT !.col = @ - 1]
  IN  IF t.col = 0 /\ t.row = 0 THEN t
      ELSE terminal_put_char(back, back.col, back.row, Space)

terminal_write_char(t, c) ==
  LET put == terminal_put_char(t, t.col, t.row, c)
  IN  CASE c = Newline -> [t EXCEPT !.row = @ + 1, !.col = 0]
        [] c = Backspace -> terminal_backspace(t)
        [] c \notin {Newline, Backspace} ->
             IF t.col + 1 = Width THEN [put EXCEPT !.row = @ + 1, !.col = 0]
             ELSE [put EXCEPT !.col = @ + 1]

terminal_print(t, str) ==
  LET after[n \in 0 .. Len(str)] ==
        IF n = 0 THEN t ELSE terminal_write_char(after[n - 1], str[n])
  IN  after[Len(str)]

(* The place and the message, here of one character, end with a newline.   *)
pr_err(t) == terminal_print(t, <<69, Newline>>)

-----------------------------------------------------------------------------
(* Numbers *)

(* Division and remainder of C round towards zero.                         *)
Quot(a, b) == IF a >= 0 THEN a \div b ELSE -((-a) \div b)
Rem(a, b) == a - b * Quot(a, b)

(* The characters of val, from its last digit on; a negative one gives     *)
(* characters below 0.                                                     *)
Digits[val \in Int] ==
  IF val = 0 THEN <<>> ELSE Append(Digits[Quot(val, 10)], 48 + Rem(val, 10))

(* Slip: nothing is written for 0.                                         *)
ItoaNoZero(val) ==
  LET abs == IF val < 0 /\ val # IntMin THEN -val ELSE val
  IN  (IF val < 0 THEN <<45>> ELSE <<>>) \o Digits[abs]

(* -INT_MIN is INT_MIN.                                                    *)
itoa(val) ==
  LET abs == IF val < 0 /\ val # IntMin THEN -val ELSE val
      digits == IF val = 0 THEN <<48>> ELSE Digits[abs]
  IN  (IF val < 0 THEN <<45>> ELSE <<>>) \o digits

(* The reference: the number that a numeral denotes.                       *)
ValueOf(str) ==
  LET digits == IF str # <<>> /\ str[1] = 45 THEN Tail(str) ELSE str
      value[n \in 0 .. Len(digits)] ==
        IF n = 0 THEN 0 ELSE 10 * value[n - 1] + (digits[n] - 48)
      abs == value[Len(digits)]
  IN  IF digits # str THEN -abs ELSE abs

IsNumeral(str) ==
  LET digits == IF str # <<>> /\ str[1] = 45 THEN Tail(str) ELSE str
  IN  /\ digits # <<>>
      /\ \A n \in DOMAIN digits : digits[n] \in 48 .. 57
      /\ Len(digits) > 1 => digits[1] # 48

=============================================================================
