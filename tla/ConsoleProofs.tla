---------------------------- MODULE ConsoleProofs ---------------------------
(***************************************************************************)
(* Proofs about the shell at work, its screen and its numbers.             *)
(*                                                                         *)
(* terminal_print, Digits, ValueOf and Session are recursive functions, so *)
(* the first part shows that such definitions have solutions, by looking   *)
(* at a lowest counterexample.  The second part is about the screen, the   *)
(* third about numerals, the fourth about what was typed; the invariant    *)
(* IInv ties the queue, the buffer, the screen and the words together.     *)
(***************************************************************************)
EXTENDS Console, SequenceTheorems, WellFoundedInduction, TLAPS

-----------------------------------------------------------------------------
(* Recursive definitions *)

(* A set of numbers has a lowest one.                                      *)
LEMMA LowestOf ==
  ASSUME NEW S, S \subseteq Nat, S # {}
  PROVE  \E k \in S : \A n \in S : k <= n
<1> DEFINE R == OpToRel(<, Nat)
<1>1. IsWellFoundedOn(R, Nat) BY NatLessThanWellFounded, Zenon
<1>2. \A x, y \in Nat : x < y => <<x, y>> \in R BY DEF OpToRel
<1> HIDE DEF R
<1>3. PICK k \in S : \A n \in S : ~(<<n, k>> \in R) BY <1>1, WFMin, Zenon
<1>4. ASSUME NEW n \in S PROVE k <= n
  <2>1. k \in Nat /\ n \in Nat /\ ~(n < k) BY <1>2, <1>3
  <2> QED BY <2>1
<1> QED BY <1>4

(* f follows the recursion on the elements of rank at most n.              *)
Follows(f, n, D, rank, pred, base, step) ==
  \A d \in D : rank[d] <= n =>
    f[d] = IF rank[d] = 0 THEN base ELSE step[<<d, f[pred[d]]>>]

GoesDown(D, rank, pred) == \A d \in D : rank[d] # 0 => rank[pred[d]] < rank[d]

Agree(f, g, n, D, rank) == \A d \in D : rank[d] <= n => f[d] = g[d]

Solves(f, D, rank, pred, base, step) ==
  \A d \in D : f[d] = IF rank[d] = 0 THEN base ELSE step[<<d, f[pred[d]]>>]

LEMMA FollowsUnique ==
  ASSUME NEW D, NEW rank \in [D -> Nat], NEW pred \in [D -> D], NEW base, NEW step,
         GoesDown(D, rank, pred), NEW n \in Nat, NEW f, NEW g,
         Follows(f, n, D, rank, pred, base, step), Follows(g, n, D, rank, pred, base, step)
  PROVE  Agree(f, g, n, D, rank)
<1> DEFINE W == {d \in D : rank[d] <= n /\ f[d] # g[d]}
           R == {rank[d] : d \in W}
<1> SUFFICES ASSUME W # {} PROVE FALSE BY DEF Agree
<1>1. R \subseteq Nat /\ R # {} OBVIOUS
<1>2. PICK k \in R : \A h \in R : k <= h
  <2> HIDE DEF R
  <2> QED BY <1>1, LowestOf
<1>3. PICK d \in W : rank[d] = k OBVIOUS
<1>4. d \in D /\ rank[d] \in Nat /\ rank[d] <= n /\ f[d] # g[d] BY <1>3
<1>5. rank[d] # 0
  <2>1. rank[d] = 0 => f[d] = base /\ g[d] = base BY <1>4 DEF Follows
  <2> QED BY <1>4, <2>1
<1>6. pred[d] \in D /\ rank[pred[d]] < rank[d] /\ rank[pred[d]] \in Nat
  BY <1>4, <1>5 DEF GoesDown
<1>7. f[pred[d]] # g[pred[d]]
  <2>1. f[d] = step[<<d, f[pred[d]]>>] BY <1>4, <1>5 DEF Follows
  <2>2. g[d] = step[<<d, g[pred[d]]>>] BY <1>4, <1>5 DEF Follows
  <2> QED BY <1>4, <2>1, <2>2
<1>8. rank[pred[d]] \in R BY <1>4, <1>6, <1>7
<1> HIDE DEF R, W
<1> QED BY <1>2, <1>3, <1>4, <1>6, <1>8

(* A recursion that goes down in rank has a solution.                      *)
LEMMA RecursionExists ==
  ASSUME NEW D, NEW S, NEW rank \in [D -> Nat], NEW pred \in [D -> D],
         NEW base \in S, NEW step \in [D \X S -> S], GoesDown(D, rank, pred)
  PROVE  \E f \in [D -> S] : Solves(f, D, rank, pred, base, step)
<1> DEFINE F(f, n) == Follows(f, n, D, rank, pred, base, step)
           Missing == {n \in Nat : ~ \E f \in [D -> S] : F(f, n)}
<1>1. ASSUME Missing # {} PROVE FALSE
  <2>1. PICK n \in Missing : \A h \in Missing : n <= h
    <3>1. Missing \subseteq Nat OBVIOUS
    <3> HIDE DEF Missing
    <3> QED BY <1>1, <3>1, LowestOf
  <2>2. CASE n = 0
    <3> DEFINE g == [d \in D |-> base]
    <3>1. g \in [D -> S] OBVIOUS
    <3>2. \A d \in D : rank[d] <= 0 => rank[d] = 0 OBVIOUS
    <3>3. F(g, 0) BY <3>2 DEF Follows
    <3> QED BY <2>2, <3>1, <3>3
  <2>3. CASE n # 0
    <3>1. n \in Nat /\ n - 1 \in Nat /\ n - 1 \notin Missing BY <2>1, <2>3
    <3>2. PICK g \in [D -> S] : F(g, n - 1) BY <3>1
    <3> DEFINE h == [d \in D |-> IF rank[d] = 0 THEN base ELSE step[<<d, g[pred[d]]>>]]
    <3>3. h \in [D -> S] OBVIOUS
    <3>4. ASSUME NEW d \in D, rank[d] <= n - 1 PROVE h[d] = g[d] BY <3>2, <3>4 DEF Follows
    <3>5. ASSUME NEW d \in D, rank[d] <= n, rank[d] # 0 PROVE h[pred[d]] = g[pred[d]]
      <4>1. pred[d] \in D /\ rank[pred[d]] < rank[d] /\ rank[d] \in Nat /\ rank[pred[d]] \in Nat
        BY <3>5 DEF GoesDown
      <4>2. rank[pred[d]] <= n - 1 BY <3>1, <3>5, <4>1
      <4> HIDE DEF h
      <4> QED BY <3>4, <4>1, <4>2
    <3>6. \A d \in D : h[d] = IF rank[d] = 0 THEN base ELSE step[<<d, g[pred[d]]>>] OBVIOUS
    <3> HIDE DEF h
    <3>7. F(h, n) BY <3>5, <3>6 DEF Follows
    <3> QED BY <2>1, <3>3, <3>7
  <2> QED BY <2>2, <2>3
<1> HIDE DEF F
<1>2. \A n \in Nat : \E f \in [D -> S] : F(f, n) BY <1>1
<1> HIDE DEF Missing
<1> DEFINE g == [n \in Nat |-> CHOOSE f \in [D -> S] : F(f, n)]
<1>3. \A n \in Nat : g[n] \in [D -> S] /\ F(g[n], n) BY <1>2
<1> HIDE DEF g
<1> DEFINE f == [d \in D |-> g[rank[d]][d]]
<1>4. f \in [D -> S] BY <1>3
<1>5. ASSUME NEW d \in D PROVE f[d] = IF rank[d] = 0 THEN base ELSE step[<<d, f[pred[d]]>>]
  <2>1. f[d] = g[rank[d]][d] /\ rank[d] \in Nat OBVIOUS
  <2>2. F(g[rank[d]], rank[d]) BY <1>3, <2>1
  <2>3. g[rank[d]][d] = IF rank[d] = 0 THEN base ELSE step[<<d, g[rank[d]][pred[d]]>>]
    BY <2>1, <2>2 DEF F, Follows
  <2>4. ASSUME rank[d] # 0 PROVE g[rank[d]][pred[d]] = f[pred[d]]
    <3> DEFINE e == pred[d]
               a == rank[d]
               b == rank[e]
    <3>1. e \in D /\ b < a /\ a \in Nat /\ b \in Nat BY <2>4 DEF GoesDown
    <3>2. f[e] = g[b][e] BY <3>1
    <3>3. F(g[b], b) /\ F(g[a], a) BY <1>3, <3>1
    <3>4. F(g[a], b)
      <4>1. ASSUME NEW c \in D, rank[c] <= b PROVE rank[c] <= a
        <5>1. rank[c] \in Nat OBVIOUS
        <5> HIDE DEF a, b
        <5> QED BY <3>1, <4>1, <5>1
      <4> QED BY <3>3, <4>1 DEF F, Follows
    <3>5. Agree(g[a], g[b], b, D, rank)
      <4>1. Follows(g[a], b, D, rank, pred, base, step) /\ Follows(g[b], b, D, rank, pred, base, step)
        BY <3>3, <3>4 DEF F
      <4> HIDE DEF a, b, e
      <4> QED BY <3>1, <4>1, FollowsUnique
    <3>6. g[a][e] = g[b][e] BY <3>1, <3>5 DEF Agree
    <3> QED BY <3>2, <3>6
  <2> HIDE DEF f
  <2> QED BY <2>1, <2>3, <2>4
<1> HIDE DEF f
<1> QED BY <1>4, <1>5 DEF Solves

(* Along a sequence.                                                       *)
RunsAlong(f, N, base, step) ==
  \A n \in 0 .. N : f[n] = IF n = 0 THEN base ELSE step[<<n, f[n - 1]>>]

LEMMA SequenceRecursion ==
  ASSUME NEW N \in Nat, NEW S, NEW base \in S, NEW step \in [(1 .. N) \X S -> S]
  PROVE  \E f \in [0 .. N -> S] : RunsAlong(f, N, base, step)
<1> DEFINE D == 0 .. N
           rank == [n \in D |-> n]
           pred == [n \in D |-> IF n = 0 THEN 0 ELSE n - 1]
           stp == [x \in D \X S |-> IF x[1] = 0 THEN base ELSE step[x]]
<1>1. rank \in [D -> Nat] /\ pred \in [D -> D] OBVIOUS
<1>2. stp \in [D \X S -> S]
  <2>1. ASSUME NEW n \in D, NEW s \in S, n # 0 PROVE step[<<n, s>>] \in S
    <3>1. n \in 1 .. N BY <2>1
    <3>2. <<n, s>> \in (1 .. N) \X S BY <3>1
    <3> QED BY <3>2
  <2>2. ASSUME NEW x \in D \X S PROVE (IF x[1] = 0 THEN base ELSE step[x]) \in S
    <3>1. x[1] \in D /\ x[2] \in S /\ x = <<x[1], x[2]>> OBVIOUS
    <3> QED BY <2>1, <3>1
  <2> QED BY <2>2
<1>3. \A n \in D : n # 0 => pred[n] < n /\ rank[n] = n /\ rank[pred[n]] = pred[n] OBVIOUS
<1>4. PICK f \in [D -> S] : Solves(f, D, rank, pred, base, stp)
  <2>1. GoesDown(D, rank, pred) BY <1>3 DEF GoesDown
  <2> HIDE DEF rank, pred, stp, D
  <2> QED BY <1>1, <1>2, <2>1, RecursionExists
<1>5. ASSUME NEW n \in D PROVE f[n] = IF n = 0 THEN base ELSE step[<<n, f[n - 1]>>]
  <2>1. CASE n = 0 BY <1>4, <2>1 DEF Solves
  <2>2. CASE n # 0
    <3>1. n - 1 \in D /\ rank[n] = n /\ pred[n] = n - 1 BY <2>2
    <3>2. stp[<<n, f[n - 1]>>] = step[<<n, f[n - 1]>>] BY <2>2, <3>1
    <3>3. f[n] = stp[<<n, f[n - 1]>>] BY <1>4, <2>2, <3>1 DEF Solves
    <3> QED BY <2>2, <3>2, <3>3
  <2> QED BY <2>1, <2>2
<1> QED BY <1>5 DEF RunsAlong

-----------------------------------------------------------------------------
(* The screen *)

Screens == UNION {[D -> Int] : D \in SUBSET Nat}
Terminals == [row : Nat, col : 0 .. Width - 1, mem : Screens]

LEMMA PutCell ==
  ASSUME NEW m \in Screens, NEW p \in Nat, NEW c \in Int
  PROVE  [q \in DOMAIN m \cup {p} |-> IF q = p THEN c ELSE m[q]] \in Screens
<1>1. PICK D \in SUBSET Nat : m \in [D -> Int] BY DEF Screens
<1>2. [q \in DOMAIN m \cup {p} |-> IF q = p THEN c ELSE m[q]] \in [D \cup {p} -> Int] BY <1>1
<1> QED BY <1>2 DEF Screens

LEMMA CellPosition ==
  ASSUME NEW x \in Nat, NEW y \in Nat
  PROVE  y * Width + x \in Nat
BY TerminalAssumption

(* u is t with the cursor elsewhere, and t with another character in one   *)
(* cell.                                                                   *)
Moves(t, u, row, col) ==
  /\ u \in Terminals /\ u.row = row /\ u.col = col
  /\ \A q \in Nat : Cell(u, q) = Cell(t, q)

Puts(t, u, p, c) ==
  /\ u \in Terminals /\ u.row = t.row /\ u.col = t.col
  /\ \A q \in Nat : Cell(u, q) = IF q = p THEN c ELSE Cell(t, q)

LEMMA MoveTo ==
  ASSUME NEW t \in Terminals, NEW row \in Nat, NEW col \in 0 .. Width - 1
  PROVE  /\ Moves(t, [t EXCEPT !.row = row, !.col = col], row, col)
         /\ Moves(t, [t EXCEPT !.col = col], t.row, col)
<1> DEFINE u == [t EXCEPT !.row = row, !.col = col]
           v == [t EXCEPT !.col = col]
<1>1. u \in Terminals /\ u.row = row /\ u.col = col /\ u.mem = t.mem BY DEF Terminals
<1>2. v \in Terminals /\ v.row = t.row /\ v.col = col /\ v.mem = t.mem BY DEF Terminals
<1> HIDE DEF u, v
<1>3. Moves(t, u, row, col) BY <1>1 DEF Moves, Cell
<1>4. Moves(t, v, t.row, col) BY <1>2 DEF Moves, Cell
<1> QED BY <1>3, <1>4 DEF u, v

LEMMA PutChar ==
  ASSUME NEW t \in Terminals, NEW x \in 0 .. Width - 1, NEW y \in Nat, NEW c \in Int
  PROVE  Puts(t, terminal_put_char(t, x, y, c), y * Width + x, c)
<1> DEFINE q == y * Width + x
           m == [p \in DOMAIN t.mem \cup {q} |-> IF p = q THEN c ELSE t.mem[p]]
           w == [p \in DOMAIN t.mem \cup {q} |-> IF p \in DOMAIN t.mem THEN t.mem[p] ELSE Space]
<1>1. q \in Nat BY CellPosition, TerminalAssumption
<1>2. terminal_put_char(t, x, y, c) = [t EXCEPT !.mem = m]
  <2>1. terminal_put_char(t, x, y, c) = [t EXCEPT !.mem = [w EXCEPT ![q] = c]]
    BY DEF terminal_put_char
  <2>2. [w EXCEPT ![q] = c] = m
    <3> HIDE DEF q
    <3> QED OBVIOUS
  <2> HIDE DEF w, m
  <2> QED BY <2>1, <2>2
<1>3. m \in Screens
  <2>1. t.mem \in Screens BY DEF Terminals
  <2> HIDE DEF q
  <2> QED BY <1>1, <2>1, PutCell
<1>4. \A p \in Nat : /\ p \in DOMAIN m <=> p = q \/ p \in DOMAIN t.mem
                     /\ p \in DOMAIN m => m[p] = IF p = q THEN c ELSE t.mem[p]
  <2> HIDE DEF q
  <2> QED OBVIOUS
<1> HIDE DEF m, q
<1>5. /\ [t EXCEPT !.mem = m] \in Terminals /\ [t EXCEPT !.mem = m].mem = m
      /\ [t EXCEPT !.mem = m].row = t.row /\ [t EXCEPT !.mem = m].col = t.col
  BY <1>3 DEF Terminals
<1>6. \A p \in Nat : Cell([t EXCEPT !.mem = m], p) = IF p = q THEN c ELSE Cell(t, p)
  BY <1>4, <1>5 DEF Cell
<1> QED BY <1>2, <1>5, <1>6 DEF q, Puts

(* From t to u the cursor moves to k, and the cell at p becomes c.         *)
Writes(t, u, k, p, c) ==
  /\ u \in Terminals
  /\ Cursor(u) = k
  /\ \A q \in Nat : Cell(u, q) = IF q = p THEN c ELSE Cell(t, q)

LEMMA CursorNat ==
  ASSUME NEW t \in Terminals
  PROVE  Cursor(t) \in Nat
<1>1. t.row \in Nat /\ t.col \in Nat BY TerminalAssumption DEF Terminals
<1> QED BY <1>1, CellPosition DEF Cursor

LEMMA NextRow ==
  ASSUME NEW y \in Int
  PROVE  y * Width \in Int /\ (y + 1) * Width = y * Width + Width /\ (y - 1) * Width = y * Width - Width
BY TerminalAssumption

LEMMA WritePlain ==
  ASSUME NEW t \in Terminals, NEW c \in Int, c # Newline, c # Backspace
  PROVE  Writes(t, terminal_write_char(t, c), Cursor(t) + 1, Cursor(t), c)
<1> DEFINE put == terminal_put_char(t, t.col, t.row, c)
<1>1. terminal_write_char(t, c) = IF t.col + 1 = Width THEN [put EXCEPT !.row = put.row + 1, !.col = 0]
                                  ELSE [put EXCEPT !.col = put.col + 1]
  BY DEF terminal_write_char
<1>2. t.row \in Nat /\ t.col \in 0 .. Width - 1 /\ Width \in Nat /\ t.row * Width \in Int
  BY TerminalAssumption, NextRow DEF Terminals
<1>3. Puts(t, put, Cursor(t), c) BY <1>2, PutChar DEF Cursor
<1> HIDE DEF put
<1>4. put \in Terminals /\ put.row = t.row /\ put.col = t.col BY <1>3 DEF Puts
<1>5. CASE t.col + 1 = Width
  <2> DEFINE u == [put EXCEPT !.row = put.row + 1, !.col = 0]
  <2>1. Moves(put, u, put.row + 1, 0)
    <3>1. put.row + 1 \in Nat /\ 0 \in 0 .. Width - 1 BY <1>2, <1>4
    <3> QED BY <1>4, <3>1, MoveTo
  <2>2. terminal_write_char(t, c) = u BY <1>1, <1>5
  <2> HIDE DEF u
  <2>3. (t.row + 1) * Width = t.row * Width + Width BY <1>2, NextRow
  <2>4. Cursor(u) = Cursor(t) + 1 BY <1>2, <1>4, <1>5, <2>1, <2>3 DEF Moves, Cursor
  <2> QED BY <1>3, <2>1, <2>2, <2>4 DEF Moves, Puts, Writes
<1>6. CASE t.col + 1 # Width
  <2> DEFINE u == [put EXCEPT !.col = put.col + 1]
  <2>1. Moves(put, u, put.row, put.col + 1)
    <3>1. put.row \in Nat /\ put.col + 1 \in 0 .. Width - 1 BY <1>2, <1>4, <1>6
    <3> QED BY <1>4, <3>1, MoveTo
  <2>2. terminal_write_char(t, c) = u BY <1>1, <1>6
  <2> HIDE DEF u
  <2>4. Cursor(u) = Cursor(t) + 1 BY <1>2, <1>4, <2>1 DEF Moves, Cursor
  <2> QED BY <1>3, <2>1, <2>2, <2>4 DEF Moves, Puts, Writes
<1> QED BY <1>5, <1>6

LEMMA WriteBackspace ==
  ASSUME NEW t \in Terminals, Cursor(t) # 0
  PROVE  Writes(t, terminal_write_char(t, Backspace), Cursor(t) - 1, Cursor(t) - 1, Space)
<1> DEFINE back == IF t.col = 0 THEN [t EXCEPT !.row = t.row - 1, !.col = Width - 1]
                   ELSE [t EXCEPT !.col = t.col - 1]
           u == terminal_put_char(back, back.col, back.row, Space)
<1>1. t.row \in Nat /\ t.col \in 0 .. Width - 1 /\ Width \in Nat \ {0} /\ t.row * Width \in Int
  BY TerminalAssumption, NextRow DEF Terminals
<1>2. ~(t.col = 0 /\ t.row = 0) BY <1>1 DEF Cursor
<1>3. terminal_write_char(t, Backspace) = u
  BY <1>2 DEF terminal_write_char, terminal_backspace, Newline, Backspace
<1>4. /\ back \in Terminals /\ Cursor(back) = Cursor(t) - 1
      /\ \A p \in Nat : Cell(back, p) = Cell(t, p)
  <2>1. CASE t.col = 0
    <3>1. t.row - 1 \in Nat /\ Width - 1 \in 0 .. Width - 1 BY <1>1, <1>2, <2>1
    <3>2. back = [t EXCEPT !.row = t.row - 1, !.col = Width - 1] BY <2>1
    <3> HIDE DEF back
    <3>3. Moves(t, back, t.row - 1, Width - 1) BY <3>1, <3>2, MoveTo
    <3>4. (t.row - 1) * Width = t.row * Width - Width BY <1>1, NextRow
    <3>5. Cursor(back) = Cursor(t) - 1 BY <1>1, <2>1, <3>3, <3>4 DEF Moves, Cursor
    <3> QED BY <3>3, <3>5 DEF Moves
  <2>2. CASE t.col # 0
    <3>1. t.row \in Nat /\ t.col - 1 \in 0 .. Width - 1 BY <1>1, <2>2
    <3>2. back = [t EXCEPT !.col = t.col - 1] BY <2>2
    <3> HIDE DEF back
    <3>3. Moves(t, back, t.row, t.col - 1) BY <3>1, <3>2, MoveTo
    <3>4. Cursor(back) = Cursor(t) - 1 BY <1>1, <3>3 DEF Moves, Cursor
    <3> QED BY <3>3, <3>4 DEF Moves
  <2> QED BY <2>1, <2>2
<1> HIDE DEF back
<1>5. Puts(back, u, Cursor(back), Space)
  <2>1. back.row \in Nat /\ back.col \in 0 .. Width - 1 /\ Space \in Int BY <1>4 DEF Terminals, Space
  <2> QED BY <1>4, <2>1, PutChar DEF Cursor
<1> HIDE DEF u
<1>6. Cursor(u) = Cursor(back) BY <1>5 DEF Puts, Cursor
<1> QED BY <1>3, <1>4, <1>5, <1>6 DEF Puts, Writes

(* A newline only moves the cursor on.                                     *)
LEMMA WriteNewline ==
  ASSUME NEW t \in Terminals
  PROVE  /\ terminal_write_char(t, Newline) \in Terminals
         /\ Cursor(terminal_write_char(t, Newline)) > Cursor(t)
         /\ \A p \in Nat : Cell(terminal_write_char(t, Newline), p) = Cell(t, p)
<1> DEFINE u == [t EXCEPT !.row = t.row + 1, !.col = 0]
<1>1. t.row \in Nat /\ t.col \in 0 .. Width - 1 /\ Width \in Nat \ {0} /\ t.row * Width \in Int
  BY TerminalAssumption, NextRow DEF Terminals
<1>2. terminal_write_char(t, Newline) = u BY DEF terminal_write_char, Newline, Backspace
<1>3. Moves(t, u, t.row + 1, 0)
  <2>1. t.row + 1 \in Nat /\ 0 \in 0 .. Width - 1 BY <1>1
  <2> QED BY <2>1, MoveTo
<1> HIDE DEF u
<1>4. (t.row + 1) * Width = t.row * Width + Width BY <1>1, NextRow
<1>5. Cursor(u) > Cursor(t) BY <1>1, <1>3, <1>4 DEF Moves, Cursor
<1> QED BY <1>2, <1>3, <1>5 DEF Moves

(* There is nothing to erase before the first cell.                        *)
LEMMA BackspaceAtStart ==
  ASSUME NEW t \in Terminals, Cursor(t) = 0
  PROVE  terminal_write_char(t, Backspace) = t
<1>1. t.row \in Nat /\ t.col \in 0 .. Width - 1 /\ Width \in Nat \ {0} BY TerminalAssumption DEF Terminals
<1>2. t.row * Width \in Nat BY <1>1
<1>3. t.col = 0 /\ t.row * Width = 0 BY <1>1, <1>2 DEF Cursor
<1>4. t.row = 0
  <2>1. t.row # 0 => t.row >= 1 /\ t.row * Width >= Width BY <1>1
  <2> QED BY <1>1, <1>3, <2>1
<1> QED BY <1>3, <1>4 DEF terminal_write_char, terminal_backspace, Newline, Backspace

LEMMA WriteType ==
  ASSUME NEW t \in Terminals, NEW c \in Int
  PROVE  terminal_write_char(t, c) \in Terminals
<1>1. CASE c = Newline BY <1>1, WriteNewline
<1>2. CASE c = Backspace
  <2>1. CASE Cursor(t) # 0 BY <1>2, <2>1, WriteBackspace DEF Writes
  <2>2. CASE Cursor(t) = 0 BY <1>2, <2>2, BackspaceAtStart
  <2> QED BY <2>1, <2>2
<1>3. CASE c # Newline /\ c # Backspace BY <1>3, WritePlain DEF Writes
<1> QED BY <1>1, <1>2, <1>3

(* terminal_print is the last of the terminals it goes through.            *)
Prints(f, t, str) ==
  \A n \in 0 .. Len(str) : f[n] = IF n = 0 THEN t ELSE terminal_write_char(f[n - 1], str[n])

LEMMA PrintRuns ==
  ASSUME NEW t \in Terminals, NEW str \in Seq(Int)
  PROVE  \E f \in [0 .. Len(str) -> Terminals] : Prints(f, t, str) /\ terminal_print(t, str) = f[Len(str)]
<1> DEFINE N == Len(str)
           G(f) == [n \in 0 .. N |-> IF n = 0 THEN t ELSE terminal_write_char(f[n - 1], str[n])]
           step == [x \in (1 .. N) \X Terminals |-> terminal_write_char(x[2], str[x[1]])]
<1>1. terminal_print(t, str) = (CHOOSE f : f = G(f))[N] BY DEF terminal_print
<1>2. step \in [(1 .. N) \X Terminals -> Terminals]
  <2>1. ASSUME NEW x \in (1 .. N) \X Terminals
        PROVE  terminal_write_char(x[2], str[x[1]]) \in Terminals
    <3>1. x[2] \in Terminals /\ str[x[1]] \in Int OBVIOUS
    <3> QED BY <3>1, WriteType
  <2> QED BY <2>1
<1>3. N \in Nat OBVIOUS
<1>4. PICK f \in [0 .. N -> Terminals] : RunsAlong(f, N, t, step)
  <2> HIDE DEF step, N
  <2> QED BY <1>2, <1>3, SequenceRecursion
<1>5. Prints(f, t, str)
  <2>1. ASSUME NEW n \in 0 .. N, n # 0 PROVE step[<<n, f[n - 1]>>] = terminal_write_char(f[n - 1], str[n])
    <3>1. n \in 1 .. N /\ n - 1 \in 0 .. N BY <2>1
    <3>2. <<n, f[n - 1]>> \in (1 .. N) \X Terminals BY <3>1
    <3> QED BY <3>2
  <2> HIDE DEF step
  <2> QED BY <1>4, <2>1 DEF Prints, RunsAlong
<1>6. f = G(f)
  <2>1. \A n \in 0 .. N : f[n] = G(f)[n] BY <1>5 DEF Prints
  <2>2. f = [n \in 0 .. N |-> f[n]] OBVIOUS
  <2> QED BY <2>1, <2>2
<1> DEFINE g == CHOOSE h : h = G(h)
<1>7. g = G(g) BY <1>6
<1> HIDE DEF g
<1>8. /\ \A n \in 0 .. N : g[n] = IF n = 0 THEN t ELSE terminal_write_char(g[n - 1], str[n])
      /\ g = [n \in 0 .. N |-> g[n]]
  BY <1>7
<1>9. Prints(g, t, str) BY <1>8 DEF Prints
<1>10. g \in [0 .. N -> Terminals]
  <2> DEFINE Bad == {n \in 0 .. N : g[n] \notin Terminals}
  <2>1. CASE Bad # {}
    <3>1. PICK n \in Bad : \A h \in Bad : n <= h
      <4>1. Bad \subseteq Nat OBVIOUS
      <4> HIDE DEF Bad
      <4> QED BY <2>1, <4>1, LowestOf
    <3>2. n \in 0 .. N /\ g[n] \notin Terminals BY <3>1
    <3>3. n # 0 BY <1>8, <3>2
    <3>4. n - 1 \in 0 .. N /\ n - 1 \notin Bad /\ str[n] \in Int BY <1>3, <3>1, <3>2, <3>3
    <3>5. g[n - 1] \in Terminals BY <3>4
    <3>6. g[n] = terminal_write_char(g[n - 1], str[n]) BY <1>8, <3>2, <3>3
    <3> QED BY <3>2, <3>4, <3>5, <3>6, WriteType
  <2>2. CASE Bad = {}
    <3>1. \A n \in 0 .. N : g[n] \in Terminals BY <2>2
    <3> QED BY <1>8, <3>1
  <2> QED BY <2>1, <2>2
<1>11. terminal_print(t, str) = g[N] BY <1>1 DEF g
<1> QED BY <1>9, <1>10, <1>11

LEMMA PrintOne ==
  ASSUME NEW t \in Terminals, NEW c \in Int
  PROVE  terminal_print(t, <<c>>) = terminal_write_char(t, c)
<1>1. <<c>> \in Seq(Int) /\ Len(<<c>>) = 1 /\ <<c>>[1] = c OBVIOUS
<1>2. PICK f \in [0 .. 1 -> Terminals] : Prints(f, t, <<c>>) /\ terminal_print(t, <<c>>) = f[1]
  BY <1>1, PrintRuns
<1>3. f[0] = t BY <1>1, <1>2 DEF Prints
<1>4. f[1] = terminal_write_char(f[0], c) BY <1>1, <1>2 DEF Prints
<1> QED BY <1>2, <1>3, <1>4

(* A string without newlines and erasures goes onto the screen cell by     *)
(* cell, over the ends of rows.                                            *)
Plain(str) == \A n \in 1 .. Len(str) : str[n] # Newline /\ str[n] # Backspace

Wrote(t, u, str, n) ==
  /\ u \in Terminals
  /\ Cursor(u) = Cursor(t) + n
  /\ \A q \in Nat : q < Cursor(t) \/ q >= Cursor(t) + n => Cell(u, q) = Cell(t, q)
  /\ \A j \in 1 .. n : Cell(u, Cursor(t) + j - 1) = str[j]

LEMMA PrintPlain ==
  ASSUME NEW t \in Terminals, NEW str \in Seq(Int), Plain(str)
  PROVE  Wrote(t, terminal_print(t, str), str, Len(str))
<1> DEFINE N == Len(str)
           k == Cursor(t)
<1>1. PICK f \in [0 .. N -> Terminals] : Prints(f, t, str) /\ terminal_print(t, str) = f[N]
  BY PrintRuns
<1>2. N \in Nat /\ k \in Nat BY CursorNat
<1> DEFINE Bad == {n \in 0 .. N : ~Wrote(t, f[n], str, n)}
<1>3. ASSUME Bad # {} PROVE FALSE
  <2>1. PICK n \in Bad : \A h \in Bad : n <= h
    <3>1. Bad \subseteq Nat BY <1>2
    <3> HIDE DEF Bad
    <3> QED BY <1>3, <3>1, LowestOf
  <2>2. n \in 0 .. N /\ ~Wrote(t, f[n], str, n) BY <2>1
  <2>3. CASE n = 0
    <3>1. f[0] = t BY <1>1, <1>2, <2>2 DEF Prints
    <3>2. Wrote(t, t, str, 0) BY <1>2 DEF Wrote
    <3> QED BY <2>2, <2>3, <3>1, <3>2
  <2>4. CASE n # 0
    <3> DEFINE m == n - 1
               v == f[m]
               u == f[n]
    <3>1. m \in 0 .. N /\ m \in Nat /\ n \in 1 .. N /\ m \notin Bad /\ n = m + 1 BY <1>2, <2>1, <2>2, <2>4
    <3>2. Wrote(t, v, str, m) BY <3>1
    <3>3. u = terminal_write_char(v, str[n]) BY <1>1, <2>2, <2>4 DEF Prints
    <3>4. v \in Terminals /\ str[n] \in Int /\ str[n] # Newline /\ str[n] # Backspace
      BY <3>1 DEF Plain
    <3> HIDE DEF u, v, m
    <3>5. Writes(v, u, Cursor(v) + 1, Cursor(v), str[n]) BY <3>3, <3>4, WritePlain
    <3> HIDE DEF k
    <3>6. Cursor(v) = k + m /\ Cursor(u) = k + n BY <1>2, <3>1, <3>2, <3>5 DEF Wrote, Writes, k
    <3>7. \A q \in Nat : Cell(u, q) = IF q = k + m THEN str[n] ELSE Cell(v, q) BY <3>5, <3>6 DEF Writes
    <3>8. ASSUME NEW q \in Nat, q < k \/ q >= k + n PROVE Cell(u, q) = Cell(t, q)
      <4>1. q # k + m /\ (q < k \/ q >= k + m) BY <1>2, <3>1, <3>8
      <4>2. Cell(v, q) = Cell(t, q) BY <3>2, <4>1 DEF Wrote, k
      <4> QED BY <3>7, <4>1, <4>2
    <3>9. ASSUME NEW j \in 1 .. n PROVE Cell(u, k + j - 1) = str[j]
      <4>1. k + j - 1 \in Nat BY <1>2, <3>1
      <4>2. CASE j = n BY <1>2, <3>1, <3>7, <4>1, <4>2
      <4>3. CASE j # n
        <5>1. j \in 1 .. m /\ k + j - 1 # k + m BY <1>2, <3>1, <4>3
        <5>2. Cell(v, k + j - 1) = str[j] BY <3>2, <5>1 DEF Wrote, k
        <5> QED BY <3>7, <4>1, <5>1, <5>2
      <4> QED BY <4>2, <4>3
    <3>10. u \in Terminals BY <3>5 DEF Writes
    <3>11. Wrote(t, u, str, n) BY <3>6, <3>8, <3>9, <3>10 DEF Wrote, k
    <3> QED BY <2>2, <3>11 DEF u
  <2> QED BY <2>3, <2>4
<1>4. N \in 0 .. N BY <1>2
<1>5. Wrote(t, f[N], str, N) BY <1>3, <1>4
<1> QED BY <1>1, <1>5

(* Behind the cursor the screen is blank.                                  *)
Blank(t) == \A q \in Nat : q >= Cursor(t) => Cell(t, q) = Space

LEMMA WritesBlank ==
  ASSUME NEW t \in Terminals, Blank(t), NEW c \in Int
  PROVE  terminal_write_char(t, c) \in Terminals /\ Blank(terminal_write_char(t, c))
<1> DEFINE u == terminal_write_char(t, c)
<1>1. Cursor(t) \in Nat BY CursorNat
<1>2. u \in Terminals /\ Cursor(u) \in Nat BY WriteType, CursorNat
<1>3. CASE c = Newline
  <2>1. Cursor(u) > Cursor(t) /\ \A p \in Nat : Cell(u, p) = Cell(t, p) BY <1>3, WriteNewline
  <2> HIDE DEF u
  <2> QED BY <1>1, <1>2, <2>1 DEF Blank, u
<1>4. CASE c = Backspace
  <2>1. CASE Cursor(t) = 0 BY <1>4, <2>1, BackspaceAtStart
  <2>2. CASE Cursor(t) # 0
    <3>1. Writes(t, u, Cursor(t) - 1, Cursor(t) - 1, Space) BY <1>4, <2>2, WriteBackspace
    <3> HIDE DEF u
    <3>2. Cursor(u) = Cursor(t) - 1
          /\ \A q \in Nat : Cell(u, q) = IF q = Cursor(t) - 1 THEN Space ELSE Cell(t, q)
      BY <3>1 DEF Writes
    <3>3. ASSUME NEW q \in Nat, q >= Cursor(u) PROVE Cell(u, q) = Space
      <4>1. q # Cursor(t) - 1 => q >= Cursor(t) BY <1>1, <3>2, <3>3
      <4> QED BY <3>2, <4>1 DEF Blank
    <3>4. Blank(u) BY <3>3 DEF Blank
    <3> QED BY <1>2, <3>4 DEF u
  <2> QED BY <2>1, <2>2
<1>5. CASE c # Newline /\ c # Backspace
  <2>1. Writes(t, u, Cursor(t) + 1, Cursor(t), c) BY <1>5, WritePlain
  <2> HIDE DEF u
  <2> QED BY <1>1, <1>2, <2>1 DEF Blank, Writes, u
<1> QED BY <1>3, <1>4, <1>5

(* So it is after any string.                                              *)
LEMMA PrintBlank ==
  ASSUME NEW t \in Terminals, Blank(t), NEW str \in Seq(Int)
  PROVE  terminal_print(t, str) \in Terminals /\ Blank(terminal_print(t, str))
<1> DEFINE N == Len(str)
<1>1. PICK f \in [0 .. N -> Terminals] : Prints(f, t, str) /\ terminal_print(t, str) = f[N] BY PrintRuns
<1>2. N \in Nat /\ N \in 0 .. N OBVIOUS
<1> DEFINE Bad == {n \in 0 .. N : ~Blank(f[n])}
<1>3. CASE Bad # {}
  <2>1. PICK n \in Bad : \A h \in Bad : n <= h
    <3>1. Bad \subseteq Nat OBVIOUS
    <3> HIDE DEF Bad
    <3> QED BY <1>3, <3>1, LowestOf
  <2>2. n \in 0 .. N /\ ~Blank(f[n]) BY <2>1
  <2>3. n # 0 BY <1>1, <2>2 DEF Prints
  <2>4. n - 1 \in 0 .. N /\ n - 1 \notin Bad /\ str[n] \in Int BY <1>2, <2>1, <2>2, <2>3
  <2>5. f[n - 1] \in Terminals /\ Blank(f[n - 1]) BY <1>1, <2>4
  <2>6. f[n] = terminal_write_char(f[n - 1], str[n]) BY <1>1, <2>2, <2>3 DEF Prints
  <2> QED BY <2>2, <2>4, <2>5, <2>6, WritesBlank
<1>4. CASE Bad = {} BY <1>1, <1>2, <1>4
<1> QED BY <1>3, <1>4

LEMMA ErrorBlank ==
  ASSUME NEW t \in Terminals, Blank(t)
  PROVE  pr_err(t) \in Terminals /\ Blank(pr_err(t))
<1>1. <<69, Newline>> \in Seq(Int) BY DEF Newline
<1> QED BY <1>1, PrintBlank DEF pr_err

-----------------------------------------------------------------------------
(* Numbers *)

LEMMA QuotRem ==
  ASSUME NEW v \in Int
  PROVE  /\ Quot(v, 10) \in Int /\ Rem(v, 10) \in -9 .. 9
         /\ v = 10 * Quot(v, 10) + Rem(v, 10)
         /\ v > 0 => Quot(v, 10) >= 0 /\ Quot(v, 10) < v /\ Rem(v, 10) >= 0
         /\ v < 0 => Quot(v, 10) <= 0 /\ Quot(v, 10) > v
<1>1. CASE v >= 0
  <2> DEFINE q == v \div 10
  <2>1. q \in Int /\ 10 * q <= v /\ v < 10 * q + 10 BY <1>1
  <2> HIDE DEF q
  <2>2. Quot(v, 10) = q BY <1>1 DEF Quot, q
  <2> QED BY <1>1, <2>1, <2>2 DEF Rem
<1>2. CASE v < 0
  <2> DEFINE q == (-v) \div 10
  <2>1. q \in Int /\ 10 * q <= -v /\ -v < 10 * q + 10 BY <1>2
  <2> HIDE DEF q
  <2>2. Quot(v, 10) = -q BY <1>2 DEF Quot, q
  <2> QED BY <1>2, <2>1, <2>2 DEF Rem
<1> QED BY <1>1, <1>2

LEMMA QuotRemType == \A v \in Int : Quot(v, 10) \in Int /\ 48 + Rem(v, 10) \in Int
<1> SUFFICES ASSUME NEW v \in Int PROVE Quot(v, 10) \in Int /\ 48 + Rem(v, 10) \in Int OBVIOUS
<1>1. Quot(v, 10) \in Int /\ Rem(v, 10) \in -9 .. 9 BY QuotRem
<1> QED BY <1>1

(* Digits is what its definition says.                                     *)
LEMMA DigitsRuns ==
  /\ Digits \in [Int -> Seq(Int)]
  /\ \A v \in Int : Digits[v] = IF v = 0 THEN <<>> ELSE Append(Digits[Quot(v, 10)], 48 + Rem(v, 10))
<1> DEFINE S == Seq(Int)
           G(f) == [v \in Int |-> IF v = 0 THEN <<>> ELSE Append(f[Quot(v, 10)], 48 + Rem(v, 10))]
           rank == [v \in Int |-> IF v >= 0 THEN v ELSE -v]
           pred == [v \in Int |-> Quot(v, 10)]
           base == <<>>
           step == [x \in Int \X S |-> Append(x[2], 48 + Rem(x[1], 10))]
<1>1. Digits = CHOOSE f : f = G(f) BY DEF Digits
<1>2. rank \in [Int -> Nat] /\ pred \in [Int -> Int] /\ base \in S BY QuotRem
<1>3. step \in [Int \X S -> S]
  <2>1. ASSUME NEW x \in Int \X S PROVE Append(x[2], 48 + Rem(x[1], 10)) \in S
    <3>1. x[2] \in S /\ x[1] \in Int OBVIOUS
    <3>2. 48 + Rem(x[1], 10) \in Int BY <3>1, QuotRemType
    <3> HIDE DEF step
    <3> QED BY <3>1, <3>2
  <2> QED BY <2>1
<1>4. GoesDown(Int, rank, pred)
  <2>1. ASSUME NEW v \in Int, rank[v] # 0 PROVE rank[pred[v]] < rank[v]
    <3>1. v # 0 /\ pred[v] = Quot(v, 10) /\ Quot(v, 10) \in Int BY <2>1, QuotRem
    <3>2. CASE v > 0
      <4>1. Quot(v, 10) >= 0 /\ Quot(v, 10) < v BY <3>2, QuotRem
      <4> QED BY <3>1, <3>2, <4>1
    <3>3. CASE v < 0
      <4>1. Quot(v, 10) <= 0 /\ Quot(v, 10) > v BY <3>3, QuotRem
      <4> QED BY <3>1, <3>3, <4>1
    <3> QED BY <3>1, <3>2, <3>3
  <2> QED BY <2>1 DEF GoesDown
<1>5. PICK f \in [Int -> S] : Solves(f, Int, rank, pred, base, step)
  <2> HIDE DEF rank, pred, step, S, base
  <2> QED BY <1>2, <1>3, <1>4, RecursionExists
<1>6. f = G(f)
  <2>1. ASSUME NEW v \in Int PROVE f[v] = G(f)[v]
    <3>1. rank[v] = 0 <=> v = 0 OBVIOUS
    <3>2. pred[v] = Quot(v, 10) /\ pred[v] \in Int BY <1>2
    <3>3. step[<<v, f[pred[v]]>>] = Append(f[pred[v]], 48 + Rem(v, 10))
      <4>1. <<v, f[pred[v]]>> \in Int \X S BY <3>2
      <4> QED BY <4>1
    <3> HIDE DEF rank, step
    <3> QED BY <1>5, <3>1, <3>2, <3>3 DEF Solves
  <2>2. f = [v \in Int |-> f[v]] OBVIOUS
  <2> QED BY <2>1, <2>2
<1>7. Digits = G(Digits) BY <1>1, <1>6
<1>8. /\ \A v \in Int : Digits[v] = IF v = 0 THEN <<>> ELSE Append(Digits[Quot(v, 10)], 48 + Rem(v, 10))
      /\ Digits = [v \in Int |-> Digits[v]]
  BY <1>7
<1>9. \A v \in Int : (rank[v] = 0 <=> v = 0) /\ pred[v] = Quot(v, 10) OBVIOUS
<1> HIDE DEF G, rank, pred, base, step, S
<1>10. \A v \in Int : Digits[v] \in Seq(Int)
  <2> DEFINE Bad == {v \in Int : Digits[v] \notin Seq(Int)}
             R == {rank[v] : v \in Bad}
  <2>1. CASE Bad # {}
    <3>1. R \subseteq Nat /\ R # {} BY <1>2, <2>1
    <3>2. PICK k \in R : \A h \in R : k <= h
      <4> HIDE DEF R
      <4> QED BY <3>1, LowestOf
    <3>3. PICK v \in Bad : rank[v] = k BY <3>2
    <3>4. v \in Int /\ Digits[v] \notin Seq(Int) BY <3>3
    <3>5. v # 0 BY <1>8, <3>4
    <3>6. Digits[Quot(v, 10)] \notin Seq(Int)
      <4>1. 48 + Rem(v, 10) \in Int BY <3>4, QuotRemType
      <4>2. Digits[v] = Append(Digits[Quot(v, 10)], 48 + Rem(v, 10)) BY <1>8, <3>4, <3>5
      <4> QED BY <3>4, <4>1, <4>2
    <3>7. pred[v] = Quot(v, 10) /\ pred[v] \in Int BY <1>2, <1>9, <3>4
    <3>8. rank[v] # 0 /\ rank[v] \in Nat /\ rank[pred[v]] \in Nat BY <1>2, <1>9, <3>4, <3>5, <3>7
    <3>9. rank[pred[v]] < rank[v] BY <1>4, <3>4, <3>8 DEF GoesDown
    <3>10. rank[pred[v]] \in R BY <3>6, <3>7
    <3> HIDE DEF R
    <3> QED BY <3>2, <3>3, <3>8, <3>9, <3>10
  <2>2. CASE Bad = {} BY <2>2
  <2> QED BY <2>1, <2>2
<1> QED BY <1>8, <1>10

(* The value of a string of digits, as ValueOf computes it.                *)
Value(d) ==
  LET value[n \in 0 .. Len(d)] == IF n = 0 THEN 0 ELSE 10 * value[n - 1] + (d[n] - 48)
  IN  value[Len(d)]

Values(f, d) == \A n \in 0 .. Len(d) : f[n] = IF n = 0 THEN 0 ELSE 10 * f[n - 1] + (d[n] - 48)

LEMMA ValueRuns ==
  ASSUME NEW d \in Seq(Int)
  PROVE  \E f \in [0 .. Len(d) -> Int] : Values(f, d) /\ Value(d) = f[Len(d)]
<1> DEFINE N == Len(d)
           G(f) == [n \in 0 .. N |-> IF n = 0 THEN 0 ELSE 10 * f[n - 1] + (d[n] - 48)]
           zero == 0
           step == [x \in (1 .. N) \X Int |-> 10 * x[2] + (d[x[1]] - 48)]
<1>1. Value(d) = (CHOOSE f : f = G(f))[N] BY DEF Value
<1>2. step \in [(1 .. N) \X Int -> Int]
  <2>1. ASSUME NEW x \in (1 .. N) \X Int PROVE 10 * x[2] + (d[x[1]] - 48) \in Int
    <3>1. x[2] \in Int /\ d[x[1]] \in Int OBVIOUS
    <3> QED BY <3>1
  <2> QED BY <2>1
<1>3. N \in Nat OBVIOUS
<1>4. PICK f \in [0 .. N -> Int] : RunsAlong(f, N, zero, step)
  <2>1. zero \in Int OBVIOUS
  <2> HIDE DEF step, N, zero
  <2> QED BY <1>2, <1>3, <2>1, SequenceRecursion
<1>5. Values(f, d)
  <2>1. ASSUME NEW n \in 0 .. N, n # 0 PROVE step[<<n, f[n - 1]>>] = 10 * f[n - 1] + (d[n] - 48)
    <3>1. n \in 1 .. N /\ n - 1 \in 0 .. N BY <2>1
    <3>2. <<n, f[n - 1]>> \in (1 .. N) \X Int BY <3>1
    <3> QED BY <3>2
  <2> HIDE DEF step
  <2> QED BY <1>4, <2>1 DEF Values, RunsAlong
<1>6. f = G(f)
  <2>1. \A n \in 0 .. N : f[n] = G(f)[n] BY <1>5 DEF Values
  <2>2. f = [n \in 0 .. N |-> f[n]] OBVIOUS
  <2> QED BY <2>1, <2>2
<1> DEFINE g == CHOOSE h : h = G(h)
<1>7. g = G(g) BY <1>6
<1> HIDE DEF g
<1>8. /\ \A n \in 0 .. N : g[n] = IF n = 0 THEN 0 ELSE 10 * g[n - 1] + (d[n] - 48)
      /\ g = [n \in 0 .. N |-> g[n]]
  BY <1>7
<1>9. Values(g, d) BY <1>8 DEF Values
<1>10. g \in [0 .. N -> Int]
  <2> DEFINE Bad == {n \in 0 .. N : g[n] \notin Int}
  <2>1. CASE Bad # {}
    <3>1. PICK n \in Bad : \A h \in Bad : n <= h
      <4>1. Bad \subseteq Nat OBVIOUS
      <4> HIDE DEF Bad
      <4> QED BY <2>1, <4>1, LowestOf
    <3>2. n \in 0 .. N /\ g[n] \notin Int BY <3>1
    <3>3. n # 0 BY <1>8, <3>2
    <3>4. n - 1 \in 0 .. N /\ n - 1 \notin Bad /\ d[n] \in Int BY <1>3, <3>1, <3>2, <3>3
    <3>5. g[n - 1] \in Int BY <3>4
    <3>6. g[n] = 10 * g[n - 1] + (d[n] - 48) BY <1>8, <3>2, <3>3
    <3> QED BY <3>2, <3>4, <3>5, <3>6
  <2>2. CASE Bad = {}
    <3>1. \A n \in 0 .. N : g[n] \in Int BY <2>2
    <3> QED BY <1>8, <3>1
  <2> QED BY <2>1, <2>2
<1>11. Value(d) = g[N] BY <1>1 DEF g
<1> QED BY <1>9, <1>10, <1>11

LEMMA ValueAppend ==
  ASSUME NEW d \in Seq(Int), NEW c \in Int
  PROVE  Value(d) \in Int /\ Value(Append(d, c)) = 10 * Value(d) + (c - 48)
<1> DEFINE N == Len(d)
           e == Append(d, c)
<1>1. N \in Nat /\ e \in Seq(Int) /\ Len(e) = N + 1 /\ e[N + 1] = c /\ \A n \in 1 .. N : e[n] = d[n]
  OBVIOUS
<1> HIDE DEF e
<1>2. PICK f \in [0 .. N -> Int] : Values(f, d) /\ Value(d) = f[N] BY ValueRuns
<1>3. PICK g \in [0 .. Len(e) -> Int] : Values(g, e) /\ Value(e) = g[Len(e)] BY <1>1, ValueRuns
<1> HIDE DEF N
<1> DEFINE Bad == {n \in 0 .. N : f[n] # g[n]}
<1>4. CASE Bad # {}
  <2>1. PICK n \in Bad : \A h \in Bad : n <= h
    <3>1. Bad \subseteq Nat BY <1>1
    <3> HIDE DEF Bad
    <3> QED BY <1>4, <3>1, LowestOf
  <2>2. n \in 0 .. N /\ f[n] # g[n] BY <2>1
  <2>3. f[0] = 0 /\ g[0] = 0 BY <1>1, <1>2, <1>3 DEF Values, N
  <2>4. n # 0 BY <2>2, <2>3
  <2>5. n - 1 \in 0 .. N /\ n - 1 \notin Bad /\ n \in 1 .. N BY <1>1, <2>1, <2>2, <2>4
  <2>6. f[n - 1] = g[n - 1] /\ d[n] = e[n] BY <1>1, <2>5
  <2>7. f[n] = 10 * f[n - 1] + (d[n] - 48) BY <1>2, <2>2, <2>4 DEF Values, N
  <2>8. g[n] = 10 * g[n - 1] + (e[n] - 48)
    <3>1. n \in 0 .. Len(e) BY <1>1, <2>2
    <3> QED BY <1>3, <2>4, <3>1 DEF Values
  <2> QED BY <2>2, <2>6, <2>7, <2>8
<1>5. CASE Bad = {}
  <2>1. N \in 0 .. N /\ N + 1 \in 0 .. Len(e) /\ N + 1 # 0 /\ (N + 1) - 1 = N BY <1>1
  <2>2. f[N] = g[N] BY <1>5, <2>1
  <2>3. g[N + 1] = 10 * g[N] + (e[N + 1] - 48) BY <1>3, <2>1 DEF Values
  <2> QED BY <1>1, <1>2, <1>3, <2>1, <2>2, <2>3 DEF e
<1> QED BY <1>4, <1>5

LEMMA ValueEmpty == Value(<<>>) = 0
<1>1. <<>> \in Seq(Int) /\ Len(<<>>) = 0 OBVIOUS
<1>2. PICK f \in [0 .. 0 -> Int] : Values(f, <<>>) /\ Value(<<>>) = f[0] BY <1>1, ValueRuns
<1> QED BY <1>1, <1>2 DEF Values

(* The digits of a positive number.                                        *)
Numeral(d, v) ==
  /\ d \in Seq(48 .. 57) /\ d # <<>> /\ d[1] # 48
  /\ Value(d) = v

LEMMA DigitsNumeral ==
  ASSUME NEW v \in Nat \ {0}
  PROVE  Numeral(Digits[v], v)
<1> DEFINE Bad == {n \in Nat \ {0} : ~Numeral(Digits[n], n)}
<1>1. CASE Bad # {}
  <2>1. PICK n \in Bad : \A h \in Bad : n <= h
    <3>1. Bad \subseteq Nat OBVIOUS
    <3> HIDE DEF Bad
    <3> QED BY <1>1, <3>1, LowestOf
  <2>2. n \in Nat /\ n > 0 /\ ~Numeral(Digits[n], n) BY <2>1
  <2> DEFINE q == Quot(n, 10)
             r == Rem(n, 10)
             d == Digits[q]
  <2>3. q \in Nat /\ q < n /\ r \in 0 .. 9 /\ n = 10 * q + r
    <3>1. n \in Int BY <2>2
    <3>2. q \in Int /\ r \in -9 .. 9 /\ n = 10 * q + r BY <3>1, QuotRem
    <3>3. q >= 0 /\ q < n /\ r >= 0 BY <2>2, <3>1, QuotRem
    <3> HIDE DEF q, r
    <3> QED BY <3>2, <3>3
  <2>4. Digits[n] = Append(d, 48 + r) BY <2>2, DigitsRuns
  <2>5. d \in Seq(Int) BY <2>3, DigitsRuns
  <2>6. d \in Seq(48 .. 57) /\ Value(d) = q /\ (d = <<>> => q = 0 /\ r # 0) /\ (d # <<>> => d[1] # 48)
    <3>1. CASE q = 0
      <4>1. d = <<>> BY <3>1, DigitsRuns
      <4>2. Value(d) = 0 BY <4>1, ValueEmpty
      <4>3. d \in Seq(48 .. 57) BY <4>1
      <4> HIDE DEF d
      <4>4. r # 0
        <5> HIDE DEF q, r
        <5> QED BY <2>2, <2>3, <3>1
      <4> QED BY <3>1, <4>1, <4>2, <4>3, <4>4
    <3>2. CASE q # 0
      <4>1. q \notin Bad
        <5> HIDE DEF q, r, Bad
        <5> QED BY <2>1, <2>2, <2>3
      <4>2. Numeral(d, q)
        <5> HIDE DEF q, r
        <5> QED BY <2>3, <3>2, <4>1
      <4> QED BY <4>2 DEF Numeral
    <3> QED BY <3>1, <3>2
  <2> HIDE DEF d, q, r
  <2>7. 48 + r \in 48 .. 57 /\ 48 + r \in Int BY <2>3
  <2> DEFINE e == Append(d, 48 + r)
  <2>8. e \in Seq(48 .. 57) /\ e # <<>> BY <2>6, <2>7
  <2>9. e[1] # 48
    <3>1. CASE d = <<>>
      <4>1. e[1] = 48 + r BY <2>7, <3>1
      <4> QED BY <2>3, <2>6, <3>1, <4>1
    <3>2. CASE d # <<>>
      <4>1. e[1] = d[1] BY <2>5, <2>7, <3>2
      <4> QED BY <2>6, <3>2, <4>1
    <3> QED BY <3>1, <3>2
  <2>10. Value(e) = n
    <3>1. Value(e) = 10 * Value(d) + ((48 + r) - 48) BY <2>5, <2>7, ValueAppend
    <3> QED BY <2>3, <2>6, <3>1
  <2>11. Numeral(e, n) BY <2>8, <2>9, <2>10 DEF Numeral
  <2> QED BY <2>2, <2>4, <2>11
<1>2. CASE Bad = {} BY <1>2
<1> QED BY <1>1, <1>2

LEMMA DigitsPlain ==
  ASSUME NEW v \in Int
  PROVE  Digits[v] \in Seq(39 .. 57)
<1> DEFINE rank == [w \in Int |-> IF w >= 0 THEN w ELSE -w]
           Bad == {w \in Int : Digits[w] \notin Seq(39 .. 57)}
           R == {rank[w] : w \in Bad}
<1>1. rank \in [Int -> Nat] OBVIOUS
<1>2. \A w \in Int : w # 0 => rank[Quot(w, 10)] < rank[w] /\ Quot(w, 10) \in Int
  <2> SUFFICES ASSUME NEW w \in Int, w # 0 PROVE rank[Quot(w, 10)] < rank[w] /\ Quot(w, 10) \in Int
    OBVIOUS
  <2>1. Quot(w, 10) \in Int BY QuotRemType
  <2>2. CASE w > 0
    <3>1. Quot(w, 10) >= 0 /\ Quot(w, 10) < w BY <2>2, QuotRem
    <3> QED BY <2>1, <2>2, <3>1
  <2>3. CASE w < 0
    <3>1. Quot(w, 10) <= 0 /\ Quot(w, 10) > w BY <2>3, QuotRem
    <3> QED BY <2>1, <2>3, <3>1
  <2> QED BY <2>2, <2>3
<1> HIDE DEF rank
<1>3. CASE Bad # {}
  <2>1. R \subseteq Nat /\ R # {} BY <1>1, <1>3
  <2>2. PICK k \in R : \A h \in R : k <= h
    <3> HIDE DEF R
    <3> QED BY <2>1, LowestOf
  <2>3. PICK w \in Bad : rank[w] = k BY <2>2
  <2>4. w \in Int /\ Digits[w] \notin Seq(39 .. 57) BY <2>3
  <2>5. w # 0
    <3>1. <<>> \in Seq(39 .. 57) OBVIOUS
    <3> QED BY <2>4, <3>1, DigitsRuns
  <2>6. Digits[Quot(w, 10)] \notin Seq(39 .. 57)
    <3>1. 48 + Rem(w, 10) \in 39 .. 57
      <4> DEFINE r == Rem(w, 10)
      <4>1. r \in -9 .. 9 BY <2>4, QuotRem
      <4> HIDE DEF r
      <4>2. 48 + r \in 39 .. 57 BY <4>1
      <4> QED BY <4>2 DEF r
    <3>2. Digits[w] = Append(Digits[Quot(w, 10)], 48 + Rem(w, 10)) BY <2>4, <2>5, DigitsRuns
    <3> QED BY <2>4, <3>1, <3>2
  <2>7. rank[Quot(w, 10)] < rank[w] /\ Quot(w, 10) \in Int BY <1>2, <2>4, <2>5
  <2>8. rank[Quot(w, 10)] \in R BY <2>6, <2>7
  <2>9. rank[w] \in Nat /\ rank[Quot(w, 10)] \in Nat BY <1>1, <2>4, <2>7
  <2> HIDE DEF R
  <2> QED BY <2>2, <2>3, <2>7, <2>8, <2>9
<1>4. CASE Bad = {} BY <1>4
<1> QED BY <1>3, <1>4

LEMMA ItoaPlain ==
  ASSUME NEW v \in Int
  PROVE  itoa(v) \in Seq(Int) /\ Plain(itoa(v))
<1> DEFINE abs == IF v < 0 /\ v # IntMin THEN -v ELSE v
           digits == IF v = 0 THEN <<48>> ELSE Digits[abs]
           sign == IF v < 0 THEN <<45>> ELSE <<>>
<1>1. abs \in Int OBVIOUS
<1>2. digits \in Seq(39 .. 57)
  <2>1. CASE v = 0 BY <2>1
  <2>2. CASE v # 0
    <3> HIDE DEF abs
    <3> QED BY <1>1, <2>2, DigitsPlain
  <2> QED BY <2>1, <2>2
<1>3. sign \in Seq(39 .. 57)
  <2>1. <<45>> \in Seq(39 .. 57) /\ <<>> \in Seq(39 .. 57) OBVIOUS
  <2> QED BY <2>1
<1>4. itoa(v) = sign \o digits BY DEF itoa
<1> HIDE DEF sign, digits
<1>5. itoa(v) \in Seq(39 .. 57) BY <1>2, <1>3, <1>4
<1>6. itoa(v) \in Seq(Int) BY <1>5
<1>7. \A n \in 1 .. Len(itoa(v)) : itoa(v)[n] \in 39 .. 57 BY <1>5, ElementOfSeq, Zenon
<1>8. \A c \in 39 .. 57 : c # Newline /\ c # Backspace BY DEF Newline, Backspace
<1> QED BY <1>6, <1>7, <1>8 DEF Plain

LEMMA ValueOfDigits ==
  ASSUME NEW d \in Seq(48 .. 57), d # <<>>
  PROVE  /\ ValueOf(d) = Value(d)
         /\ ValueOf(<<45>> \o d) = -Value(d)
         /\ IsNumeral(d) <=> (Len(d) > 1 => d[1] # 48)
         /\ IsNumeral(<<45>> \o d) <=> (Len(d) > 1 => d[1] # 48)
<1> DEFINE Body(str) == IF str # <<>> /\ str[1] = 45 THEN Tail(str) ELSE str
           e == <<45>> \o d
<1>1. \A str : ValueOf(str) = IF Body(str) # str THEN -Value(Body(str)) ELSE Value(Body(str))
  BY DEF ValueOf, Value
<1>2. \A str : IsNumeral(str) <=> /\ Body(str) # <<>>
                                  /\ \A n \in DOMAIN Body(str) : Body(str)[n] \in 48 .. 57
                                  /\ Len(Body(str)) > 1 => Body(str)[1] # 48
  BY DEF IsNumeral
<1>3. Body(d) = d OBVIOUS
<1>4. e # <<>> /\ e[1] = 45 /\ Tail(e) = d /\ e # d
  <2>1. e \in Seq(Int) /\ Len(e) = Len(d) + 1 /\ e[1] = 45 OBVIOUS
  <2>2. Len(d) \in Nat /\ Len(d) # Len(e) BY <2>1
  <2>3. Tail(e) = d OBVIOUS
  <2> HIDE DEF e
  <2>4. e # <<>> BY <2>1, <2>2
  <2> QED BY <2>1, <2>2, <2>3, <2>4
<1> HIDE DEF e
<1>5. Body(e) = d /\ e # d BY <1>4
<1>6. \A n \in DOMAIN d : d[n] \in 48 .. 57 OBVIOUS
<1> HIDE DEF Body
<1>7. ValueOf(d) = Value(d) BY <1>1, <1>3
<1>8. ValueOf(e) = -Value(d) BY <1>1, <1>5
<1>9. IsNumeral(d) <=> (Len(d) > 1 => d[1] # 48) BY <1>2, <1>3, <1>6
<1>10. IsNumeral(e) <=> (Len(d) > 1 => d[1] # 48) BY <1>2, <1>5, <1>6
<1> QED BY <1>7, <1>8, <1>9, <1>10 DEF e

(* itoa writes the number, except for the smallest.                        *)
LEMMA ItoaNumeral ==
  ASSUME NEW v \in Int, v # IntMin
  PROVE  IsNumeral(itoa(v)) /\ ValueOf(itoa(v)) = v
<1>1. CASE v = 0
  <2> DEFINE d == <<48>>
  <2>1. d \in Seq(48 .. 57) /\ d # <<>> /\ Len(d) = 1 OBVIOUS
  <2>2. itoa(v) = d
    <3>1. itoa(v) = <<>> \o d BY <1>1 DEF itoa
    <3> HIDE DEF d
    <3> QED BY <2>1, <3>1
  <2>3. Value(d) = 0
    <3>1. d = Append(<<>>, 48) /\ <<>> \in Seq(Int) /\ 48 \in Int OBVIOUS
    <3>2. Value(Append(<<>>, 48)) = 10 * Value(<<>>) + (48 - 48) BY <3>1, ValueAppend
    <3> HIDE DEF d
    <3> QED BY <3>1, <3>2, ValueEmpty
  <2> HIDE DEF d
  <2>4. ValueOf(d) = Value(d) /\ (IsNumeral(d) <=> (Len(d) > 1 => d[1] # 48)) BY <2>1, ValueOfDigits
  <2> QED BY <1>1, <2>1, <2>2, <2>3, <2>4
<1>2. CASE v > 0
  <2> DEFINE d == Digits[v]
  <2>1. Numeral(d, v) BY <1>2, DigitsNumeral
  <2>2. itoa(v) = <<>> \o d
    <3>1. ~(v < 0) /\ v # 0 BY <1>2
    <3> QED BY <3>1 DEF itoa
  <2> HIDE DEF d
  <2>3. itoa(v) = d BY <2>1, <2>2 DEF Numeral
  <2>4. ValueOf(d) = Value(d) /\ (IsNumeral(d) <=> (Len(d) > 1 => d[1] # 48))
    BY <2>1, ValueOfDigits DEF Numeral
  <2> QED BY <2>1, <2>3, <2>4 DEF Numeral
<1>3. CASE v < 0
  <2> DEFINE d == Digits[-v]
  <2>1. Numeral(d, -v)
    <3>1. -v \in Nat \ {0} BY <1>3
    <3> QED BY <3>1, DigitsNumeral
  <2>2. itoa(v) = <<45>> \o d BY <1>3 DEF itoa
  <2> HIDE DEF d
  <2>3. /\ ValueOf(<<45>> \o d) = -Value(d)
        /\ IsNumeral(<<45>> \o d) <=> (Len(d) > 1 => d[1] # 48)
    BY <2>1, ValueOfDigits DEF Numeral
  <2>4. Value(d) = -v /\ d[1] # 48 BY <2>1 DEF Numeral
  <2>5. ValueOf(<<45>> \o d) = v
    <3> DEFINE a == ValueOf(<<45>> \o d)
               b == Value(d)
    <3>1. a = -b /\ b = -v BY <2>3, <2>4
    <3> HIDE DEF a, b
    <3>2. a = v BY <3>1
    <3> QED BY <3>2 DEF a
  <2> QED BY <2>2, <2>3, <2>4, <2>5
<1> QED BY <1>1, <1>2, <1>3

-----------------------------------------------------------------------------
(* The lines typed *)

Sessions == [line : Seq(Chars), ended : Seq(Seq(Chars))]
NewSession == [line |-> <<>>, ended |-> <<>>]

LEMMA PartOf ==
  ASSUME NEW S, NEW s \in Seq(S), NEW m \in 1 .. Len(s) + 1, NEW n \in m - 1 .. Len(s)
  PROVE  /\ SubSeq(s, m, n) \in Seq(S)
         /\ Len(SubSeq(s, m, n)) = n - m + 1
         /\ \A j \in 1 .. n - m + 1 : SubSeq(s, m, n)[j] = s[m + j - 1]
<1> DEFINE u == SubSeq(s, m, n)
<1>1. Len(s) \in Nat /\ m \in Int /\ n \in Int OBVIOUS
<1>2. \A j \in m .. n : s[j] \in S BY <1>1
<1>3. /\ u \in Seq(S)
      /\ Len(u) = IF m <= n THEN n - m + 1 ELSE 0
      /\ \A j \in 1 .. n - m + 1 : u[j] = s[m + j - 1]
  BY <1>1, <1>2, SubSeqProperties
<1> HIDE DEF u
<1>4. Len(u) = n - m + 1 BY <1>1, <1>3
<1> QED BY <1>3, <1>4 DEF u

LEMMA FrontType ==
  ASSUME NEW S, NEW s \in Seq(S), s # <<>>
  PROVE  /\ Front(s) \in Seq(S) /\ Len(Front(s)) = Len(s) - 1
         /\ \A n \in 1 .. Len(s) - 1 : Front(s)[n] = s[n]
<1>1. Len(s) \in Nat /\ Len(s) # 0 OBVIOUS
<1>2. Front(s) = SubSeq(s, 1, Len(s) - 1) BY DEF Front
<1> DEFINE m == 1
           n == Len(s) - 1
           u == SubSeq(s, m, n)
<1>3. m \in 1 .. Len(s) + 1 /\ n \in m - 1 .. Len(s) BY <1>1
<1>4. m = 1 /\ n = Len(s) - 1 /\ Front(s) = u BY <1>2
<1> HIDE DEF m, n
<1>5. u \in Seq(S) /\ Len(u) = n - m + 1 /\ \A j \in 1 .. n - m + 1 : u[j] = s[m + j - 1]
  BY <1>3, PartOf
<1> HIDE DEF u
<1> QED BY <1>1, <1>4, <1>5

LEMMA KeyedType ==
  ASSUME NEW s \in Sessions, NEW c \in Chars
  PROVE  Keyed(s, c) \in Sessions
<1> DEFINE line == IF c = CR THEN s.line
                   ELSE IF c # Backspace THEN Append(s.line, c)
                   ELSE IF s.line = <<>> THEN <<>> ELSE Front(s.line)
<1>1. s.line \in Seq(Chars) /\ s.ended \in Seq(Seq(Chars)) BY DEF Sessions
<1>2. line \in Seq(Chars)
  <2>1. Append(s.line, c) \in Seq(Chars) /\ <<>> \in Seq(Chars) BY <1>1
  <2>2. s.line # <<>> => Front(s.line) \in Seq(Chars) BY <1>1, FrontType
  <2> QED BY <1>1, <2>1, <2>2
<1>3. Keyed(s, c) = IF c = CR \/ Len(line) = LineSize
                      THEN [line |-> <<>>, ended |-> Append(s.ended, line)]
                      ELSE [s EXCEPT !.line = line]
  BY DEF Keyed
<1> HIDE DEF line
<1>4. Append(s.ended, line) \in Seq(Seq(Chars)) /\ <<>> \in Seq(Chars) BY <1>1, <1>2
<1>5. [line |-> <<>>, ended |-> Append(s.ended, line)] \in Sessions BY <1>4 DEF Sessions
<1>6. [s EXCEPT !.line = line] \in Sessions BY <1>2 DEF Sessions
<1> QED BY <1>3, <1>5, <1>6

KeyedAlong(f, keys) ==
  \A n \in 0 .. Len(keys) : f[n] = IF n = 0 THEN NewSession ELSE Keyed(f[n - 1], keys[n])

LEMMA SessionRuns ==
  ASSUME NEW keys \in Seq(Chars)
  PROVE  \E f \in [0 .. Len(keys) -> Sessions] : KeyedAlong(f, keys) /\ Session(keys) = f[Len(keys)]
<1> DEFINE N == Len(keys)
           G(f) == [n \in 0 .. N |-> IF n = 0 THEN NewSession ELSE Keyed(f[n - 1], keys[n])]
           step == [x \in (1 .. N) \X Sessions |-> Keyed(x[2], keys[x[1]])]
<1>1. Session(keys) = (CHOOSE f : f = G(f))[N] BY DEF Session, NewSession
<1>2. step \in [(1 .. N) \X Sessions -> Sessions]
  <2>1. ASSUME NEW x \in (1 .. N) \X Sessions PROVE Keyed(x[2], keys[x[1]]) \in Sessions
    <3>1. x[2] \in Sessions /\ keys[x[1]] \in Chars OBVIOUS
    <3> QED BY <3>1, KeyedType
  <2> QED BY <2>1
<1>3. N \in Nat /\ NewSession \in Sessions BY DEF NewSession, Sessions
<1>4. PICK f \in [0 .. N -> Sessions] : RunsAlong(f, N, NewSession, step)
  <2> HIDE DEF step, N
  <2> QED BY <1>2, <1>3, SequenceRecursion
<1>5. KeyedAlong(f, keys)
  <2>1. ASSUME NEW n \in 0 .. N, n # 0 PROVE step[<<n, f[n - 1]>>] = Keyed(f[n - 1], keys[n])
    <3>1. n \in 1 .. N /\ n - 1 \in 0 .. N BY <2>1
    <3>2. <<n, f[n - 1]>> \in (1 .. N) \X Sessions BY <3>1
    <3> QED BY <3>2
  <2> HIDE DEF step
  <2> QED BY <1>4, <2>1 DEF KeyedAlong, RunsAlong
<1>6. f = G(f)
  <2>1. \A n \in 0 .. N : f[n] = G(f)[n] BY <1>5 DEF KeyedAlong
  <2>2. f = [n \in 0 .. N |-> f[n]] OBVIOUS
  <2> QED BY <2>1, <2>2
<1> DEFINE g == CHOOSE h : h = G(h)
<1>7. g = G(g) BY <1>6
<1> HIDE DEF g
<1>8. /\ \A n \in 0 .. N : g[n] = IF n = 0 THEN NewSession ELSE Keyed(g[n - 1], keys[n])
      /\ g = [n \in 0 .. N |-> g[n]]
  BY <1>7
<1>9. KeyedAlong(g, keys) BY <1>8 DEF KeyedAlong
<1>10. g \in [0 .. N -> Sessions]
  <2> DEFINE Bad == {n \in 0 .. N : g[n] \notin Sessions}
  <2>1. CASE Bad # {}
    <3>1. PICK n \in Bad : \A h \in Bad : n <= h
      <4>1. Bad \subseteq Nat OBVIOUS
      <4> HIDE DEF Bad
      <4> QED BY <2>1, <4>1, LowestOf
    <3>2. n \in 0 .. N /\ g[n] \notin Sessions BY <3>1
    <3>3. n # 0 BY <1>3, <1>8, <3>2
    <3>4. n - 1 \in 0 .. N /\ n - 1 \notin Bad /\ keys[n] \in Chars BY <1>3, <3>1, <3>2, <3>3
    <3>5. g[n - 1] \in Sessions BY <3>4
    <3>6. g[n] = Keyed(g[n - 1], keys[n]) BY <1>8, <3>2, <3>3
    <3> QED BY <3>2, <3>4, <3>5, <3>6, KeyedType
  <2>2. CASE Bad = {}
    <3>1. \A n \in 0 .. N : g[n] \in Sessions BY <2>2
    <3> QED BY <1>8, <3>1
  <2> QED BY <2>1, <2>2
<1>11. Session(keys) = g[N] BY <1>1 DEF g
<1> QED BY <1>9, <1>10, <1>11

LEMMA SessionAppend ==
  ASSUME NEW keys \in Seq(Chars), NEW c \in Chars
  PROVE  Session(keys) \in Sessions /\ Session(Append(keys, c)) = Keyed(Session(keys), c)
<1> DEFINE N == Len(keys)
           e == Append(keys, c)
<1>1. N \in Nat /\ e \in Seq(Chars) /\ Len(e) = N + 1 /\ e[N + 1] = c /\ \A n \in 1 .. N : e[n] = keys[n]
  OBVIOUS
<1> HIDE DEF e
<1>2. PICK f \in [0 .. N -> Sessions] : KeyedAlong(f, keys) /\ Session(keys) = f[N] BY SessionRuns
<1>3. PICK g \in [0 .. Len(e) -> Sessions] : KeyedAlong(g, e) /\ Session(e) = g[Len(e)]
  BY <1>1, SessionRuns
<1> HIDE DEF N
<1> DEFINE Bad == {n \in 0 .. N : f[n] # g[n]}
<1>4. CASE Bad # {}
  <2>1. PICK n \in Bad : \A h \in Bad : n <= h
    <3>1. Bad \subseteq Nat BY <1>1
    <3> HIDE DEF Bad
    <3> QED BY <1>4, <3>1, LowestOf
  <2>2. n \in 0 .. N /\ f[n] # g[n] BY <2>1
  <2>3. f[0] = NewSession /\ g[0] = NewSession BY <1>1, <1>2, <1>3 DEF KeyedAlong, N
  <2>4. n # 0 BY <2>2, <2>3
  <2>5. n - 1 \in 0 .. N /\ n - 1 \notin Bad /\ n \in 1 .. N BY <1>1, <2>1, <2>2, <2>4
  <2>6. f[n - 1] = g[n - 1] /\ keys[n] = e[n] BY <1>1, <2>5
  <2>7. f[n] = Keyed(f[n - 1], keys[n]) BY <1>2, <2>2, <2>4 DEF KeyedAlong, N
  <2>8. g[n] = Keyed(g[n - 1], e[n])
    <3>1. n \in 0 .. Len(e) BY <1>1, <2>2
    <3> QED BY <1>3, <2>4, <3>1 DEF KeyedAlong
  <2> QED BY <2>2, <2>6, <2>7, <2>8
<1>5. CASE Bad = {}
  <2>1. N \in 0 .. N /\ N + 1 \in 0 .. Len(e) /\ N + 1 # 0 /\ (N + 1) - 1 = N BY <1>1
  <2>2. f[N] = g[N] BY <1>5, <2>1
  <2>3. g[N + 1] = Keyed(g[N], e[N + 1]) BY <1>3, <2>1 DEF KeyedAlong
  <2>4. Session(keys) \in Sessions BY <1>2, <2>1
  <2> QED BY <1>1, <1>2, <1>3, <2>2, <2>3, <2>4 DEF e
<1> QED BY <1>4, <1>5

LEMMA SessionEmpty == Session(<<>>) = NewSession
<1>1. <<>> \in Seq(Chars) /\ Len(<<>>) = 0 OBVIOUS
<1>2. PICK f \in [0 .. 0 -> Sessions] : KeyedAlong(f, <<>>) /\ Session(<<>>) = f[0] BY <1>1, SessionRuns
<1> QED BY <1>1, <1>2 DEF KeyedAlong

-----------------------------------------------------------------------------
(* The invariant *)

(* The characters before the index.                                        *)
Text == [n \in 1 .. i |-> buf[n - 1]]

Types ==
  /\ TypeOK
  /\ terminal \in Terminals /\ typed \in Seq(Chars) /\ nodes \in Seq(Seq(Chars))

(* What waits for the shell is the end of what was typed for it; the key   *)
(* in hand comes before that.                                              *)
Waiting ==
  LET q == queue[shell]
      taken == Len(typed) - Len(q)
  IN  /\ current = IF pc \in {"child", "printed", "panic", "wild"} THEN child ELSE shell
      /\ taken >= 0
      /\ \A n \in 1 .. Len(q) : q[n] = typed[taken + n]
      /\ pc = "key" => taken >= 1 /\ key = typed[taken]

(* The line being read, or read last.                                      *)
Ended == pc \in {"newline", "parse", "system"}

LineRead ==
  /\ Reading => i < LineSize /\ Session(Consumed).line = Text
  /\ ~Reading => Session(Consumed).line = <<>>
  /\ Reading \/ Ended => \A j \in 0 .. i - 1 : buf[j] # 0
  /\ Ended => /\ buf[i] = 0
              /\ Session(Consumed).ended # <<>> /\ Last(Session(Consumed).ended) = Text

Shown ==
  /\ Blank(terminal)
  /\ Reading =>
       /\ Cursor(terminal) = start + i
       /\ ~garbled => start >= 1 /\ Cell(terminal, start - 1) = Prompt
       /\ \A n \in 0 .. i - 1 : Cell(terminal, start + n) = buf[n]

(* The nodes are the words of s that start before p, which is not inside a *)
(* word.                                                                   *)
CutWord(s, n) == strncpy(WordAt(s, n), MaxArgument)

StartAt(at, s, ns, p) ==
  /\ \A n \in 1 .. Len(ns) : ns[n] = CutWord(s, at[n]) /\ at[n] < p
  /\ \A n \in 1 .. Len(ns) - 1 : at[n] < at[n + 1]
  /\ \A w \in WordStarts(s) : w < p => \E n \in 1 .. Len(ns) : at[n] = w

Parsed(s, ns, p) ==
  /\ p >= 1
  /\ p = 1 \/ p - 1 > Len(s) \/ s[p - 1] = Space
  /\ \E at \in [1 .. Len(ns) -> WordStarts(s)] : StartAt(at, s, ns, p)

Words ==
  /\ pc \in {"parse", "system"} => Parsed(Command, nodes, sp)
  /\ pc = "system" => nodes # <<>>

Printed ==
  pc = "printed" /\ ~garbled =>
    /\ Cursor(terminal) = start + Len(itoa(number))
    /\ \A n \in 1 .. Len(itoa(number)) : Cell(terminal, start + n - 1) = itoa(number)[n]

IInv == Types /\ Waiting /\ LineRead /\ Shown /\ Words /\ Printed

-----------------------------------------------------------------------------
(* The line as a string *)

LEMMA TextType ==
  ASSUME Types, \A j \in 0 .. i - 1 : buf[j] # 0
  PROVE  Text \in Seq(Chars) /\ Len(Text) = i
<1>1. i \in Nat /\ i <= LineSize /\ \A j \in 0 .. LineSize : buf[j] \in Chars \cup {0}
  BY ConsoleAssumption DEF Types, TypeOK
<1>2. \A n \in 1 .. i : n - 1 \in 0 .. i - 1 /\ n - 1 \in 0 .. LineSize BY <1>1, ConsoleAssumption
<1>3. \A n \in 1 .. i : buf[n - 1] \in Chars BY <1>1, <1>2
<1>4. Text \in [1 .. i -> Chars] BY <1>3 DEF Text
<1> HIDE DEF Text
<1> QED BY <1>1, <1>4

LEMMA LineIsText ==
  ASSUME Types, \A j \in 0 .. i - 1 : buf[j] # 0, buf[i] = 0
  PROVE  Line = Text
<1>1. i \in 0 .. LineSize /\ LineSize \in Nat BY ConsoleAssumption DEF Types, TypeOK
<1>2. strlen = i
  <2>1. \A n \in 0 .. LineSize : (buf[n] = 0 /\ \A j \in 0 .. n - 1 : buf[j] # 0) => n = i
    <3> SUFFICES ASSUME NEW n \in 0 .. LineSize, buf[n] = 0, \A j \in 0 .. n - 1 : buf[j] # 0
                 PROVE  n = i
      OBVIOUS
    <3>1. ~(n < i) BY <1>1
    <3>2. ~(i < n) BY <1>1
    <3> QED BY <1>1, <3>1, <3>2
  <2> QED BY <1>1, <2>1 DEF strlen
<1> QED BY <1>2 DEF Line, Text

(* Of a line that fills the buffer the copy leaves out the last character. *)
LEMMA CommandIs ==
  ASSUME Types, \A j \in 0 .. i - 1 : buf[j] # 0, buf[i] = 0
  PROVE  /\ Command = IF Len(Line) = LineSize THEN Front(Line) ELSE Line
         /\ Command \in Seq(Chars)
<1>1. Line = Text /\ Line \in Seq(Chars) /\ Len(Line) = i BY LineIsText, TextType
<1>2. i \in Nat /\ LineSize \in Nat /\ LineSize # 0 /\ i <= LineSize BY ConsoleAssumption DEF Types, TypeOK
<1> DEFINE m == Min({Len(Line), LineSize - 1})
<1>3. Command = SubSeq(Line, 1, m) BY DEF Command, strncpy
<1>4. m = IF i = LineSize THEN i - 1 ELSE i BY <1>1, <1>2 DEF Min
<1> HIDE DEF m
<1>5. CASE i = LineSize
  <2>1. Line # <<>> BY <1>1, <1>2, <1>5
  <2>2. Command = Front(Line) BY <1>1, <1>3, <1>4, <1>5 DEF Front
  <2>3. Front(Line) \in Seq(Chars) BY <1>1, <2>1, FrontType
  <2> QED BY <1>1, <1>5, <2>2, <2>3
<1>6. CASE i # LineSize
  <2>1. Command = SubSeq(Line, 1, Len(Line)) BY <1>1, <1>3, <1>4, <1>6
  <2>2. Command = Line BY <1>1, <2>1, SubSeqFull
  <2> QED BY <1>1, <1>6, <2>2
<1> QED BY <1>5, <1>6

-----------------------------------------------------------------------------
(* The keys *)

LEMMA ConsumedType ==
  ASSUME Types, Waiting
  PROVE  Consumed \in Seq(Chars)
<1> DEFINE k == Len(typed) - Len(queue[shell]) - (IF pc = "key" THEN 1 ELSE 0)
           one == 1
<1>1. typed \in Seq(Chars) /\ Len(typed) \in Nat /\ queue[shell] \in Seq(Chars) /\ Len(queue[shell]) \in Nat
  BY DEF Types, TypeOK
<1>2. one \in 1 .. Len(typed) + 1 /\ k \in one - 1 .. Len(typed) BY <1>1 DEF Waiting
<1> HIDE DEF k, one
<1>3. SubSeq(typed, one, k) \in Seq(Chars) BY <1>1, <1>2, PartOf
<1> QED BY <1>3 DEF Consumed, k, one

(* Nothing changes for the keys where nothing is pressed or read.          *)
LEMMA WaitingKept ==
  ASSUME Types, Waiting, queue'[shell] = queue[shell], typed' = typed, pc # "key", pc' # "key",
         current' = IF pc' \in {"child", "printed", "panic", "wild"} THEN child ELSE shell
  PROVE  Waiting' /\ Consumed' = Consumed
<1>1. Waiting' BY DEF Waiting
<1>2. Consumed' = Consumed BY DEF Consumed
<1> QED BY <1>1, <1>2

LEMMA PressKeys ==
  ASSUME Types, Waiting, NEW c \in Chars, Press(c)
  PROVE  Types' /\ Waiting' /\ Consumed' = Consumed
<1>1. /\ typed \in Seq(Chars) /\ Len(typed) \in Nat
      /\ queue \in [{shell, child} -> Seq(Chars)] /\ current \in {shell, child}
  BY DEF Types, TypeOK
<1>2. /\ queue' = [queue EXCEPT ![current] = Append(queue[current], c)]
      /\ UNCHANGED <<current, key, terminal, buf, i, pc, sp, nodes, start, number, garbled, listed>>
      /\ typed' = IF current = shell THEN Append(typed, c) ELSE typed
  BY DEF Press, KQ!Store, linevars, parsevars
<1>3. Types'
  <2>1. typed' \in Seq(Chars) BY <1>1, <1>2
  <2>2. Append(queue[current], c) \in Seq(Chars) BY <1>1
  <2>3. queue' \in [{shell, child} -> Seq(Chars)] BY <1>1, <1>2, <2>2
  <2> QED BY <1>2, <2>1, <2>3 DEF Types, TypeOK
<1> DEFINE q == queue[shell]
           q2 == queue'[shell]
<1>4. CASE current = shell
  <2>1. q2 = Append(q, c) /\ typed' = Append(typed, c) /\ q \in Seq(Chars) BY <1>1, <1>2, <1>4
  <2> HIDE DEF q, q2
  <2>2. Len(q) \in Nat /\ Len(q2) = Len(q) + 1 /\ Len(typed') = Len(typed) + 1 BY <1>1, <2>1
  <2> DEFINE taken == Len(typed) - Len(q)
  <2>3. Len(typed') - Len(q2) = taken BY <1>1, <2>2
  <2>4. taken >= 0 /\ taken <= Len(typed) /\ taken \in Int BY <1>1, <2>2 DEF Waiting, q
  <2>5. \A n \in 1 .. taken : typed'[n] = typed[n] BY <1>1, <2>1, <2>4
  <2>6. ASSUME NEW n \in 1 .. Len(q2) PROVE q2[n] = typed'[taken + n]
    <3>1. CASE n = Len(q2)
      <4>1. q2[n] = c /\ taken + n = Len(typed) + 1 BY <1>1, <2>1, <2>2, <3>1
      <4>2. typed'[Len(typed) + 1] = c BY <1>1, <2>1
      <4> QED BY <4>1, <4>2
    <3>2. CASE n # Len(q2)
      <4>1. n \in 1 .. Len(q) BY <2>2, <3>2
      <4>2. q2[n] = q[n] BY <2>1, <4>1
      <4>3. q[n] = typed[taken + n] BY <4>1 DEF Waiting, q
      <4>4. taken + n \in 1 .. Len(typed) BY <1>1, <2>2, <2>4, <4>1
      <4>5. typed'[taken + n] = typed[taken + n] BY <1>1, <2>1, <4>4
      <4> QED BY <4>2, <4>3, <4>5
    <3> QED BY <3>1, <3>2
  <2> HIDE DEF taken
  <2>7. Waiting'
    <3>1. current' = IF pc' \in {"child", "printed", "panic", "wild"} THEN child ELSE shell BY <1>2 DEF Waiting
    <3>2. pc' = "key" => taken >= 1 /\ key' = typed'[taken]
      <4> SUFFICES ASSUME pc = "key" PROVE taken >= 1 /\ key = typed'[taken] BY <1>2
      <4>1. taken >= 1 /\ key = typed[taken] BY DEF Waiting, taken, q
      <4> QED BY <2>4, <2>5, <4>1
    <3> QED BY <2>3, <2>4, <2>6, <3>1, <3>2 DEF Waiting, q2
  <2>8. Consumed' = Consumed
    <3> DEFINE k == taken - (IF pc = "key" THEN 1 ELSE 0)
    <3>1. Consumed = SubSeq(typed, 1, k) BY DEF Consumed, taken, q
    <3>2. Consumed' = SubSeq(typed', 1, k) BY <1>2, <2>3 DEF Consumed, q2
    <3>3. k \in Nat /\ k <= taken BY <2>4 DEF Waiting, taken, q
    <3> HIDE DEF k
    <3>4. k <= Len(typed) /\ k <= Len(typed') /\ typed' \in Seq(Chars) BY <1>1, <2>1, <2>2, <2>4, <3>3
    <3>5. \A n \in 1 .. k : typed'[n] = typed[n] BY <2>4, <2>5, <3>3
    <3>6. SubSeq(typed', 1, k) = SubSeq(typed, 1, k) BY <1>1, <3>3, <3>4, <3>5
    <3> QED BY <3>1, <3>2, <3>6
  <2> QED BY <1>3, <2>7, <2>8
<1>5. CASE current # shell
  <2>1. queue'[shell] = queue[shell] /\ typed' = typed BY <1>1, <1>2, <1>5
  <2>2. Waiting' BY <1>2, <2>1 DEF Waiting
  <2>3. Consumed' = Consumed BY <1>2, <2>1 DEF Consumed
  <2> QED BY <1>3, <2>2, <2>3
<1> QED BY <1>4, <1>5

LEMMA GetKeys ==
  ASSUME Types, Waiting, kernel_getkeyblock
  PROVE  Types' /\ Waiting' /\ Consumed' = Consumed
<1>1. /\ typed \in Seq(Chars) /\ Len(typed) \in Nat
      /\ queue \in [{shell, child} -> Seq(Chars)] /\ queue[shell] \in Seq(Chars)
  BY DEF Types, TypeOK
<1>2. current = shell BY DEF Waiting, kernel_getkeyblock
<1>3. /\ pc = "getkey" /\ pc' = (IF key' = 0 THEN "getkey" ELSE "key")
      /\ IF queue[shell] = <<>> THEN key' = 0 /\ queue' = queue
         ELSE /\ key' = Head(queue[shell])
              /\ queue' = [queue EXCEPT ![shell] = Tail(queue[shell])]
      /\ UNCHANGED <<current, terminal, buf, i, sp, nodes, start, number, garbled, listed, typed>>
  BY <1>2 DEF kernel_getkeyblock, KQ!GetKey, linevars, parsevars
<1> DEFINE q == queue[shell]
           q2 == queue'[shell]
<1>4. CASE q = <<>>
  <2>1. key' = 0 /\ queue' = queue /\ pc' = pc BY <1>3, <1>4
  <2>2. Types' BY <1>3, <2>1 DEF Types, TypeOK
  <2>3. Waiting' BY <1>3, <2>1 DEF Waiting
  <2>4. Consumed' = Consumed BY <1>3, <2>1 DEF Consumed
  <2> QED BY <2>2, <2>3, <2>4
<1>5. CASE q # <<>>
  <2>1. q \in Seq(Chars) /\ q2 = Tail(q) /\ key' = Head(q) BY <1>1, <1>3, <1>5
  <2>2. Tail(q) \in Seq(Chars) /\ Head(q) \in Chars /\ Head(q) = q[1] BY <1>5, <2>1
  <2>3. key' \in Chars /\ key' # 0 /\ pc' = "key" BY <1>3, <2>1, <2>2, ConsoleAssumption
  <2>4. Types'
    <3>1. queue' \in [{shell, child} -> Seq(Chars)] BY <1>1, <1>3, <1>5, <2>2
    <3> QED BY <1>3, <2>3, <3>1 DEF Types, TypeOK
  <2> HIDE DEF q, q2
  <2> DEFINE taken == Len(typed) - Len(q)
  <2>5. Len(q) \in Nat /\ Len(q) >= 1 /\ Len(q2) = Len(q) - 1 /\ \A n \in 1 .. Len(q2) : q2[n] = q[n + 1]
    BY <1>5, <2>1
  <2>6. taken >= 0 /\ taken \in Int /\ \A n \in 1 .. Len(q) : q[n] = typed[taken + n]
    BY <1>1, <2>5 DEF Waiting, q
  <2>7. Len(typed') - Len(q2) = taken + 1 BY <1>1, <1>3, <2>5
  <2> HIDE DEF taken
  <2>8. \A n \in 1 .. Len(q2) : q2[n] = typed'[(taken + 1) + n]
    <3> SUFFICES ASSUME NEW n \in 1 .. Len(q2) PROVE q2[n] = typed[(taken + 1) + n] BY <1>3
    <3>1. n + 1 \in 1 .. Len(q) /\ (taken + 1) + n = taken + (n + 1) BY <2>5, <2>6
    <3> QED BY <2>5, <2>6, <3>1
  <2>9. taken + 1 >= 1 /\ key' = typed'[taken + 1]
    <3>1. 1 \in 1 .. Len(q) BY <2>5
    <3> QED BY <1>3, <2>1, <2>2, <2>6, <3>1
  <2>10. Waiting'
    <3>1. current' = IF pc' \in {"child", "printed", "panic", "wild"} THEN child ELSE shell BY <1>2, <1>3, <2>3
    <3>2. taken + 1 >= 0 BY <2>6
    <3> QED BY <2>7, <2>8, <2>9, <3>1, <3>2 DEF Waiting, q2
  <2>11. Consumed' = Consumed
    <3>1. pc # "key" /\ pc' = "key" /\ typed' = typed BY <1>3, <2>3
    <3>2. Consumed = SubSeq(typed, 1, taken)
      <4>1. Consumed = SubSeq(typed, 1, taken - 0) BY <3>1 DEF Consumed, taken, q
      <4> QED BY <2>6, <4>1
    <3>3. Consumed' = SubSeq(typed, 1, (taken + 1) - 1) BY <2>7, <3>1 DEF Consumed, q2
    <3>4. (taken + 1) - 1 = taken BY <2>6
    <3> QED BY <3>2, <3>3, <3>4
  <2> QED BY <2>4, <2>10, <2>11
<1> QED BY <1>4, <1>5

(* The key in hand is dealt with.                                          *)
LEMMA KeyTaken ==
  ASSUME Types, Waiting, pc = "key", pc' \in {"getkey", "newline"}, UNCHANGED <<queue, current, key, typed>>
  PROVE  Waiting' /\ key \in Chars /\ Consumed' = Append(Consumed, key)
<1>1. /\ typed \in Seq(Chars) /\ Len(typed) \in Nat
      /\ queue[shell] \in Seq(Chars) /\ Len(queue[shell]) \in Nat
  BY DEF Types, TypeOK
<1>2. Waiting'
  <2>1. current' = IF pc' \in {"child", "printed", "panic", "wild"} THEN child ELSE shell BY DEF Waiting
  <2> QED BY <2>1 DEF Waiting
<1> DEFINE taken == Len(typed) - Len(queue[shell])
           k == taken - 1
<1>3. taken \in 1 .. Len(typed) /\ key = typed[taken] BY <1>1 DEF Waiting
<1>4. key \in Chars BY <1>1, <1>3
<1>5. Consumed = SubSeq(typed, 1, k) BY DEF Consumed
<1>6. Consumed' = SubSeq(typed, 1, taken)
  <2>1. Consumed' = SubSeq(typed, 1, taken - 0) BY DEF Consumed
  <2>2. taken - 0 = taken BY <1>3
  <2> QED BY <2>1, <2>2
<1> HIDE DEF taken
<1>7. SubSeq(typed, 1, taken) = Append(SubSeq(typed, 1, k), typed[taken])
  <2> DEFINE one == 1
             u == SubSeq(typed, one, k)
             v == SubSeq(typed, one, taken)
  <2>1. one \in 1 .. Len(typed) + 1 /\ k \in one - 1 .. Len(typed) /\ taken \in one - 1 .. Len(typed)
    BY <1>1, <1>3
  <2>2. one = 1 OBVIOUS
  <2>3. k \in Nat /\ k + 1 = taken BY <1>3
  <2> HIDE DEF one, k
  <2>4. u \in Seq(Chars) /\ Len(u) = k - one + 1 /\ \A j \in 1 .. k - one + 1 : u[j] = typed[one + j - 1]
    BY <1>1, <2>1, PartOf
  <2>5. /\ v \in Seq(Chars) /\ Len(v) = taken - one + 1
        /\ \A j \in 1 .. taken - one + 1 : v[j] = typed[one + j - 1]
    BY <1>1, <2>1, PartOf
  <2> HIDE DEF u, v
  <2>6. Len(u) = k /\ \A j \in 1 .. k : u[j] = typed[j] BY <2>2, <2>3, <2>4
  <2>7. Len(v) = taken /\ \A j \in 1 .. taken : v[j] = typed[j] BY <1>3, <2>2, <2>5
  <2> DEFINE w == Append(u, typed[taken])
  <2>8. w \in Seq(Chars) /\ Len(w) = taken /\ \A j \in 1 .. taken : w[j] = typed[j]
    BY <1>3, <1>4, <2>3, <2>4, <2>6
  <2> HIDE DEF w
  <2>9. v = w BY <2>5, <2>7, <2>8, SeqEqual
  <2> QED BY <2>9 DEF u, v, w, one
<1> QED BY <1>2, <1>3, <1>4, <1>5, <1>6, <1>7

-----------------------------------------------------------------------------
(* The edits *)

Buffers == [0 .. LineSize -> Chars \cup {0}]
TextOf(b, m) == [n \in 1 .. m |-> b[n - 1]]
Solid(b, m) == \A j \in 0 .. m - 1 : b[j] # 0

LEMMA TextOfType ==
  ASSUME NEW b \in Buffers, NEW m \in 0 .. LineSize, Solid(b, m)
  PROVE  /\ TextOf(b, m) \in Seq(Chars) /\ Len(TextOf(b, m)) = m
         /\ \A n \in 1 .. m : TextOf(b, m)[n] = b[n - 1]
<1>1. m \in Nat /\ \A n \in 1 .. m : n - 1 \in 0 .. m - 1 /\ n - 1 \in 0 .. LineSize
  BY ConsoleAssumption
<1>2. \A n \in 1 .. m : b[n - 1] \in Chars BY <1>1 DEF Buffers, Solid
<1>3. TextOf(b, m) \in [1 .. m -> Chars] /\ \A n \in 1 .. m : TextOf(b, m)[n] = b[n - 1]
  BY <1>2 DEF TextOf
<1> HIDE DEF TextOf
<1> QED BY <1>1, <1>3

LEMMA TextEnd ==
  ASSUME NEW b \in Buffers, NEW m \in 0 .. LineSize, Solid(b, m), NEW d, d = [b EXCEPT ![m] = 0]
  PROVE  d \in Buffers /\ Solid(d, m) /\ d[m] = 0 /\ TextOf(d, m) = TextOf(b, m)
<1>1. m \in Nat /\ LineSize \in Nat BY ConsoleAssumption
<1>2. d \in Buffers /\ d[m] = 0 /\ \A j \in 0 .. LineSize : j # m => d[j] = b[j] BY DEF Buffers
<1>3. \A j \in 0 .. m - 1 : d[j] = b[j] BY <1>1, <1>2
<1>4. Solid(d, m) BY <1>3 DEF Solid
<1>5. \A n \in 1 .. m : n - 1 \in 0 .. m - 1 BY <1>1
<1>6. TextOf(d, m) = TextOf(b, m) BY <1>3, <1>5 DEF TextOf
<1> QED BY <1>2, <1>4, <1>6

LEMMA TextErase ==
  ASSUME NEW b \in Buffers, NEW m \in 1 .. LineSize, Solid(b, m)
  PROVE  /\ [b EXCEPT ![m - 1] = 0] \in Buffers /\ Solid([b EXCEPT ![m - 1] = 0], m - 1)
         /\ TextOf([b EXCEPT ![m - 1] = 0], m - 1) = Front(TextOf(b, m))
         /\ \A j \in 0 .. m - 2 : [b EXCEPT ![m - 1] = 0][j] = b[j]
<1> DEFINE k == m - 1
           d == [b EXCEPT ![k] = 0]
           t == TextOf(b, m)
           u == TextOf(d, k)
<1>1. m \in Nat /\ LineSize \in Nat /\ k \in 0 .. LineSize /\ k \in Nat /\ m = k + 1 /\ k - 1 = m - 2
  BY ConsoleAssumption
<1>2. m \in 0 .. LineSize BY <1>1
<1> HIDE DEF k
<1>3. d \in Buffers /\ \A j \in 0 .. LineSize : j # k => d[j] = b[j] BY <1>1 DEF Buffers
<1> HIDE DEF d
<1>4. \A j \in 0 .. k - 1 : d[j] = b[j] /\ j \in 0 .. m - 1 BY <1>1, <1>3
<1>5. Solid(d, k) BY <1>4 DEF Solid
<1>6. t \in Seq(Chars) /\ Len(t) = m /\ \A n \in 1 .. m : t[n] = b[n - 1] BY <1>2, TextOfType
<1>7. u \in Seq(Chars) /\ Len(u) = k /\ \A n \in 1 .. k : u[n] = d[n - 1] BY <1>1, <1>3, <1>5, TextOfType
<1> HIDE DEF t, u
<1>8. t # <<>> BY <1>1, <1>6
<1>9. /\ Front(t) \in Seq(Chars) /\ Len(Front(t)) = Len(t) - 1
      /\ \A n \in 1 .. Len(t) - 1 : Front(t)[n] = t[n]
  BY <1>6, <1>8, FrontType
<1>10. Len(t) - 1 = k BY <1>1, <1>6
<1>11. \A n \in 1 .. k : u[n] = Front(t)[n]
  <2> SUFFICES ASSUME NEW n \in 1 .. k PROVE u[n] = Front(t)[n] OBVIOUS
  <2>1. n \in 1 .. m /\ n - 1 \in 0 .. k - 1 BY <1>1
  <2>2. u[n] = d[n - 1] /\ d[n - 1] = b[n - 1] /\ t[n] = b[n - 1] BY <1>4, <1>6, <1>7, <2>1
  <2>3. Front(t)[n] = t[n] BY <1>9, <1>10
  <2> QED BY <2>2, <2>3
<1>12. Len(Front(t)) = k BY <1>9, <1>10
<1>13. u = Front(t) BY <1>7, <1>9, <1>11, <1>12, SeqEqual
<1>14. \A j \in 0 .. m - 2 : d[j] = b[j] BY <1>1, <1>4
<1> QED BY <1>3, <1>5, <1>13, <1>14 DEF d, k, t, u

Added(b, m, c, d) ==
  /\ d \in Buffers /\ Solid(d, m + 1) /\ TextOf(d, m + 1) = Append(TextOf(b, m), c)
  /\ d[m] = c /\ \A j \in 0 .. m - 1 : d[j] = b[j]

LEMMA TextAdd ==
  ASSUME NEW b \in Buffers, NEW m \in 0 .. LineSize - 1, Solid(b, m), NEW c \in Chars,
         NEW d, d = [b EXCEPT ![m] = c]
  PROVE  Added(b, m, c, d)
<1> DEFINE k == m + 1
           t == TextOf(b, m)
           u == TextOf(d, k)
<1>1. m \in Nat /\ LineSize \in Nat /\ k \in 0 .. LineSize /\ k \in Nat /\ k - 1 = m /\ m \in 0 .. LineSize
  BY ConsoleAssumption
<1> HIDE DEF k
<1>2. d \in Buffers /\ d[m] = c /\ c # 0 /\ \A j \in 0 .. LineSize : j # m => d[j] = b[j]
  BY <1>1, ConsoleAssumption DEF Buffers
<1>3. \A j \in 0 .. m - 1 : d[j] = b[j] BY <1>1, <1>2
<1>4. Solid(d, k)
  <2> SUFFICES ASSUME NEW j \in 0 .. k - 1 PROVE d[j] # 0 BY DEF Solid
  <2>1. j = m \/ j \in 0 .. m - 1 BY <1>1
  <2> QED BY <1>2, <1>3, <2>1 DEF Solid
<1>5. t \in Seq(Chars) /\ Len(t) = m /\ \A n \in 1 .. m : t[n] = b[n - 1] BY <1>1, TextOfType
<1>6. u \in Seq(Chars) /\ Len(u) = k /\ \A n \in 1 .. k : u[n] = d[n - 1] BY <1>1, <1>2, <1>4, TextOfType
<1> HIDE DEF t, u
<1> DEFINE a == Append(t, c)
<1>7. a \in Seq(Chars) /\ Len(a) = m + 1 /\ a[m + 1] = c /\ \A n \in 1 .. m : a[n] = t[n] BY <1>5
<1> HIDE DEF a
<1>8. Len(a) = k BY <1>7 DEF k
<1>9. ASSUME NEW n \in 1 .. k PROVE u[n] = a[n]
  <2>1. CASE n = k
    <3>1. n - 1 = m /\ n = m + 1 BY <1>1, <2>1
    <3> QED BY <1>2, <1>6, <1>7, <3>1
  <2>2. CASE n # k
    <3>1. n \in 1 .. m /\ n - 1 \in 0 .. m - 1 BY <1>1, <2>2
    <3> QED BY <1>3, <1>5, <1>6, <1>7, <3>1
  <2> QED BY <2>1, <2>2
<1>10. u = a BY <1>6, <1>7, <1>8, <1>9, SeqEqual
<1> QED BY <1>2, <1>3, <1>4, <1>10 DEF a, k, t, u, Added

(* What a key does to the session.                                         *)
LEMMA KeyedCases ==
  ASSUME NEW s \in Sessions, NEW c \in Chars
  PROVE  /\ c = CR => Keyed(s, c).line = <<>> /\ Keyed(s, c).ended = Append(s.ended, s.line)
         /\ c = Backspace /\ s.line = <<>> => Keyed(s, c).line = <<>>
         /\ c = Backspace /\ s.line # <<>> /\ Len(s.line) <= LineSize => Keyed(s, c).line = Front(s.line)
         /\ c # CR /\ c # Backspace /\ Len(s.line) + 1 < LineSize => Keyed(s, c).line = Append(s.line, c)
         /\ c # CR /\ c # Backspace /\ Len(s.line) + 1 = LineSize =>
              Keyed(s, c).line = <<>> /\ Keyed(s, c).ended = Append(s.ended, Append(s.line, c))
<1> DEFINE line == IF c = CR THEN s.line
                   ELSE IF c # Backspace THEN Append(s.line, c)
                   ELSE IF s.line = <<>> THEN <<>> ELSE Front(s.line)
           k == Keyed(s, c)
<1>1. /\ s.line \in Seq(Chars) /\ LineSize \in Nat /\ LineSize # 0 /\ Len(s.line) \in Nat /\ CR # Backspace
      /\ DOMAIN s = {"line", "ended"}
  BY ConsoleAssumption DEF Sessions, CR, Backspace
<1>2. Keyed(s, c) = IF c = CR \/ Len(line) = LineSize
                      THEN [line |-> <<>>, ended |-> Append(s.ended, line)]
                      ELSE [s EXCEPT !.line = line]
  BY DEF Keyed
<1>3. [s EXCEPT !.line = line].line = line BY <1>1 DEF Sessions
<1>4. CASE c = CR BY <1>1, <1>2, <1>4
<1>5. CASE c = Backspace
  <2>1. c # CR BY <1>1, <1>5
  <2>2. CASE s.line = <<>>
    <3>1. line = <<>> /\ Len(line) # LineSize BY <1>1, <1>5, <2>1, <2>2
    <3> HIDE DEF line
    <3>2. k.line = line BY <1>2, <1>3, <2>1, <3>1
    <3> QED BY <1>5, <2>1, <2>2, <3>1, <3>2
  <2>3. CASE s.line # <<>>
    <3>1. line = Front(s.line) BY <1>5, <2>1, <2>3
    <3> HIDE DEF line
    <3>2. Len(line) = Len(s.line) - 1 BY <1>1, <2>3, <3>1, FrontType
    <3>3. Len(s.line) <= LineSize => Len(line) # LineSize BY <1>1, <3>2
    <3>4. Len(s.line) <= LineSize => k.line = line BY <1>2, <1>3, <2>1, <3>3
    <3> QED BY <1>5, <2>1, <2>3, <3>1, <3>4
  <2> QED BY <2>2, <2>3
<1>6. CASE c # CR /\ c # Backspace
  <2>1. line = Append(s.line, c) BY <1>6
  <2> HIDE DEF line
  <2>2. Len(line) = Len(s.line) + 1 BY <1>1, <2>1
  <2>3. CASE Len(s.line) + 1 = LineSize
    <3>1. k = [line |-> <<>>, ended |-> Append(s.ended, line)] BY <1>2, <2>2, <2>3
    <3>2. k.line = <<>> /\ k.ended = Append(s.ended, line) BY <3>1
    <3> HIDE DEF k
    <3>3. ~(Len(s.line) + 1 < LineSize) BY <1>1, <2>3
    <3> QED BY <1>6, <2>1, <3>2, <3>3 DEF k
  <2>4. CASE Len(s.line) + 1 # LineSize
    <3>1. k = [s EXCEPT !.line = line] BY <1>2, <1>6, <2>2, <2>4
    <3>2. k.line = line BY <1>3, <3>1
    <3> QED BY <1>6, <2>1, <2>4, <3>2
  <2> QED BY <2>3, <2>4
<1> QED BY <1>4, <1>5, <1>6

LEMMA LastOfAppend ==
  ASSUME NEW e \in Seq(Seq(Chars)), NEW t \in Seq(Chars)
  PROVE  Append(e, t) # <<>> /\ Last(Append(e, t)) = t
<1> DEFINE a == Append(e, t)
<1>1. a \in Seq(Seq(Chars)) /\ Len(a) = Len(e) + 1 /\ a[Len(e) + 1] = t /\ Len(e) \in Nat OBVIOUS
<1> HIDE DEF a
<1>2. a # <<>> /\ Last(a) = t BY <1>1 DEF Last
<1> QED BY <1>2 DEF a

-----------------------------------------------------------------------------
(* Reading a line *)

(* What holds when the shell has a key in hand.                            *)
LEMMA KeyInHand ==
  ASSUME IInv, pc = "key"
  PROVE  /\ buf \in Buffers /\ Solid(buf, i) /\ i \in 0 .. LineSize - 1 /\ i \in Nat /\ LineSize \in Nat
         /\ Session(Consumed) \in Sessions /\ Session(Consumed).line = TextOf(buf, i)
         /\ TextOf(buf, i) \in Seq(Chars) /\ Len(TextOf(buf, i)) = i
         /\ key \in Chars /\ key # 0 /\ key # Newline
         /\ terminal \in Terminals
<1>1. Reading BY DEF Reading
<1>2. buf \in Buffers /\ i \in 0 .. LineSize /\ LineSize \in Nat /\ i < LineSize
  BY <1>1, ConsoleAssumption DEF IInv, Types, TypeOK, Buffers, LineRead
<1>3. i \in Nat /\ i \in 0 .. LineSize - 1 BY <1>2
<1>4. Solid(buf, i) BY <1>1 DEF IInv, LineRead, Solid
<1>5. TextOf(buf, i) \in Seq(Chars) /\ Len(TextOf(buf, i)) = i BY <1>2, <1>4, TextOfType
<1>6. Consumed \in Seq(Chars) BY ConsumedType DEF IInv
<1>7. key \in Chars
  <2>1. typed \in Seq(Chars) /\ Len(typed) \in Nat /\ queue[shell] \in Seq(Chars) /\ Len(queue[shell]) \in Nat
    BY DEF IInv, Types, TypeOK
  <2> DEFINE taken == Len(typed) - Len(queue[shell])
  <2>2. taken \in 1 .. Len(typed) /\ key = typed[taken] BY <2>1 DEF IInv, Waiting
  <2> QED BY <2>1, <2>2
<1>8. Session(Consumed) \in Sessions BY <1>6, <1>7, SessionAppend
<1>9. Session(Consumed).line = TextOf(buf, i) BY <1>1 DEF IInv, LineRead, Text, TextOf
<1>10. key # 0 /\ key # Newline BY <1>7, ConsoleAssumption
<1>11. terminal \in Terminals BY DEF IInv, Types
<1> QED BY <1>2, <1>3, <1>4, <1>5, <1>7, <1>8, <1>9, <1>10, <1>11

(* The steps of kernel_terminal_readline.                                  *)
LEMMA ReadlineCases ==
  ASSUME IInv, kernel_terminal_readline
  PROVE  /\ pc = "key" /\ UNCHANGED <<queue, current, key, sp, nodes, start, number, garbled, listed, typed>>
         /\ \/ /\ key = CR /\ pc' = "newline" /\ i' = i /\ buf' = [buf EXCEPT ![i] = 0]
               /\ terminal' = terminal
            \/ /\ key = Backspace /\ i = 0 /\ pc' = "getkey" /\ i' = 0 /\ buf' = [buf EXCEPT ![i] = 0]
               /\ terminal' = terminal
            \/ /\ key = Backspace /\ i >= 1 /\ pc' = "getkey" /\ i' = i - 1
               /\ buf' = [buf EXCEPT ![i - 1] = 0]
               /\ terminal' = terminal_write_char(terminal, key)
            \/ /\ key # CR /\ key # Backspace /\ i + 1 < LineSize /\ pc' = "getkey" /\ i' = i + 1
               /\ buf' = [buf EXCEPT ![i] = key]
               /\ terminal' = terminal_write_char(terminal, key)
            \/ /\ key # CR /\ key # Backspace /\ i + 1 = LineSize /\ pc' = "newline" /\ i' = i + 1
               /\ buf' = [[buf EXCEPT ![i] = key] EXCEPT ![i + 1] = 0]
               /\ terminal' = terminal_write_char(terminal, key)
<1> DEFINE edited == IF key = CR THEN [buf |-> buf, i |-> i] ELSE Edited(key)
<1>1. /\ pc = "key" /\ UNCHANGED <<queue, current, key, sp, nodes, start, number, garbled, listed, typed>>
      /\ terminal' = (IF key = CR THEN terminal ELSE Echo(key))
      /\ i' = edited.i
      /\ IF LineEnds(key, edited.i)
           THEN buf' = [edited.buf EXCEPT ![edited.i] = 0] /\ pc' = "newline"
           ELSE buf' = edited.buf /\ pc' = "getkey"
  BY DEF kernel_terminal_readline, keyvars, parsevars
<1>2. i \in Nat /\ LineSize \in Nat /\ i \in 0 .. LineSize - 1 /\ key \in Chars /\ terminal \in Terminals
  BY <1>1, KeyInHand
<1>3. terminal_print(terminal, <<key>>) = terminal_write_char(terminal, key)
  <2>1. key \in Int BY <1>2, ConsoleAssumption
  <2> QED BY <1>2, <2>1, PrintOne
<1>4. CR # Backspace BY DEF CR, Backspace
<1>5. CASE key = CR
  <2>1. edited.i = i /\ edited.buf = buf BY <1>5
  <2> HIDE DEF edited
  <2> QED BY <1>1, <1>5, <2>1 DEF LineEnds
<1>6. CASE key = Backspace /\ i = 0
  <2>1. edited.i = 0 /\ edited.buf = [buf EXCEPT ![i] = 0] BY <1>4, <1>6 DEF Edited
  <2> HIDE DEF edited
  <2>2. ~LineEnds(key, edited.i) BY <1>2, <1>4, <1>6, <2>1 DEF LineEnds
  <2>3. Echo(key) = terminal BY <1>6 DEF Echo
  <2> QED BY <1>1, <1>4, <1>6, <2>1, <2>2, <2>3
<1>7. CASE key = Backspace /\ i >= 1
  <2>1. edited.i = i - 1 /\ edited.buf = [buf EXCEPT ![i - 1] = 0]
    <3>1. i # 0 /\ key # CR /\ key = Backspace BY <1>2, <1>4, <1>7
    <3>2. Edited(key) = [buf |-> [buf EXCEPT ![i - 1] = 0], i |-> i - 1] BY <3>1 DEF Edited
    <3> QED BY <3>1, <3>2
  <2> HIDE DEF edited
  <2>2. ~LineEnds(key, edited.i) BY <1>2, <1>4, <1>7, <2>1 DEF LineEnds
  <2>3. Echo(key) = terminal_write_char(terminal, key) BY <1>3, <1>7 DEF Echo
  <2> QED BY <1>1, <1>4, <1>7, <2>1, <2>2, <2>3
<1>8. CASE key # CR /\ key # Backspace
  <2>1. edited.i = i + 1 /\ edited.buf = [buf EXCEPT ![i] = key] BY <1>8 DEF Edited
  <2> HIDE DEF edited
  <2>2. Echo(key) = terminal_write_char(terminal, key) BY <1>3, <1>8 DEF Echo
  <2>3. LineEnds(key, edited.i) <=> i + 1 = LineSize BY <1>8, <2>1 DEF LineEnds
  <2>4. CASE i + 1 = LineSize BY <1>1, <1>8, <2>1, <2>2, <2>3, <2>4
  <2>5. CASE i + 1 # LineSize
    <3>1. i + 1 < LineSize BY <1>2, <2>5
    <3> QED BY <1>1, <1>8, <2>1, <2>2, <2>3, <2>5, <3>1
  <2> QED BY <2>4, <2>5
<1>9. i = 0 \/ i >= 1 BY <1>2
<1> QED BY <1>5, <1>6, <1>7, <1>8, <1>9

LEMMA ReadlineLine ==
  ASSUME IInv, kernel_terminal_readline
  PROVE  Types' /\ Waiting' /\ LineRead'
<1> DEFINE s == Session(Consumed)
           z == Session(Consumed')
           t == TextOf(buf, i)
<1>1. pc = "key" /\ pc' \in {"getkey", "newline"}
      /\ UNCHANGED <<queue, current, key, sp, nodes, start, number, garbled, listed, typed>>
  BY ReadlineCases
<1>2. /\ buf \in Buffers /\ Solid(buf, i) /\ i \in 0 .. LineSize - 1 /\ i \in Nat /\ LineSize \in Nat
      /\ s \in Sessions /\ s.line = t /\ t \in Seq(Chars) /\ Len(t) = i
      /\ key \in Chars /\ key # 0 /\ terminal \in Terminals
  BY <1>1, KeyInHand
<1>3. i \in 0 .. LineSize /\ s.ended \in Seq(Seq(Chars)) BY <1>2 DEF Sessions
<1>4. Waiting' /\ Consumed' = Append(Consumed, key) BY <1>1, KeyTaken DEF IInv
<1>5. z = Keyed(s, key) /\ z \in Sessions
  <2>1. Consumed \in Seq(Chars) BY ConsumedType DEF IInv
  <2>2. Session(Append(Consumed, key)) = Keyed(Session(Consumed), key) BY <1>2, <2>1, SessionAppend
  <2>3. Keyed(s, key) \in Sessions BY <1>2, KeyedType
  <2> QED BY <1>4, <2>2, <2>3
<1>6. Text' = TextOf(buf', i') BY DEF Text, TextOf
<1> HIDE DEF s, z, t
(* The types, and the line that is read, from the new text.               *)
<1>7. ASSUME buf' \in Buffers, i' \in 0 .. LineSize, terminal' \in Terminals PROVE Types'
  <2>1. terminal'.row \in Nat /\ terminal'.col \in 0 .. Width - 1 BY <1>7 DEF Terminals
  <2>2. pc' \in {"prompt", "getkey", "key", "newline", "parse", "system", "child", "printed",
                "panic", "wild"} BY <1>1
  <2> QED BY <1>1, <1>7, <2>1, <2>2 DEF IInv, Types, TypeOK, Buffers
<1>8. ASSUME pc' = "getkey", i' < LineSize, z.line = TextOf(buf', i'), Solid(buf', i') PROVE LineRead'
  <2>1. Reading' /\ ~Ended' BY <1>8 DEF Reading, Ended
  <2>2. Session(Consumed)' = z BY DEF z
  <2>3. z.line = Text' BY <1>6, <1>8
  <2> QED BY <1>8, <2>1, <2>2, <2>3 DEF LineRead, Solid
<1>9. ASSUME pc' = "newline", z.line = <<>>, z.ended = Append(s.ended, TextOf(buf', i')), buf' \in Buffers,
             i' \in 0 .. LineSize, Solid(buf', i'), buf'[i'] = 0
      PROVE  LineRead'
  <2>1. ~Reading' /\ Ended' BY <1>9 DEF Reading, Ended
  <2>2. Session(Consumed)' = z BY DEF z
  <2>3. TextOf(buf', i') \in Seq(Chars) BY <1>9, TextOfType
  <2>4. z.ended # <<>> /\ Last(z.ended) = TextOf(buf', i') BY <1>3, <1>9, <2>3, LastOfAppend
  <2>5. z.ended # <<>> /\ Last(z.ended) = Text' BY <1>6, <2>4
  <2> QED BY <1>9, <2>1, <2>2, <2>5 DEF LineRead, Solid
<1>10. CASE /\ key = CR /\ pc' = "newline" /\ i' = i /\ buf' = [buf EXCEPT ![i] = 0]
            /\ terminal' = terminal
  <2>1. buf' \in Buffers /\ Solid(buf', i') /\ buf'[i'] = 0 /\ TextOf(buf', i') = t
    <3>1. buf \in Buffers /\ Solid(buf, i) /\ i \in 0 .. LineSize BY <1>2, <1>3
    <3>2. buf' = [buf EXCEPT ![i] = 0] /\ i' = i BY <1>10
    <3>3. buf' \in Buffers /\ Solid(buf', i) /\ buf'[i] = 0 /\ TextOf(buf', i) = TextOf(buf, i)
      BY <3>1, <3>2, TextEnd
    <3> QED BY <3>2, <3>3 DEF t
  <2>2. z.line = <<>> /\ z.ended = Append(s.ended, s.line) BY <1>2, <1>5, <1>10, KeyedCases
  <2>3. LineRead' BY <1>2, <1>3, <1>9, <1>10, <2>1, <2>2
  <2>4. Types' BY <1>2, <1>3, <1>7, <1>10, <2>1
  <2> QED BY <1>4, <2>3, <2>4
<1>11. CASE /\ key = Backspace /\ i = 0 /\ pc' = "getkey" /\ i' = 0 /\ buf' = [buf EXCEPT ![i] = 0]
            /\ terminal' = terminal
  <2>1. buf' \in Buffers /\ Solid(buf', i) /\ TextOf(buf', i) = t
    BY <1>2, <1>3, <1>11, TextEnd DEF t
  <2>2. t = <<>> BY <1>2, <1>11
  <2>3. z.line = <<>> BY <1>2, <1>5, <1>11, <2>2, KeyedCases
  <2>4. i' = i BY <1>11
  <2>5. i' < LineSize BY <1>2, <1>11
  <2>6. LineRead' BY <1>8, <1>11, <2>1, <2>2, <2>3, <2>4, <2>5
  <2>7. Types' BY <1>2, <1>3, <1>7, <1>11, <2>1, <2>4
  <2> QED BY <1>4, <2>6, <2>7
<1>12. CASE /\ key = Backspace /\ i >= 1 /\ pc' = "getkey" /\ i' = i - 1
            /\ buf' = [buf EXCEPT ![i - 1] = 0]
            /\ terminal' = terminal_write_char(terminal, key)
  <2>1. i \in 1 .. LineSize BY <1>2, <1>12
  <2>2. buf' \in Buffers /\ Solid(buf', i') /\ TextOf(buf', i') = Front(t)
    BY <1>2, <1>12, <2>1, TextErase DEF t
  <2>3. t # <<>> /\ Len(s.line) <= LineSize BY <1>2, <2>1
  <2>4. z.line = Front(t) BY <1>2, <1>5, <1>12, <2>3, KeyedCases
  <2>5. i' < LineSize /\ i' \in 0 .. LineSize BY <1>2, <1>12
  <2>6. LineRead' BY <1>8, <1>12, <2>2, <2>4, <2>5
  <2>7. terminal' \in Terminals
    <3>1. key \in Int BY <1>2, ConsoleAssumption
    <3> QED BY <1>2, <1>12, <3>1, WriteType
  <2>8. Types' BY <1>7, <2>2, <2>5, <2>7
  <2> QED BY <1>4, <2>6, <2>8
<1>13. ASSUME key # CR, key # Backspace, terminal' = terminal_write_char(terminal, key), i' = i + 1,
              \/ i + 1 < LineSize /\ pc' = "getkey" /\ buf' = [buf EXCEPT ![i] = key]
              \/ i + 1 = LineSize /\ pc' = "newline" /\ buf' = [[buf EXCEPT ![i] = key] EXCEPT ![i + 1] = 0]
       PROVE  Types' /\ LineRead'
  <2> DEFINE b == [buf EXCEPT ![i] = key]
  <2>1. b \in Buffers /\ Solid(b, i + 1) /\ TextOf(b, i + 1) = Append(t, key)
    <3>1. Added(buf, i, key, b) BY <1>2, TextAdd
    <3> HIDE DEF b
    <3> QED BY <3>1 DEF t, Added
  <2>2. i' \in 0 .. LineSize /\ Len(s.line) + 1 = i' /\ i + 1 \in 0 .. LineSize BY <1>2, <1>13
  <2>3. terminal' \in Terminals
    <3>1. key \in Int BY <1>2, ConsoleAssumption
    <3> QED BY <1>2, <1>13, <3>1, WriteType
  <2>4. CASE i + 1 < LineSize /\ pc' = "getkey" /\ buf' = b
    <3>1. z.line = Append(t, key) BY <1>2, <1>5, <1>13, <2>4, KeyedCases
    <3>2. LineRead' BY <1>8, <1>13, <2>1, <2>4, <3>1
    <3> HIDE DEF b
    <3> QED BY <1>7, <2>1, <2>2, <2>3, <2>4, <3>2
  <2>5. CASE i + 1 = LineSize /\ pc' = "newline" /\ buf' = [b EXCEPT ![i + 1] = 0]
    <3> HIDE DEF b
    <3>1. z.line = <<>> /\ z.ended = Append(s.ended, Append(t, key)) BY <1>2, <1>5, <1>13, <2>5, KeyedCases
    <3>2. buf' \in Buffers /\ Solid(buf', i + 1) /\ buf'[i + 1] = 0 /\ TextOf(buf', i + 1) = TextOf(b, i + 1)
      BY <2>1, <2>2, <2>5, TextEnd
    <3>3. buf' \in Buffers /\ Solid(buf', i') /\ buf'[i'] = 0 /\ TextOf(buf', i') = Append(t, key)
      BY <1>13, <2>1, <3>2
    <3>4. LineRead' BY <1>9, <2>2, <2>5, <3>1, <3>3
    <3> QED BY <1>7, <2>2, <2>3, <3>3, <3>4
  <2> QED BY <1>13, <2>4, <2>5
<1> QED BY <1>4, <1>10, <1>11, <1>12, <1>13, ReadlineCases

LEMMA ReadlineShown ==
  ASSUME IInv, kernel_terminal_readline
  PROVE  Shown'
<1> DEFINE k == Cursor(terminal)
<1>1. pc = "key" /\ start' = start /\ garbled' = garbled BY ReadlineCases
<1>2. /\ buf \in Buffers /\ Solid(buf, i) /\ i \in 0 .. LineSize - 1 /\ i \in Nat /\ LineSize \in Nat
      /\ key \in Chars /\ key # Newline /\ terminal \in Terminals
  BY <1>1, KeyInHand
<1>3. key \in Int BY <1>2, ConsoleAssumption
<1>4. k \in Nat BY <1>2, CursorNat
<1>5. start \in Nat BY DEF IInv, Types, TypeOK
<1>6. /\ k = start + i
      /\ ~garbled => start >= 1 /\ Cell(terminal, start - 1) = Prompt
      /\ \A n \in 0 .. i - 1 : Cell(terminal, start + n) = buf[n]
      /\ Blank(terminal)
  BY <1>1 DEF IInv, Shown, Reading
<1>7. CASE /\ key = CR /\ pc' = "newline" /\ i' = i /\ buf' = [buf EXCEPT ![i] = 0]
           /\ terminal' = terminal
  BY <1>6, <1>7 DEF Shown, Reading
<1>8. CASE /\ key = Backspace /\ i = 0 /\ pc' = "getkey" /\ i' = 0 /\ buf' = [buf EXCEPT ![i] = 0]
           /\ terminal' = terminal
  <2>1. Cursor(terminal') = start' + i' /\ \A n \in 0 .. i' - 1 : FALSE BY <1>1, <1>4, <1>5, <1>6, <1>8
  <2>2. Blank(terminal') /\ (~garbled' => start' >= 1 /\ Cell(terminal', start' - 1) = Prompt)
    BY <1>1, <1>6, <1>8
  <2> QED BY <2>1, <2>2 DEF Shown
<1>9. CASE /\ key = Backspace /\ i >= 1 /\ pc' = "getkey" /\ i' = i - 1
           /\ buf' = [buf EXCEPT ![i - 1] = 0]
           /\ terminal' = terminal_write_char(terminal, key)
  <2>1. k # 0 BY <1>2, <1>5, <1>6, <1>9
  <2>2. Writes(terminal, terminal', k - 1, k - 1, Space) BY <1>2, <1>9, <2>1, WriteBackspace
  <2>3. terminal' \in Terminals /\ Cursor(terminal') = k - 1
        /\ \A q \in Nat : Cell(terminal', q) = IF q = k - 1 THEN Space ELSE Cell(terminal, q)
    BY <2>2 DEF Writes
  <2> HIDE DEF k
  <2>4. Cursor(terminal') = start' + i' BY <1>1, <1>2, <1>5, <1>6, <1>9, <2>3
  <2>5. Blank(terminal')
    <3> SUFFICES ASSUME NEW q \in Nat, q >= k - 1 PROVE Cell(terminal', q) = Space BY <2>3 DEF Blank
    <3>1. q # k - 1 => q >= k BY <1>4
    <3> QED BY <1>6, <2>3, <3>1 DEF Blank, k
  <2>6. ASSUME ~garbled PROVE start' >= 1 /\ Cell(terminal', start' - 1) = Prompt
    <3>1. start - 1 \in Nat /\ start - 1 # k - 1 BY <1>2, <1>4, <1>5, <1>6, <1>9, <2>6
    <3> QED BY <1>1, <1>6, <2>3, <2>6, <3>1
  <2>7. ASSUME NEW n \in 0 .. i' - 1 PROVE Cell(terminal', start' + n) = buf'[n]
    <3>1. n \in 0 .. i - 2 /\ n \in 0 .. i - 1 /\ start + n \in Nat /\ start + n # k - 1
      BY <1>2, <1>4, <1>5, <1>6, <1>9
    <3>2. buf'[n] = buf[n]
      <4>1. i \in 1 .. LineSize BY <1>2, <1>9
      <4> QED BY <1>2, <1>9, <3>1, <4>1, TextErase
    <3> QED BY <1>1, <1>6, <2>3, <3>1, <3>2
  <2> QED BY <1>1, <1>6, <2>4, <2>5, <2>6, <2>7 DEF Shown
<1>10. ASSUME key # Backspace, terminal' = terminal_write_char(terminal, key)
       PROVE  /\ Blank(terminal') /\ Cursor(terminal') = k + 1
              /\ \A q \in Nat : Cell(terminal', q) = IF q = k THEN key ELSE Cell(terminal, q)
  <2>1. Writes(terminal, terminal', k + 1, k, key) BY <1>2, <1>3, <1>10, WritePlain
  <2>2. Blank(terminal') BY <1>2, <1>3, <1>6, <1>10, WritesBlank
  <2> QED BY <2>1, <2>2 DEF Writes
<1>11. CASE /\ key # CR /\ key # Backspace /\ i + 1 < LineSize /\ pc' = "getkey" /\ i' = i + 1
            /\ buf' = [buf EXCEPT ![i] = key]
            /\ terminal' = terminal_write_char(terminal, key)
  <2>1. /\ Blank(terminal') /\ Cursor(terminal') = k + 1
        /\ \A q \in Nat : Cell(terminal', q) = IF q = k THEN key ELSE Cell(terminal, q)
    BY <1>10, <1>11
  <2> HIDE DEF k
  <2>2. Cursor(terminal') = start' + i' BY <1>1, <1>2, <1>5, <1>6, <1>11, <2>1
  <2>3. ASSUME ~garbled PROVE start' >= 1 /\ Cell(terminal', start' - 1) = Prompt
    <3>1. start - 1 \in Nat /\ start - 1 # k BY <1>2, <1>4, <1>5, <1>6, <2>3
    <3> QED BY <1>1, <1>6, <2>1, <2>3, <3>1
  <2>4. ASSUME NEW n \in 0 .. i' - 1 PROVE Cell(terminal', start' + n) = buf'[n]
    <3>1. start + n \in Nat /\ (n = i \/ n \in 0 .. i - 1) BY <1>2, <1>5, <1>11
    <3>2. buf'[i] = key /\ \A j \in 0 .. i - 1 : buf'[j] = buf[j]
      <4>1. Added(buf, i, key, buf') BY <1>2, <1>11, TextAdd
      <4> QED BY <4>1 DEF Added
    <3>3. CASE n = i BY <1>1, <1>6, <2>1, <3>1, <3>2, <3>3
    <3>4. CASE n \in 0 .. i - 1
      <4>1. start + n # k BY <1>2, <1>5, <1>6, <3>4
      <4> QED BY <1>1, <1>6, <2>1, <3>1, <3>2, <3>4, <4>1
    <3> QED BY <3>1, <3>3, <3>4
  <2> QED BY <1>1, <1>6, <2>1, <2>2, <2>3, <2>4 DEF Shown
<1>12. CASE /\ key # CR /\ key # Backspace /\ i + 1 = LineSize /\ pc' = "newline" /\ i' = i + 1
            /\ buf' = [[buf EXCEPT ![i] = key] EXCEPT ![i + 1] = 0]
            /\ terminal' = terminal_write_char(terminal, key)
  BY <1>10, <1>12 DEF Shown, Reading
<1> QED BY <1>7, <1>8, <1>9, <1>11, <1>12, ReadlineCases

-----------------------------------------------------------------------------
(* The words *)

LEMMA MinOf ==
  ASSUME NEW S, S \subseteq Nat, S # {}
  PROVE  Min(S) \in S /\ \A n \in S : Min(S) <= n
<1>1. \E k \in S : \A n \in S : k <= n BY LowestOf
<1> QED BY <1>1 DEF Min

(* strtok finds the first word at or behind sp, all of it.                 *)
TokenAt(s, from, end) ==
  /\ from \in sp .. Len(s) /\ s[from] # Space
  /\ \A n \in sp .. Len(s) : s[n] # Space => from <= n
  /\ end \in from + 1 .. Len(s) + 1
  /\ end = Len(s) + 1 \/ s[end] = Space
  /\ \A n \in from .. end - 1 : s[n] # Space

LEMMA TokenFound ==
  ASSUME NEW s \in Seq(Chars), sp \in Nat, NEW from \in TokenStart(s)
  PROVE  TokenAt(s, from, TokenEnd(s, from))
<1> DEFINE L == Len(s)
           A == {n \in sp .. L : s[n] # Space}
           B == {n \in from .. L : s[n] = Space} \cup {L + 1}
           end == TokenEnd(s, from)
<1>1. L \in Nat OBVIOUS
<1>2. A # {} /\ from = Min(A) BY DEF TokenStart
<1>3. A \subseteq Nat BY <1>1
<1>4. from \in A /\ \A n \in A : from <= n
  <2> HIDE DEF A
  <2> QED BY <1>2, <1>3, MinOf
<1>5. from \in sp .. L /\ s[from] # Space /\ \A n \in sp .. L : s[n] # Space => from <= n BY <1>4
<1>6. from \in Nat /\ from <= L BY <1>1, <1>5
<1>7. end = Min(B) BY DEF TokenEnd
<1>8. B \subseteq Nat /\ B # {} BY <1>1, <1>6
<1>9. end \in B /\ \A n \in B : end <= n
  <2> HIDE DEF B, end
  <2> QED BY <1>7, <1>8, MinOf
<1> HIDE DEF end
<1>10. end = L + 1 \/ (end \in from .. L /\ s[end] = Space) BY <1>9
<1>11. end \in from + 1 .. L + 1
  <2>1. end # from BY <1>1, <1>5, <1>6, <1>10
  <2> QED BY <1>1, <1>6, <1>10, <2>1
<1>12. ASSUME NEW n \in from .. end - 1 PROVE s[n] # Space
  <2>1. n \in from .. L /\ ~(end <= n) BY <1>1, <1>6, <1>11
  <2> QED BY <1>9, <2>1
<1> QED BY <1>5, <1>10, <1>11, <1>12 DEF TokenAt, end

LEMMA TokenIsWord ==
  ASSUME NEW s \in Seq(Chars), sp \in Nat, NEW from, NEW end, TokenAt(s, from, end)
  PROVE  WordAt(s, from) = SubSeq(s, from, end - 1)
<1> DEFINE L == Len(s)
           S == {j \in from .. L : \A x \in from .. j : s[x] # Space}
           k == end - 1
<1>1. L \in Nat /\ from \in Nat /\ end \in Nat /\ end >= from + 1 /\ end <= L + 1 BY DEF TokenAt
<1>2. k \in S
  <2>1. k \in from .. L BY <1>1
  <2> QED BY <2>1 DEF TokenAt
<1>3. ASSUME NEW j \in S PROVE j <= k
  <2>1. j \in from .. L /\ \A x \in from .. j : s[x] # Space BY <1>3
  <2>2. CASE j <= k BY <2>2
  <2>3. CASE ~(j <= k)
    <3>1. end \in from .. j /\ end # L + 1 BY <1>1, <2>1, <2>3
    <3>2. s[end] = Space BY <3>1 DEF TokenAt
    <3> QED BY <2>1, <3>1, <3>2
  <2> QED BY <2>2, <2>3
<1>4. S \subseteq Int /\ k \in Int BY <1>1
<1>5. WordAt(s, from) = SubSeq(s, from, Max(S)) BY DEF WordAt
<1> HIDE DEF S, k
<1>6. \A j \in S : (\A y \in S : j >= y) => j = k BY <1>2, <1>3, <1>4
<1>7. \A y \in S : k >= y BY <1>3, <1>4
<1>8. Max(S) = k BY <1>2, <1>6, <1>7 DEF Max
<1> QED BY <1>5, <1>8 DEF k

LEMMA NextWord ==
  ASSUME NEW s \in Seq(Chars), sp \in Nat, nodes \in Seq(Seq(Chars)), Parsed(s, nodes, sp),
         NEW from, NEW end, TokenAt(s, from, end),
         NEW word \in Seq(Chars), word = strncpy(SubSeq(s, from, end - 1), MaxArgument)
  PROVE  Parsed(s, Append(nodes, word), end + 1)
<1> DEFINE L == Len(s)
           K == Len(nodes)
           W == WordStarts(s)
           ns == Append(nodes, word)
<1>1. L \in Nat /\ from \in Nat /\ end \in Nat /\ end >= from + 1 /\ end <= L + 1 /\ K \in Nat /\ sp >= 1
  BY DEF TokenAt, Parsed
<1>2. from \in 1 .. L /\ from >= sp /\ DOMAIN s = 1 .. L BY <1>1 DEF TokenAt
<1>3. from \in W
  <2>1. s[from] # Space BY DEF TokenAt
  <2>2. ASSUME from > 1 PROVE s[from - 1] = Space
    <3>1. CASE from = sp
      <4>1. sp # 1 /\ ~(sp - 1 > L) BY <1>1, <1>2, <2>2, <3>1
      <4> QED BY <3>1, <4>1 DEF Parsed
    <3>2. CASE from # sp
      <4>1. from - 1 \in sp .. L /\ ~(from <= from - 1) BY <1>1, <1>2, <3>2
      <4> QED BY <4>1 DEF TokenAt
    <3> QED BY <3>1, <3>2
  <2> QED BY <1>2, <2>1, <2>2 DEF WordStarts
<1>4. word = CutWord(s, from) BY TokenIsWord DEF CutWord
<1>5. PICK at \in [1 .. K -> W] :
        /\ \A n \in 1 .. K : nodes[n] = CutWord(s, at[n]) /\ at[n] < sp
        /\ \A n \in 1 .. K - 1 : at[n] < at[n + 1]
        /\ \A w \in W : w < sp => \E n \in 1 .. K : at[n] = w
  BY DEF Parsed, StartAt
<1> HIDE DEF W
<1>6. W \subseteq 1 .. L BY <1>2 DEF W, WordStarts
<1>7. Len(ns) = K + 1 /\ ns[K + 1] = word /\ \A n \in 1 .. K : ns[n] = nodes[n]
  OBVIOUS
<1> HIDE DEF ns, K
<1> DEFINE at2 == [n \in 1 .. K + 1 |-> IF n = K + 1 THEN from ELSE at[n]]
<1>8. at2 \in [1 .. K + 1 -> W]
  <2>1. ASSUME NEW n \in 1 .. K + 1, n # K + 1 PROVE at[n] \in W
    <3>1. n \in 1 .. K BY <1>1, <2>1
    <3> QED BY <1>5, <3>1
  <2> QED BY <1>3, <2>1
<1>9. at2[K + 1] = from /\ \A n \in 1 .. K : at2[n] = at[n] /\ n \in 1 .. K + 1
  <2>1. K + 1 \in 1 .. K + 1 /\ \A n \in 1 .. K : n # K + 1 /\ n \in 1 .. K + 1 BY <1>1
  <2> QED BY <2>1
<1> HIDE DEF at2
<1>10. \A n \in 1 .. K : at[n] \in Nat
  <2>1. W \subseteq Nat BY <1>1, <1>6
  <2> QED BY <1>5, <2>1
<1>11. ASSUME NEW n \in 1 .. K + 1 PROVE ns[n] = CutWord(s, at2[n]) /\ at2[n] < end + 1
  <2>1. CASE n = K + 1 BY <1>1, <1>4, <1>7, <1>9, <2>1
  <2>2. CASE n # K + 1
    <3>1. n \in 1 .. K BY <1>1, <2>2
    <3>2. at[n] < end + 1 BY <1>1, <1>2, <1>5, <1>10, <3>1
    <3> QED BY <1>5, <1>7, <1>9, <3>1, <3>2
  <2> QED BY <2>1, <2>2
<1>12. ASSUME NEW n \in 1 .. K PROVE at2[n] < at2[n + 1]
  <2>1. CASE n = K
    <3>1. at[n] < from BY <1>2, <1>1, <1>5, <1>10
    <3> QED BY <1>9, <2>1, <3>1
  <2>2. CASE n # K
    <3>1. n \in 1 .. K - 1 /\ n + 1 \in 1 .. K BY <1>1, <2>2
    <3> QED BY <1>5, <1>9, <3>1
  <2> QED BY <2>1, <2>2
<1>13. ASSUME NEW w \in W, w < end + 1 PROVE \E n \in 1 .. K + 1 : at2[n] = w
  <2>1. w \in 1 .. L /\ s[w] # Space /\ (w > 1 => s[w - 1] = Space) BY <1>2 DEF W, WordStarts
  <2>2. CASE w < sp
    <3>1. PICK n \in 1 .. K : at[n] = w BY <1>5, <2>2
    <3> QED BY <1>9, <3>1
  <2>3. CASE w = from
    <3>1. K + 1 \in 1 .. K + 1 BY <1>1
    <3> QED BY <1>9, <2>3, <3>1
  <2>4. CASE ~(w < sp) /\ w # from
    <3>1. w \in sp .. L BY <1>1, <2>1, <2>4
    <3>2. from <= w BY <2>1, <3>1 DEF TokenAt
    <3>3. w # end
      <4>1. w = end => w # L + 1 BY <1>1, <2>1
      <4> QED BY <2>1, <4>1 DEF TokenAt
    <3>4. w - 1 \in from .. end - 1 /\ w > 1 BY <1>1, <1>2, <1>13, <2>1, <2>4, <3>2, <3>3
    <3>5. s[w - 1] # Space BY <3>4 DEF TokenAt
    <3> QED BY <2>1, <3>4, <3>5
  <2> QED BY <2>2, <2>3, <2>4
<1>14. Len(ns) - 1 = K BY <1>1, <1>7
<1>15. end + 1 >= 1 /\ (end + 1 = 1 \/ (end + 1) - 1 > L \/ s[(end + 1) - 1] = Space)
  <2>1. (end + 1) - 1 = end BY <1>1
  <2>2. end = L + 1 => end > L BY <1>1
  <2> QED BY <1>1, <2>1, <2>2 DEF TokenAt
<1>16. StartAt(at2, s, ns, end + 1) BY <1>7, <1>11, <1>12, <1>13, <1>14 DEF StartAt, W
<1>17. at2 \in [1 .. Len(ns) -> WordStarts(s)] BY <1>7, <1>8 DEF W
<1> QED BY <1>15, <1>16, <1>17 DEF Parsed, ns

LEMMA NodeType ==
  ASSUME NEW s \in Seq(Chars), NEW from \in 1 .. Len(s), NEW end \in from + 1 .. Len(s) + 1
  PROVE  strncpy(SubSeq(s, from, end - 1), MaxArgument) \in Seq(Chars)
<1> DEFINE last == end - 1
           w == SubSeq(s, from, last)
           m == Min({Len(w), MaxArgument - 1})
           one == 1
<1>1. Len(s) \in Nat /\ MaxArgument \in Nat /\ MaxArgument # 0 BY ConsoleAssumption
<1>2. from \in 1 .. Len(s) + 1 /\ last \in from - 1 .. Len(s) BY <1>1
<1> HIDE DEF last
<1>3. w \in Seq(Chars) BY <1>2, PartOf
<1> HIDE DEF w
<1>4. Len(w) \in Nat BY <1>3
<1>5. m = IF Len(w) <= MaxArgument - 1 THEN Len(w) ELSE MaxArgument - 1 BY <1>1, <1>4 DEF Min
<1> HIDE DEF m
<1>6. one \in 1 .. Len(w) + 1 /\ m \in one - 1 .. Len(w) BY <1>1, <1>4, <1>5
<1>7. SubSeq(w, one, m) \in Seq(Chars)
  <2> HIDE DEF one
  <2> QED BY <1>3, <1>6, PartOf
<1> QED BY <1>7 DEF strncpy, w, m, last

-----------------------------------------------------------------------------
(* The steps *)

LEMMA LineKept ==
  ASSUME LineRead, Consumed' = Consumed, buf' = buf, i' = i,
         Reading' <=> Reading, Ended' => Ended
  PROVE  LineRead'
<1>1. Session(Consumed)' = Session(Consumed) OBVIOUS
<1>2. Text' = Text BY DEF Text
<1>3. CASE Reading BY <1>1, <1>2, <1>3 DEF LineRead, Reading, Ended
<1>4. CASE ~Reading BY <1>1, <1>2, <1>4 DEF LineRead
<1> QED BY <1>3, <1>4

LEMMA ShownKept ==
  ASSUME Shown, UNCHANGED <<terminal, start, garbled, buf, i>>, Reading' <=> Reading
  PROVE  Shown'
<1>1. Blank(terminal') BY DEF Shown
<1> QED BY <1>1 DEF Shown

LEMMA InitIInv ==
  ASSUME Init
  PROVE  IInv
<1>1. LineSize \in Nat /\ LineSize # 0 /\ shell # child /\ Width \in Nat /\ Width # 0
  BY ConsoleAssumption, TerminalAssumption
<1>2. terminal \in Terminals
  <2>1. <<>> \in [{} -> Int] OBVIOUS
  <2>2. <<>> \in Screens BY <2>1 DEF Screens
  <2> QED BY <1>1, <2>2 DEF Init, terminal_initialize, Terminals
<1>3. queue \in [{shell, child} -> Seq(Chars)] /\ queue[shell] = <<>> BY DEF Init
<1>4. Types
  <2>1. terminal.row \in Nat /\ terminal.col \in 0 .. Width - 1 BY <1>2 DEF Terminals
  <2>2. buf \in [0 .. LineSize -> Chars \cup {0}] /\ i \in 0 .. LineSize BY <1>1 DEF Init
  <2>3. TypeOK BY <1>1, <1>3, <2>1, <2>2 DEF Init, TypeOK
  <2> QED BY <1>2, <2>3 DEF Init, Types
<1>5. Waiting
  <2>1. Len(typed) - Len(queue[shell]) = 0 /\ Len(queue[shell]) = 0 BY <1>3 DEF Init
  <2>2. current = shell /\ pc = "prompt" BY DEF Init
  <2> QED BY <2>1, <2>2 DEF Waiting
<1>6. LineRead
  <2>1. Consumed = <<>>
    <3>1. Consumed = SubSeq(<<>>, 1, 0) BY <1>3 DEF Consumed, Init
    <3> QED BY <3>1
  <2>2. Session(Consumed).line = <<>> BY <2>1, SessionEmpty DEF NewSession
  <2>3. ~Reading /\ ~Ended BY DEF Init, Reading, Ended
  <2> QED BY <2>2, <2>3 DEF LineRead
<1>7. Shown
  <2>1. terminal.mem = <<>> BY DEF Init, terminal_initialize
  <2>2. Blank(terminal) BY <2>1 DEF Blank, Cell
  <2> QED BY <2>2 DEF Shown, Reading, Init
<1>8. Words BY DEF Words, Init
<1>9. Printed BY DEF Printed, Init
<1> QED BY <1>4, <1>5, <1>6, <1>7, <1>8, <1>9 DEF IInv

LEMMA PressStep ==
  ASSUME IInv, NEW c \in Chars, Press(c)
  PROVE  IInv'
<1>1. Types' /\ Waiting' /\ Consumed' = Consumed BY PressKeys DEF IInv
<1>2. UNCHANGED <<terminal, buf, i, pc, sp, nodes, start, number, garbled>> BY DEF Press, linevars, parsevars
<1>3. (Reading' <=> Reading) /\ (Ended' => Ended) BY <1>2 DEF Reading, Ended
<1>4. LineRead' BY <1>1, <1>2, <1>3, LineKept DEF IInv
<1>5. Shown' BY <1>2, <1>3, ShownKept DEF IInv
<1>6. Words'
  <2>1. Command' = Command BY <1>2 DEF Command, Line, strlen
  <2> QED BY <1>2, <2>1 DEF IInv, Words
<1>7. Printed' BY <1>2 DEF IInv, Printed
<1> QED BY <1>1, <1>4, <1>5, <1>6, <1>7 DEF IInv

LEMMA GetkeyStep ==
  ASSUME IInv, kernel_getkeyblock
  PROVE  IInv'
<1>1. Types' /\ Waiting' /\ Consumed' = Consumed BY GetKeys DEF IInv
<1>2. pc = "getkey" /\ pc' \in {"getkey", "key"}
      /\ UNCHANGED <<terminal, buf, i, sp, nodes, start, number, garbled>>
  BY DEF kernel_getkeyblock, linevars, parsevars
<1>3. (Reading' <=> Reading) /\ (Ended' => Ended) BY <1>2 DEF Reading, Ended
<1>4. LineRead' BY <1>1, <1>2, <1>3, LineKept DEF IInv
<1>5. Shown' BY <1>2, <1>3, ShownKept DEF IInv
<1>6. Words' BY <1>2 DEF Words
<1>7. Printed' BY <1>2 DEF Printed
<1> QED BY <1>1, <1>4, <1>5, <1>6, <1>7 DEF IInv

LEMMA ReadlineStep ==
  ASSUME IInv, kernel_terminal_readline
  PROVE  IInv'
<1>1. pc' \in {"getkey", "newline"} BY ReadlineCases
<1>2. Words' BY <1>1 DEF Words
<1>3. Printed' BY <1>1 DEF Printed
<1> QED BY <1>2, <1>3, ReadlineLine, ReadlineShown DEF IInv

LEMMA PromptStep ==
  ASSUME IInv, PrintPrompt
  PROVE  IInv'
<1> DEFINE k == Cursor(terminal)
<1>1. /\ pc = "prompt" /\ pc' = "getkey" /\ i' = 0 /\ start' = Cursor(terminal')
      /\ UNCHANGED <<queue, current, key, buf, sp, nodes, number, listed, typed>>
  BY DEF PrintPrompt, keyvars, parsevars
<1>1a. PICK out \in {<<Prompt>>} \cup Garbage :
         terminal' = terminal_print(terminal, out) /\ garbled' = (out # <<Prompt>>)
  BY DEF PrintPrompt, isr80h_command1_print
<1>2. terminal \in Terminals /\ Blank(terminal) BY DEF IInv, Types, Shown
<1>3. k \in Nat BY <1>2, CursorNat
<1>4. Prompt \in Int /\ Prompt # Newline /\ Prompt # Backspace BY DEF Prompt, Newline, Backspace
<1>5. out \in Seq(Int)
  <2>1. <<Prompt>> \in Seq(Int) BY <1>4
  <2> QED BY <2>1, ConsoleAssumption
<1>6. terminal' \in Terminals /\ Blank(terminal') BY <1>1a, <1>2, <1>5, PrintBlank
<1>7. Cursor(terminal') \in Nat BY <1>6, CursorNat
<1>8. ASSUME ~garbled' PROVE Cursor(terminal') = k + 1 /\ Cell(terminal', k) = Prompt
  <2>1. terminal' = terminal_write_char(terminal, Prompt) BY <1>1a, <1>2, <1>4, <1>8, PrintOne
  <2>2. Writes(terminal, terminal', k + 1, k, Prompt) BY <1>2, <1>4, <2>1, WritePlain
  <2> QED BY <1>3, <2>2 DEF Writes
<1>9. LineSize \in Nat /\ LineSize # 0 BY ConsoleAssumption
<1> HIDE DEF k
<1>10. Types'
  <2>1. terminal'.row \in Nat /\ terminal'.col \in 0 .. Width - 1 BY <1>6 DEF Terminals
  <2>2. i' \in 0 .. LineSize /\ start' \in Nat BY <1>1, <1>7, <1>9
  <2>3. garbled' \in BOOLEAN BY <1>1a
  <2> QED BY <1>1, <1>6, <2>1, <2>2, <2>3 DEF IInv, Types, TypeOK
<1>11. Waiting' /\ Consumed' = Consumed
  <2>1. current' = IF pc' \in {"child", "printed", "panic", "wild"} THEN child ELSE shell BY <1>1 DEF IInv, Waiting
  <2> QED BY <1>1, <2>1, WaitingKept DEF IInv
<1>12. LineRead'
  <2>1. ~Reading /\ Reading' /\ ~Ended' BY <1>1 DEF Reading, Ended
  <2>2. Session(Consumed)'.line = <<>> BY <1>11, <2>1 DEF IInv, LineRead
  <2>3. Text' = <<>> BY <1>1 DEF Text
  <2>4. i' < LineSize /\ \A j \in 0 .. i' - 1 : FALSE BY <1>1, <1>9
  <2> QED BY <2>1, <2>2, <2>3, <2>4 DEF LineRead
<1>13. Shown'
  <2>1. Cursor(terminal') = start' + i' /\ \A n \in 0 .. i' - 1 : FALSE BY <1>1, <1>7
  <2>2. ASSUME ~garbled' PROVE start' >= 1 /\ Cell(terminal', start' - 1) = Prompt
    <3>1. start' = k + 1 /\ start' - 1 = k BY <1>1, <1>3, <1>8, <2>2
    <3> QED BY <1>3, <1>8, <2>2, <3>1
  <2> QED BY <1>6, <2>1, <2>2 DEF Shown
<1>14. Words' BY <1>1 DEF Words
<1>15. Printed' BY <1>1 DEF Printed
<1> QED BY <1>10, <1>11, <1>12, <1>13, <1>14, <1>15 DEF IInv

(* Of a line that was read.                                                *)
LEMMA CommandRead ==
  ASSUME IInv, Ended
  PROVE  /\ Line = Text /\ Command \in Seq(Chars)
         /\ Command = IF Len(Line) = LineSize THEN Front(Line) ELSE Line
<1>1. Types /\ buf[i] = 0 /\ \A j \in 0 .. i - 1 : buf[j] # 0 BY DEF IInv, LineRead
<1> QED BY <1>1, LineIsText, CommandIs

LEMMA NewlineStep ==
  ASSUME IInv, PrintNewline
  PROVE  IInv'
<1>1. /\ pc = "newline" /\ pc' \in {"prompt", "parse"} /\ sp' = 1 /\ nodes' = <<>>
      /\ \E out \in {<<Newline>>} \cup Garbage : terminal' = terminal_print(terminal, out)
      /\ UNCHANGED <<queue, current, key, buf, i, start, number, garbled, listed, typed>>
  BY DEF PrintNewline, isr80h_command1_print, keyvars, linevars
<1>2. terminal \in Terminals /\ Blank(terminal) BY DEF IInv, Types, Shown
<1>3. {<<Newline>>} \cup Garbage \subseteq Seq(Int)
  <2>1. <<Newline>> \in Seq(Int) BY DEF Newline
  <2> QED BY <2>1, ConsoleAssumption
<1>4. PICK out \in Seq(Int) : terminal' = terminal_print(terminal, out) BY <1>1, <1>3
<1>5. terminal' \in Terminals /\ Blank(terminal') BY <1>2, <1>4, PrintBlank
<1>6. Types'
  <2>1. terminal'.row \in Nat /\ terminal'.col \in 0 .. Width - 1 BY <1>5 DEF Terminals
  <2>2. nodes' \in Seq(Seq(Chars)) BY <1>1
  <2> QED BY <1>1, <1>5, <2>1, <2>2 DEF IInv, Types, TypeOK
<1>7. Waiting' /\ Consumed' = Consumed
  <2>1. current' = IF pc' \in {"child", "printed", "panic", "wild"} THEN child ELSE shell BY <1>1 DEF IInv, Waiting
  <2> QED BY <1>1, <2>1, WaitingKept DEF IInv
<1>8. (Reading' <=> Reading) /\ Ended /\ (Ended' => Ended) /\ ~Reading' BY <1>1 DEF Reading, Ended
<1>9. LineRead' BY <1>1, <1>7, <1>8, LineKept DEF IInv
<1>10. Shown' BY <1>5, <1>8 DEF Shown
<1>11. Words'
  <2>1. Command' = Command BY <1>1 DEF Command, Line, strlen
  <2>2. Command \in Seq(Chars) BY <1>8, CommandRead
  <2> DEFINE s == Command
             at == <<>>
             none == <<>>
             p == 1
  <2>3. Parsed(s, none, p)
    <3> HIDE DEF s
    <3>1. at \in [1 .. Len(none) -> WordStarts(s)] /\ Len(none) = 0 OBVIOUS
    <3>2. \A w \in WordStarts(s) : ~(w < p) BY <2>2 DEF WordStarts, s
    <3>3. StartAt(at, s, none, p)
      <4>1. (\A n \in 1 .. 0 : FALSE) /\ (\A n \in 1 .. 0 - 1 : FALSE) OBVIOUS
      <4> HIDE DEF at
      <4> QED BY <3>1, <3>2, <4>1 DEF StartAt
    <3>4. p >= 1 /\ p = 1 OBVIOUS
    <3> HIDE DEF at, none, p
    <3> QED BY <3>1, <3>3, <3>4 DEF Parsed
  <2> HIDE DEF s
  <2>4. Parsed(Command, nodes, sp)' BY <1>1, <2>1, <2>3 DEF s
  <2> QED BY <1>1, <2>4 DEF Words
<1>12. Printed' BY <1>1 DEF Printed
<1> QED BY <1>6, <1>7, <1>9, <1>10, <1>11, <1>12 DEF IInv

LEMMA ParseStep ==
  ASSUME IInv, kernel_parse_command
  PROVE  IInv'
<1>1. pc = "parse" /\ UNCHANGED <<queue, current, key, buf, i, start, number, garbled, listed, typed>>
  BY DEF kernel_parse_command, keyvars, linevars
<1>2. terminal \in Terminals /\ Blank(terminal) BY DEF IInv, Types, Shown
<1>3. Ended /\ ~Reading BY <1>1 DEF Reading, Ended
<1>4. Command \in Seq(Chars) /\ Parsed(Command, nodes, sp) BY <1>1, <1>3, CommandRead DEF IInv, Words
<1>5. Command' = Command BY <1>1 DEF Command, Line, strlen
<1>6. sp \in Nat /\ nodes \in Seq(Seq(Chars)) BY DEF IInv, Types, TypeOK
<1>7. ASSUME pc' \in {"parse", "prompt", "system"}, terminal' \in Terminals, Blank(terminal'), sp' \in Nat,
             nodes' \in Seq(Seq(Chars)), Words'
      PROVE  IInv'
  <2>1. terminal'.row \in Nat /\ terminal'.col \in 0 .. Width - 1 BY <1>7 DEF Terminals
  <2>2. pc' \in {"prompt", "getkey", "key", "newline", "parse", "system", "child", "printed",
                "panic", "wild"} BY <1>7
  <2>3. Types' BY <1>1, <1>7, <2>1, <2>2 DEF IInv, Types, TypeOK
  <2>4. Waiting' /\ Consumed' = Consumed
    <3>1. current' = IF pc' \in {"child", "printed", "panic", "wild"} THEN child ELSE shell BY <1>1, <1>7 DEF IInv, Waiting
    <3>2. pc # "key" /\ pc' # "key" BY <1>1, <1>7
    <3> QED BY <1>1, <3>1, <3>2, WaitingKept DEF IInv
  <2>5. ~Reading' BY <1>7 DEF Reading
  <2>6. LineRead' BY <1>1, <1>3, <2>4, <2>5, LineKept DEF IInv
  <2>7. Shown' BY <1>7, <2>5 DEF Shown
  <2>8. Printed' BY <1>7 DEF Printed
  <2> QED BY <1>7, <2>3, <2>4, <2>6, <2>7, <2>8 DEF IInv
<1>8. CASE \E from \in TokenStart(Command) :
             LET end == TokenEnd(Command, from)
             IN  /\ nodes' = Append(nodes, strncpy(SubSeq(Command, from, end - 1), MaxArgument))
                 /\ sp' = end + 1
                 /\ UNCHANGED <<pc, terminal>>
  <2> DEFINE s == Command
  <2>1. PICK from \in TokenStart(s) :
          /\ nodes' = Append(nodes, strncpy(SubSeq(s, from, TokenEnd(s, from) - 1), MaxArgument))
          /\ sp' = TokenEnd(s, from) + 1
          /\ UNCHANGED <<pc, terminal>>
    BY <1>8
  <2> DEFINE end == TokenEnd(s, from)
             word == strncpy(SubSeq(s, from, end - 1), MaxArgument)
  <2> HIDE DEF s
  <2>2. s \in Seq(Chars) /\ Parsed(s, nodes, sp) BY <1>4 DEF s
  <2>3. TokenAt(s, from, end) BY <1>6, <2>1, <2>2, TokenFound
  <2> HIDE DEF end
  <2>4. from \in 1 .. Len(s) /\ end \in from + 1 .. Len(s) + 1 /\ end \in Nat
    BY <1>6, <2>2, <2>3 DEF TokenAt, Parsed
  <2>5. word \in Seq(Chars) BY <2>2, <2>4, NodeType
  <2>6. Parsed(s, Append(nodes, word), end + 1) BY <1>6, <2>2, <2>3, <2>5, NextWord
  <2>7. nodes' = Append(nodes, word) /\ sp' = end + 1 BY <2>1 DEF end
  <2> HIDE DEF word
  <2>8. Parsed(Command, nodes, sp)' BY <1>5, <2>6, <2>7 DEF s
  <2>9. nodes' \in Seq(Seq(Chars)) /\ sp' \in Nat BY <1>6, <2>4, <2>5, <2>7
  <2>10. pc' = "parse" /\ terminal' = terminal BY <1>1, <2>1
  <2>11. Words' BY <2>8, <2>10 DEF Words
  <2> QED BY <1>2, <1>7, <2>9, <2>10, <2>11
<1>9. CASE /\ UNCHANGED parsevars
           /\ terminal' = IF TokenStart(Command) = {} THEN terminal ELSE pr_err(terminal)
           /\ pc' = IF nodes = <<>> THEN "prompt" ELSE "system"
  <2>1. sp' = sp /\ nodes' = nodes BY <1>9 DEF parsevars
  <2>2. terminal' \in Terminals /\ Blank(terminal')
    <3>1. terminal' = terminal \/ terminal' = pr_err(terminal) BY <1>9
    <3> QED BY <1>2, <3>1, ErrorBlank
  <2>3. Parsed(Command, nodes, sp)' BY <1>4, <1>5, <2>1
  <2>4. pc' \in {"prompt", "system"} /\ (pc' = "system" => nodes # <<>>) BY <1>9
  <2>5. Words' BY <2>1, <2>3, <2>4 DEF Words
  <2> QED BY <1>6, <1>7, <2>1, <2>2, <2>4, <2>5
<1> QED BY <1>8, <1>9 DEF kernel_parse_command

LEMMA SystemStep ==
  ASSUME IInv, kernel_system
  PROVE  IInv'
<1>1. pc = "system" /\ UNCHANGED <<buf, i, sp, nodes, start, number, garbled, typed>>
  BY DEF kernel_system, linevars, parsevars
<1>2. terminal \in Terminals /\ Blank(terminal) /\ queue \in [{shell, child} -> Seq(Chars)]
  BY DEF IInv, Types, TypeOK, Shown
<1>3. ~Reading BY <1>1 DEF Reading
<1>4. /\ pc' \in {"child", "wild", "prompt"} /\ key' = key /\ listed' \in BOOLEAN
      /\ current' = IF pc' \in {"child", "wild"} THEN child ELSE shell
      /\ queue' = queue \/ queue' = [queue EXCEPT ![child] = <<>>]
      /\ terminal' = terminal \/ terminal' = pr_err(terminal)
  <2>1. current = shell BY <1>1 DEF IInv, Waiting
  <2>0. listed \in BOOLEAN BY DEF IInv, Types, TypeOK
  <2>2. CASE KQ!Load(child) /\ pc' \in {"child", "wild"} /\ UNCHANGED <<terminal, listed>>
    BY <2>0, <2>2 DEF KQ!Load
  <2>3. CASE /\ UNCHANGED keyvars /\ pc' = "prompt" /\ terminal' \in {terminal, pr_err(terminal)}
             /\ listed' \in {listed, FALSE}
    BY <2>0, <2>1, <2>3 DEF keyvars
  <2> QED BY <2>2, <2>3 DEF kernel_system
<1>5. terminal' \in Terminals /\ Blank(terminal') BY <1>2, <1>4, ErrorBlank
<1>6. queue' \in [{shell, child} -> Seq(Chars)] /\ queue'[shell] = queue[shell]
  <2>1. shell # child BY ConsoleAssumption
  <2>2. <<>> \in Seq(Chars) OBVIOUS
  <2> DEFINE none == <<>>
  <2>3. none \in Seq(Chars) /\ (queue' = queue \/ queue' = [queue EXCEPT ![child] = none]) BY <1>4, <2>2
  <2> HIDE DEF none
  <2> QED BY <1>2, <2>1, <2>3
<1>7. Types'
  <2>1. terminal'.row \in Nat /\ terminal'.col \in 0 .. Width - 1 BY <1>5 DEF Terminals
  <2>2. pc' \in {"prompt", "getkey", "key", "newline", "parse", "system", "child", "printed",
                "panic", "wild"} BY <1>4
  <2>3. current' \in {shell, child} BY <1>4
  <2> QED BY <1>1, <1>4, <1>5, <1>6, <2>1, <2>2, <2>3 DEF IInv, Types, TypeOK
<1>8. Waiting' /\ Consumed' = Consumed
  <2>1. current' = IF pc' \in {"child", "printed", "panic", "wild"} THEN child ELSE shell BY <1>4
  <2>2. pc # "key" /\ pc' # "key" BY <1>1, <1>4
  <2> QED BY <1>1, <1>6, <2>1, <2>2, WaitingKept DEF IInv
<1>9. ~Reading' /\ ~Ended' BY <1>4 DEF Reading, Ended
<1>10. LineRead' BY <1>1, <1>3, <1>8, <1>9, LineKept DEF IInv
<1>11. Shown' BY <1>5, <1>9 DEF Shown
<1>12. Words' BY <1>4 DEF Words
<1>13. Printed' BY <1>4 DEF Printed
<1> QED BY <1>7, <1>8, <1>10, <1>11, <1>12, <1>13 DEF IInv

LEMMA PrintsStep ==
  ASSUME IInv, NEW n \in Numbers, ChildPrints(n)
  PROVE  IInv'
<1> DEFINE str == itoa(n)
           k == Cursor(terminal)
<1>1. /\ pc = "child" /\ pc' = "printed" /\ start' = k /\ number' = n
      /\ UNCHANGED <<queue, current, key, buf, i, sp, nodes, listed, typed>>
  BY DEF ChildPrints, keyvars, linevars, parsevars
<1>1a. PICK out \in {str} \cup Garbage :
         terminal' = terminal_print(terminal, out) /\ garbled' = (out # str)
  BY DEF ChildPrints, isr80h_command1_print
<1>2. terminal \in Terminals /\ Blank(terminal) BY DEF IInv, Types, Shown
<1>3. k \in Nat BY <1>2, CursorNat
<1>4. str \in Seq(Int) /\ Plain(str)
  <2>1. n \in Int BY ConsoleAssumption
  <2> QED BY <2>1, ItoaPlain
<1> HIDE DEF str, k
<1>5. out \in Seq(Int) BY <1>4, ConsoleAssumption
<1>6. terminal' \in Terminals /\ Blank(terminal') BY <1>1a, <1>2, <1>5, PrintBlank
<1>7. ASSUME ~garbled'
      PROVE  /\ Cursor(terminal') = k + Len(str)
             /\ \A j \in 1 .. Len(str) : Cell(terminal', k + j - 1) = str[j]
  <2>1. Wrote(terminal, terminal', str, Len(str)) BY <1>1a, <1>2, <1>4, <1>7, PrintPlain
  <2> QED BY <2>1 DEF Wrote, k
<1>8. Types'
  <2>1. terminal'.row \in Nat /\ terminal'.col \in 0 .. Width - 1 BY <1>6 DEF Terminals
  <2>2. garbled' \in BOOLEAN BY <1>1a
  <2> QED BY <1>1, <1>3, <1>6, <2>1, <2>2 DEF IInv, Types, TypeOK
<1>9. Waiting' /\ Consumed' = Consumed
  <2>1. current' = IF pc' \in {"child", "printed", "panic", "wild"} THEN child ELSE shell BY <1>1 DEF IInv, Waiting
  <2> QED BY <1>1, <2>1, WaitingKept DEF IInv
<1>10. ~Reading /\ ~Reading' /\ ~Ended' BY <1>1 DEF Reading, Ended
<1>11. LineRead' BY <1>1, <1>9, <1>10, LineKept DEF IInv
<1>12. Shown' BY <1>6, <1>10 DEF Shown
<1>13. Words' BY <1>1 DEF Words
<1>14. Printed' BY <1>1, <1>7 DEF Printed, str
<1> QED BY <1>8, <1>9, <1>11, <1>12, <1>13, <1>14 DEF IInv

LEMMA ExitsStep ==
  ASSUME IInv, ChildExits
  PROVE  IInv'
<1>1. /\ pc \in {"child", "printed"}
      /\ \/ pc' = "prompt" /\ current' = shell
         \/ pc' = "panic" /\ current' = current
      /\ UNCHANGED <<queue, key, terminal, buf, i, sp, nodes, start, number, garbled, listed, typed>>
  BY DEF ChildExits, KQ!Enter, keyvars, linevars, parsevars
<1>2. Types' BY <1>1 DEF IInv, Types, TypeOK
<1>3. Waiting' /\ Consumed' = Consumed
  <2>1. current' = IF pc' \in {"child", "printed", "panic", "wild"} THEN child ELSE shell BY <1>1 DEF IInv, Waiting
  <2>2. pc # "key" /\ pc' # "key" BY <1>1
  <2> QED BY <1>1, <2>1, <2>2, WaitingKept DEF IInv
<1>4. ~Reading /\ ~Reading' /\ ~Ended' BY <1>1 DEF Reading, Ended
<1>5. LineRead' BY <1>1, <1>3, <1>4, LineKept DEF IInv
<1>6. Shown' BY <1>1, <1>4, ShownKept DEF IInv
<1>7. Words' BY <1>1 DEF Words
<1>8. Printed' BY <1>1 DEF Printed
<1> QED BY <1>2, <1>3, <1>5, <1>6, <1>7, <1>8 DEF IInv

LEMMA StepIInv ==
  ASSUME IInv, [Next]_vars
  PROVE  IInv'
<1>1. CASE PrintPrompt BY <1>1, PromptStep
<1>2. CASE kernel_getkeyblock BY <1>2, GetkeyStep
<1>3. CASE kernel_terminal_readline BY <1>3, ReadlineStep
<1>4. CASE PrintNewline BY <1>4, NewlineStep
<1>5. CASE kernel_parse_command BY <1>5, ParseStep
<1>6. CASE kernel_system BY <1>6, SystemStep
<1>7. CASE \E n \in Numbers : ChildPrints(n) BY <1>7, PrintsStep
<1>8. CASE ChildExits BY <1>8, ExitsStep
<1>9. CASE \E c \in Chars : Press(c) BY <1>9, PressStep
<1>10. CASE UNCHANGED vars \/ Halted
  <2>1. UNCHANGED <<queue, current, key, terminal, buf, i, pc, sp, nodes, start, number, garbled,
                    listed, typed>>
    BY <1>10 DEF vars, Halted, keyvars, linevars, parsevars
  <2>2. Types' BY <2>1 DEF IInv, Types, TypeOK
  <2>3. Waiting' BY <2>1 DEF IInv, Waiting
  <2>4. Consumed' = Consumed BY <2>1 DEF Consumed
  <2>5. (Reading' <=> Reading) /\ (Ended' => Ended) BY <2>1 DEF Reading, Ended
  <2>6. LineRead' BY <2>1, <2>4, <2>5, LineKept DEF IInv
  <2>7. Shown' BY <2>1, <2>5, ShownKept DEF IInv
  <2>8. Words'
    <3>1. Command' = Command BY <2>1 DEF Command, Line, strlen
    <3> QED BY <2>1, <3>1 DEF IInv, Words
  <2>9. Printed' BY <2>1 DEF IInv, Printed
  <2> QED BY <2>2, <2>3, <2>6, <2>7, <2>8, <2>9 DEF IInv
<1> QED BY <1>1, <1>2, <1>3, <1>4, <1>5, <1>6, <1>7, <1>8, <1>9, <1>10 DEF Next, Shell

-----------------------------------------------------------------------------
(* The theorems *)

LEMMA AlwaysIInv == Spec => []IInv
<1>1. Init => IInv BY InitIInv
<1>2. IInv /\ [Next]_vars => IInv' BY StepIInv
<1> QED BY <1>1, <1>2, PTL DEF Spec

LEMMA InvEcho ==
  ASSUME IInv
  PROVE  EchoAgrees
<1> SUFFICES ASSUME Reading
             PROVE  /\ Cursor(terminal) = start + i
                    /\ ~garbled => Cell(terminal, start - 1) = Prompt
                    /\ \A n \in 0 .. i - 1 : Cell(terminal, start + n) = buf[n]
                    /\ \A n \in i .. LineSize : Cell(terminal, start + n) = Space
  BY DEF EchoAgrees
<1>1. /\ Cursor(terminal) = start + i /\ Blank(terminal)
      /\ ~garbled => Cell(terminal, start - 1) = Prompt
      /\ \A n \in 0 .. i - 1 : Cell(terminal, start + n) = buf[n]
  BY DEF IInv, Shown
<1>2. start \in Nat /\ i \in Nat /\ LineSize \in Nat BY ConsoleAssumption DEF IInv, Types, TypeOK
<1>3. \A n \in i .. LineSize : start + n \in Nat /\ start + n >= start + i BY <1>2
<1>4. \A n \in i .. LineSize : Cell(terminal, start + n) = Space BY <1>1, <1>3 DEF Blank
<1> QED BY <1>1, <1>4

LEMMA InvLine ==
  ASSUME IInv
  PROVE  LineAsTyped
<1>1. TypeOK BY DEF IInv, Types
<1>2. Reading => [n \in 1 .. i |-> buf[n - 1]] = Session(Consumed).line BY DEF IInv, LineRead, Text
<1>3. ASSUME pc \in {"newline", "parse", "system"} PROVE Line = Last(Session(Consumed).ended)
  <2>1. Ended BY <1>3 DEF Ended
  <2> QED BY <2>1, CommandRead DEF IInv, LineRead
<1> QED BY <1>1, <1>2, <1>3 DEF LineAsTyped

LEMMA InvCommand ==
  ASSUME IInv
  PROVE  CommandIsLine
<1> SUFFICES ASSUME pc = "system" PROVE CommandIsLine BY DEF CommandIsLine
<1> DEFINE line == IF Len(Line) = LineSize THEN Front(Line) ELSE Line
           Cut(word) == SubSeq(word, 1, Min({Len(word), MaxArgument - 1}))
           last == Len(nodes)
<1>1. line = Command /\ Command \in Seq(Chars)
  <2>1. Ended BY DEF Ended
  <2> QED BY <2>1, CommandRead
<1> HIDE DEF line
<1>2. nodes # <<>> /\ Parsed(line, nodes, sp) /\ nodes \in Seq(Seq(Chars)) BY <1>1 DEF IInv, Words, Types
<1>3. PICK at \in [1 .. last -> WordStarts(line)] : StartAt(at, line, nodes, sp) BY <1>2 DEF Parsed
<1>4. /\ \A n \in 1 .. last : nodes[n] = Cut(WordAt(line, at[n])) /\ at[n] < sp
      /\ \A n \in 1 .. last - 1 : at[n] < at[n + 1]
      /\ \A w \in WordStarts(line) : w < sp => \E n \in 1 .. last : at[n] = w
  BY <1>3 DEF StartAt, CutWord, strncpy
<1>5. last \in Nat /\ last # 0 /\ last \in 1 .. last BY <1>2
<1>6. sp \in Nat /\ WordStarts(line) \subseteq Nat
  <2>1. sp \in Nat BY DEF IInv, Types, TypeOK
  <2>2. DOMAIN line = 1 .. Len(line) BY <1>1
  <2> QED BY <2>1, <2>2 DEF WordStarts
<1>7. ASSUME NEW w \in WordStarts(line), w <= at[last] PROVE \E n \in 1 .. last : at[n] = w
  <2>1. at[last] \in Nat /\ at[last] < sp /\ w \in Nat BY <1>3, <1>4, <1>5, <1>6
  <2>2. w < sp BY <1>6, <1>7, <2>1
  <2> QED BY <1>4, <2>2
<1> HIDE DEF Cut, last
<1>8. \E a \in [1 .. last -> WordStarts(line)] :
        /\ \A n \in 1 .. last : nodes[n] = Cut(WordAt(line, a[n]))
        /\ \A n \in 1 .. last - 1 : a[n] < a[n + 1]
        /\ \A w \in WordStarts(line) : w <= a[last] => \E n \in 1 .. last : a[n] = w
  BY <1>3, <1>4, <1>7
<1> QED BY <1>2, <1>8 DEF CommandIsLine, Cut, last, line

LEMMA InvNumber ==
  ASSUME IInv
  PROVE  NumberShown
<1> SUFFICES ASSUME pc = "printed", number # IntMin, ~garbled PROVE NumberShown BY DEF NumberShown
<1> DEFINE str == [n \in 1 .. Cursor(terminal) - start |-> Cell(terminal, start + n - 1)]
           num == itoa(number)
<1>1. number \in Int BY ConsoleAssumption DEF IInv, Types, TypeOK
<1>2. num \in Seq(Int) /\ IsNumeral(num) /\ ValueOf(num) = number BY <1>1, ItoaPlain, ItoaNumeral
<1>3. /\ Cursor(terminal) = start + Len(num) /\ start \in Nat
      /\ \A n \in 1 .. Len(num) : Cell(terminal, start + n - 1) = num[n]
  BY DEF IInv, Printed, Types, TypeOK
<1> HIDE DEF num
<1>4. Cursor(terminal) - start = Len(num)
  <2>1. Len(num) \in Nat BY <1>2
  <2> QED BY <1>3, <2>1
<1>5. str = [n \in 1 .. Len(num) |-> num[n]] BY <1>3, <1>4
<1>6. num = [n \in 1 .. Len(num) |-> num[n]] BY <1>2
<1>7. str = num BY <1>5, <1>6
<1> HIDE DEF str
<1>8. IsNumeral(str) /\ ValueOf(str) = number BY <1>2, <1>7
<1> QED BY <1>8 DEF NumberShown, str

(* While a line is typed the screen shows it behind the prompt, over the   *)
(* ends of rows too, and of what was erased nothing is left                *)
(* (kernel_terminal_readline with terminal_write_char and                  *)
(* terminal_backspace).                                                    *)
THEOREM EchoHolds == Spec => []EchoAgrees
<1>1. IInv => EchoAgrees BY InvEcho
<1> QED BY <1>1, AlwaysIInv, PTL

(* The line that kernel_terminal_readline leaves in the buffer is what was *)
(* typed for the shell, whenever the keys came and whatever ran between.   *)
THEOREM LineHolds == Spec => []LineAsTyped
<1>1. IInv => LineAsTyped BY InvLine
<1> QED BY <1>1, AlwaysIInv, PTL

(* kernel_parse_command hands on the words of the line, in order and       *)
(* without a gap, each cut to the size of a node.                          *)
THEOREM CommandHolds == Spec => []CommandIsLine
<1>1. IInv => CommandIsLine BY InvCommand
<1> QED BY <1>1, AlwaysIInv, PTL

(* The cells that print fills from itoa's characters spell the number,     *)
(* except for INT_MIN.                                                     *)
THEOREM NumberHolds == Spec => []NumberShown
<1>1. IInv => NumberShown BY InvNumber
<1> QED BY <1>1, AlwaysIInv, PTL
=============================================================================
