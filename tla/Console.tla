------------------------------ MODULE Console -------------------------------
(***************************************************************************)
(* The shell at work (programs/shell/shell.c) with its library             *)
(* (programs/stdlib/src/kernel.c, string.c): it prompts, reads a line from *)
(* the keyboard with echo, splits it into words and runs the command.  The *)
(* keyboard is that of KeyQueue.tla, which Keyboard.tla implements, and    *)
(* keys may be pressed between any two steps; the screen is Terminal.tla.  *)
(* A program that is run prints a number, or nothing, and ends; keys typed *)
(* meanwhile are its own.  Memory may run out at any step: listed says     *)
(* whether the shell is still in the kernel's table of processes, from     *)
(* which a load that fails takes it.                                       *)
(***************************************************************************)
EXTENDS Terminal, FiniteSets

CONSTANTS
  shell, child, NULL,
  Bound,          \* KERNEL_KEYBOARD_BUFFER_SIZE
  Chars,          \* the characters of the keyboard
  LineSize,       \* the size of the shell's line buffer
  MaxArgument,    \* the size of an argument in a node
  Numbers,        \* what a program prints
  Garbage,        \* what a buffer on the kernel's stack may hold
  MaxKeys         \* the keys pressed

ASSUME ConsoleAssumption ==
  /\ LineSize \in Nat \ {0} /\ MaxArgument \in Nat \ {0} /\ MaxKeys \in Nat
  /\ Chars \subseteq Nat \ {0, Newline} /\ Numbers \subseteq Int /\ Garbage \subseteq Seq(Int)
  /\ shell # child

CR == 13
Prompt == 62

VARIABLES
  queue, current, key,     \* the keyboard
  terminal,
  buf, i,                  \* the line, with the byte behind it, and its index
  pc,                      \* where the shell is
  sp, nodes,               \* strtok's pointer, and the nodes parsed so far
  start,                   \* where on the screen the line, or a number, starts
  number,                  \* the number printed last
  garbled,                 \* the prompt, or the number, came out as something else
  listed,                  \* processes[0] is the shell
  typed                    \* the keys that were queued for the shell

keyvars == <<queue, current, key>>
linevars == <<buf, i>>
parsevars == <<sp, nodes>>
vars == <<keyvars, terminal, linevars, pc, parsevars, start, number, garbled, listed, typed>>

(* Keys that are lost change nothing here, so the last input is left out.   *)
KQ == INSTANCE KeyQueue WITH Procs <- {shell, child}, input <- NULL

Init ==
  /\ queue = [p \in {shell, child} |-> <<>>] /\ current = shell /\ key = 0
  /\ terminal = terminal_initialize
  /\ buf = [n \in 0 .. LineSize |-> 0] /\ i = 0
  /\ pc = "prompt"
  /\ sp = 0 /\ nodes = <<>>
  /\ start = 0 /\ number = 0 /\ garbled = FALSE /\ listed = TRUE /\ typed = <<>>

(* Where the shell never gets on from.                                     *)
Dead == pc \in {"panic", "wild"}

-----------------------------------------------------------------------------
(* The keyboard interrupt *)

Press(c) ==
  /\ Len(typed) < MaxKeys /\ ~ Dead
  /\ KQ!Store(c)
  /\ typed' = IF current = shell THEN Append(typed, c) ELSE typed
  /\ UNCHANGED <<terminal, linevars, pc, parsevars, start, number, garbled, listed>>

-----------------------------------------------------------------------------
(* Reading a line *)

(* What a program's print puts on the screen: the string is copied into a  *)
(* buffer on the kernel's stack.  Without memory the copy fails, and what  *)
(* the buffer held before is printed.                                      *)
isr80h_command1_print(str) == {str} \cup Garbage

PrintPrompt ==
  /\ pc = "prompt"
  /\ \E out \in isr80h_command1_print(<<Prompt>>) :
       terminal' = terminal_print(terminal, out) /\ garbled' = (out # <<Prompt>>)
  /\ start' = Cursor(terminal')
  /\ i' = 0
  /\ pc' = "getkey"
  /\ UNCHANGED <<keyvars, buf, parsevars, number, listed, typed>>

(* kernel_getkey; 0 when there is none yet, and it is called again.        *)
kernel_getkeyblock ==
  /\ pc = "getkey"
  /\ KQ!GetKey
  /\ pc' = IF key' = 0 THEN "getkey" ELSE "key"
  /\ UNCHANGED <<terminal, linevars, parsevars, start, number, garbled, listed, typed>>

(* What a key does to the screen, the line and its index.                  *)
Echo(k) == IF k # Backspace \/ i >= 1 THEN terminal_print(terminal, <<k>>) ELSE terminal

(* Slip: an erasure leaves the index.                                      *)
EraseKeepsIndex(k) ==
  LET j == IF i = 0 THEN 0 ELSE i - 1
  IN  IF k = Backspace THEN [buf |-> [buf EXCEPT ![j] = 0], i |-> i]
      ELSE [buf |-> [buf EXCEPT ![i] = k], i |-> i + 1]

Edited(k) ==
  LET j == IF i = 0 THEN 0 ELSE i - 1
  IN  IF k = Backspace THEN [buf |-> [buf EXCEPT ![j] = 0], i |-> j]
      ELSE [buf |-> [buf EXCEPT ![i] = k], i |-> i + 1]

(* Slip: Enter does not end an empty line.                                 *)
EnterNeedsText(k, n) == (k = CR /\ n > 0) \/ n = LineSize

LineEnds(k, n) == k = CR \/ n = LineSize

(* The line ends with Enter, or when the buffer is full; then its 0x00     *)
(* goes behind the buffer.                                                 *)
kernel_terminal_readline ==
  LET edited == IF key = CR THEN [buf |-> buf, i |-> i] ELSE Edited(key)
  IN  /\ pc = "key"
      /\ terminal' = IF key = CR THEN terminal ELSE Echo(key)
      /\ i' = edited.i
      /\ IF LineEnds(key, edited.i)
           THEN buf' = [edited.buf EXCEPT ![edited.i] = 0] /\ pc' = "newline"
           ELSE buf' = edited.buf /\ pc' = "getkey"
      /\ UNCHANGED <<keyvars, parsevars, start, number, garbled, listed, typed>>

(* The line as a string.                                                   *)
strlen == CHOOSE n \in 0 .. LineSize : buf[n] = 0 /\ \A j \in 0 .. n - 1 : buf[j] # 0
Line == [n \in 1 .. strlen |-> buf[n - 1]]

PrintNewline ==
  /\ pc = "newline"
  /\ \E out \in isr80h_command1_print(<<Newline>>) : terminal' = terminal_print(terminal, out)
  /\ pc' = IF Line = <<>> THEN "prompt" ELSE "parse"
  /\ sp' = 1 /\ nodes' = <<>>
  /\ UNCHANGED <<keyvars, linevars, start, number, garbled, listed, typed>>

-----------------------------------------------------------------------------
(* Running the command *)

strncpy(src, count) == SubSeq(src, 1, Min({Len(src), count - 1}))

(* kernel_system_run copies the line into a buffer of the same size.       *)
Command == strncpy(Line, LineSize)

(* Slip: the delimiters before a word are not skipped.                     *)
TokenHere(s) == IF sp <= Len(s) THEN {sp} ELSE {}

(* strtok: where the next word starts, if there is one, and where it ends. *)
TokenStart(s) ==
  LET at == {n \in sp .. Len(s) : s[n] # Space}
  IN  IF at = {} THEN {} ELSE {Min(at)}
TokenEnd(s, from) == Min({n \in from .. Len(s) : s[n] = Space} \cup {Len(s) + 1})

(* kernel_parse_command: a node for the next word.  Without memory for it, *)
(* which the kernel reports, the words so far are run, and without any     *)
(* nothing is.                                                             *)
kernel_parse_command ==
  /\ pc = "parse"
  /\ \/ \E from \in TokenStart(Command) :
          LET end == TokenEnd(Command, from)
          IN  /\ nodes' = Append(nodes, strncpy(SubSeq(Command, from, end - 1), MaxArgument))
              /\ sp' = end + 1
              /\ UNCHANGED <<pc, terminal>>
     \/ /\ UNCHANGED parsevars
        /\ terminal' = IF TokenStart(Command) = {} THEN terminal ELSE pr_err(terminal)
        /\ pc' = IF nodes = <<>> THEN "prompt" ELSE "system"
  /\ UNCHANGED <<keyvars, linevars, start, number, garbled, listed, typed>>

(* kernel_system: the command is loaded and becomes the current process,   *)
(* or cannot be loaded; the kernel says so when it is for want of memory.  *)
(* A load that fails after it has a task_struct clears slot 0 of the       *)
(* table, where the shell is.  When the words cannot be injected, the      *)
(* shell goes on in the address space of the new process.                  *)
kernel_system ==
  /\ pc = "system"
  /\ \/ KQ!Load(child) /\ pc' = "child" /\ UNCHANGED <<terminal, listed>>
     \/ KQ!Load(child) /\ pc' = "wild" /\ UNCHANGED <<terminal, listed>>
     \/ /\ UNCHANGED keyvars
        /\ pc' = "prompt"
        /\ terminal' \in {terminal, pr_err(terminal)}
        /\ listed' \in {listed, FALSE}
  /\ UNCHANGED <<linevars, parsevars, start, number, garbled, typed>>

ChildPrints(n) ==
  /\ pc = "child"
  /\ start' = Cursor(terminal)
  /\ \E out \in isr80h_command1_print(itoa(n)) :
       terminal' = terminal_print(terminal, out) /\ garbled' = (out # itoa(n))
  /\ number' = n
  /\ pc' = "printed"
  /\ UNCHANGED <<keyvars, linevars, parsevars, listed, typed>>

(* Back to the first process of the table; without one the kernel panics.  *)
ChildExits ==
  /\ pc \in {"child", "printed"}
  /\ IF listed THEN KQ!Enter(shell) /\ pc' = "prompt"
     ELSE UNCHANGED keyvars /\ pc' = "panic"
  /\ UNCHANGED <<terminal, linevars, parsevars, start, number, garbled, listed, typed>>

Shell ==
  \/ PrintPrompt \/ kernel_getkeyblock \/ kernel_terminal_readline
  \/ PrintNewline \/ kernel_parse_command \/ kernel_system
  \/ (\E n \in Numbers : ChildPrints(n)) \/ ChildExits

(* panic() is an endless loop; in a wrong address space anything happens.   *)
Halted == Dead /\ UNCHANGED vars

Next == Shell \/ (\E c \in Chars : Press(c)) \/ Halted

Spec == Init /\ [][Next]_vars /\ WF_vars(Shell)

-----------------------------------------------------------------------------
(* Properties *)

(* Every variable has its type; the index stays inside the buffer and the  *)
(* cursor inside the row.                                                  *)
TypeOK ==
  /\ queue \in [{shell, child} -> Seq(Chars)] /\ current \in {shell, child}
  /\ key \in Chars \cup {0}
  /\ terminal.row \in Nat /\ terminal.col \in 0 .. Width - 1
  /\ buf \in [0 .. LineSize -> Chars \cup {0}] /\ i \in 0 .. LineSize
  /\ pc \in {"prompt", "getkey", "key", "newline", "parse", "system", "child", "printed",
             "panic", "wild"}
  /\ garbled \in BOOLEAN /\ listed \in BOOLEAN
  /\ sp \in Nat /\ start \in Nat /\ number \in Numbers \cup {0}

Reading == pc \in {"getkey", "key"}

(* While a line is typed, the screen shows it behind the prompt, with the  *)
(* cursor right after it and nothing left of what was erased, also when it *)
(* goes over the end of a row.  The prompt itself, unless it came out as   *)
(* something else, cannot be erased.                                       *)
EchoAgrees ==
  Reading =>
    /\ Cursor(terminal) = start + i
    /\ ~ garbled => Cell(terminal, start - 1) = Prompt
    /\ \A n \in 0 .. i - 1 : Cell(terminal, start + n) = buf[n]
    /\ \A n \in i .. LineSize : Cell(terminal, start + n) = Space

(* The reference: the line being typed and the lines ended, for the keys   *)
(* typed so far.                                                           *)
Keyed(s, c) ==
  LET line == IF c = CR THEN s.line
              ELSE IF c # Backspace THEN Append(s.line, c)
              ELSE IF s.line = <<>> THEN <<>> ELSE Front(s.line)
  IN  IF c = CR \/ Len(line) = LineSize
        THEN [line |-> <<>>, ended |-> Append(s.ended, line)]
        ELSE [s EXCEPT !.line = line]

Session(keys) ==
  LET after[n \in 0 .. Len(keys)] ==
        IF n = 0 THEN [line |-> <<>>, ended |-> <<>>] ELSE Keyed(after[n - 1], keys[n])
  IN  after[Len(keys)]

(* The keys the shell has dealt with.                                      *)
Consumed ==
  SubSeq(typed, 1, Len(typed) - Len(queue[shell]) - (IF pc = "key" THEN 1 ELSE 0))

(* The shell's line is what was typed for it, in order, with the erasures  *)
(* applied: no key is lost, repeated or taken by another line, although    *)
(* they arrive at any time and programs run between the lines.             *)
LineAsTyped ==
  /\ TypeOK
  /\ Reading => [n \in 1 .. i |-> buf[n - 1]] = Session(Consumed).line
  /\ pc \in {"newline", "parse", "system"} => Line = Last(Session(Consumed).ended)

(* The reference: where the words of a string start, and the word there.   *)
WordStarts(s) == {n \in DOMAIN s : s[n] # Space /\ (n > 1 => s[n - 1] = Space)}
WordAt(s, n) == SubSeq(s, n, Max({j \in n .. Len(s) : \A x \in n .. j : s[x] # Space}))

(* A command is run with the words of its line, each cut to the size of a  *)
(* node, or with the first of them when memory runs out.  Only of a line   *)
(* that filled the buffer is the last character left out.                  *)
CommandIsLine ==
  pc = "system" =>
    LET line == IF Len(Line) = LineSize THEN Front(Line) ELSE Line
        Cut(word) == SubSeq(word, 1, Min({Len(word), MaxArgument - 1}))
        last == Len(nodes)
    IN  /\ nodes # <<>>
        /\ \E at \in [1 .. last -> WordStarts(line)] :
             /\ \A n \in 1 .. last : nodes[n] = Cut(WordAt(line, at[n]))
             /\ \A n \in 1 .. last - 1 : at[n] < at[n + 1]
             /\ \A w \in WordStarts(line) : w <= at[last] => \E n \in 1 .. last : at[n] = w

(* A number that a program prints can be read off the screen, also at the  *)
(* end of a row.  The exceptions are the smallest and a print for which    *)
(* there was no memory.                                                    *)
NumberShown ==
  pc = "printed" /\ number # IntMin /\ ~ garbled =>
    LET str == [n \in 1 .. Cursor(terminal) - start |-> Cell(terminal, start + n - 1)]
    IN  IsNumeral(str) /\ ValueOf(str) = number

(* Enter, once queued for the shell, ends a line, whatever commands fail   *)
(* and whatever cannot be printed before its turn comes.  There are two    *)
(* ways for it not to: a program ends after the load of an earlier command *)
(* failed and took the shell from the table (PanicOnlyWhenEmpty of         *)
(* Sched.tla), or the words of a command could not be injected.            *)
EnterEndsLine ==
  (CR \in Range(queue[shell])) ~> (pc \in {"newline", "wild"} \/ (pc = "panic" /\ ~ listed))

=============================================================================
