------------------------------ MODULE KeyQueue ------------------------------
(***************************************************************************)
(* What the keyboard promises a program: every character the driver        *)
(* delivers while it is the current process waits for it, in order, unless *)
(* Bound characters wait already; only then is it lost.  Every delivery is *)
(* a step of this specification, the lost ones too: it flips a bit beside  *)
(* the character, so that a key pressed twice is not the same input.       *)
(* Keyboard.tla implements this.                                           *)
(***************************************************************************)
EXTENDS Naturals, Sequences

CONSTANTS Procs, NULL, Bound, Chars

VARIABLES queue,     \* queue[p]: what p has not read yet
          current,   \* the current process
          key,       \* the answer to the last getkey, 0 for "nothing yet"
          input      \* the character delivered last, and the bit

vars == <<queue, current, key, input>>

Delivered(c) == [char |-> c, bit |-> ~ input.bit]

Init ==
  /\ queue = [p \in Procs |-> <<>>]
  /\ current = NULL
  /\ key = 0
  /\ input = [char |-> 0, bit |-> FALSE]

Store(c) ==
  /\ current # NULL
  /\ Len(queue[current]) < Bound
  /\ queue' = [queue EXCEPT ![current] = Append(@, c)]
  /\ UNCHANGED <<current, key>>

Lose(c) ==
  /\ current # NULL
  /\ Len(queue[current]) = Bound
  /\ UNCHANGED <<queue, current, key>>

Type(c) ==
  /\ input' = Delivered(c)
  /\ Store(c) \/ Lose(c)

GetKey ==
  /\ current # NULL
  /\ IF queue[current] = <<>> THEN key' = 0 /\ UNCHANGED queue
     ELSE /\ key' = Head(queue[current])
          /\ queue' = [queue EXCEPT ![current] = Tail(@)]
  /\ UNCHANGED current

Erase(p) ==
  /\ queue[p] # <<>>
  /\ queue' = [queue EXCEPT ![p] = SubSeq(@, 1, Len(@) - 1)]
  /\ UNCHANGED <<current, key>>

Load(p) ==
  /\ queue' = [queue EXCEPT ![p] = <<>>]
  /\ current' = p
  /\ UNCHANGED key

Enter(p) == current' = p /\ UNCHANGED <<queue, key>>

Next ==
  \/ \E c \in Chars : Type(c)
  \/ /\ GetKey \/ \E p \in Procs : Erase(p) \/ Load(p) \/ Enter(p)
     /\ UNCHANGED input

Spec == Init /\ [][Next]_vars
=============================================================================
