------------------------------ MODULE Keyboard ------------------------------
(***************************************************************************)
(* Keyboard input: the driver driver/keyboard/classic.c and the ring       *)
(* buffer each process has, kernel/keyboard.c.                             *)
(*                                                                         *)
(* The handlers run with interrupts disabled and only user code is         *)
(* interrupted, so one interrupt or one system call is one step, and there *)
(* is a current process whenever one happens.  Characters are bytes.       *)
(***************************************************************************)
EXTENDS Integers, Sequences

CONSTANTS
  Procs, NULL,
  BufferSize,    \* KERNEL_KEYBOARD_BUFFER_SIZE
  ScanSet,       \* keyboard_scan_set_one: scancode -> character, 0 for none
  ScanSize,      \* its number of entries
  AfterTable,    \* the bytes the build may place right after it
  CapsLockKey,   \* CLASSIC_KEYBOARD_CAPSLOCK
  Scancodes      \* the scancodes explored

Bytes == 0 .. 255
KeyReleased == 128        \* CLASSIC_KEYBOARD_KEY_RELEASED
States == {"ON", "OFF"}   \* KEYBOARD_CAPS_LOCK_STATE

ASSUME KeyboardAssumption ==
  /\ NULL \notin Procs
  /\ BufferSize \in Nat \ {0}
  /\ ScanSize \in 1 .. KeyReleased
  /\ ScanSet \in [0 .. ScanSize - 1 -> Bytes]
  /\ AfterTable \subseteq Bytes
  /\ Scancodes \subseteq Bytes

VARIABLES
  keyboard,          \* process->keyboard
  current_process,
  capslock,          \* classic_keyboard.state
  key,               \* what the last getkey returned
  input              \* the character the driver gave keyboard_push last, and
                     \* a bit that tells it from the one before

vars == <<keyboard, current_process, capslock, key, input>>

Indexes == 0 .. BufferSize - 1

-----------------------------------------------------------------------------
(* The driver *)

ToUpper(c) == IF 97 <= c /\ c <= 122 THEN c - 32 ELSE c

(* The characters a scancode may give.  The range check lets the scancode  *)
(* equal to the size through, which reads the byte after the table.        *)
classic_keyboard_scancode_to_char(scancode, state) ==
  LET cs == IF scancode > ScanSize THEN {0}
            ELSE IF scancode = ScanSize THEN AfterTable
            ELSE {ScanSet[scancode]}
  IN  IF state = "ON" THEN {ToUpper(c) : c \in cs} ELSE cs

-----------------------------------------------------------------------------
(* The ring buffer of a process *)

Rings == [buffer : [Indexes -> Bytes], head : Indexes, tail : Indexes,
          size : 0 .. BufferSize]

Zeroed == [buffer |-> [i \in Indexes |-> 0], head |-> 0, tail |-> 0, size |-> 0]

keyboard_get_next_index(index) == (index + 1) % BufferSize

keyboard_get_last_index(index) == (index + BufferSize - 1) % BufferSize

(* Slip: a buffer with one place left counts as full.                      *)
PushNeedsTwo(k, c) ==
  LET index == keyboard_get_next_index(k.tail)
  IN  IF c = 0 \/ k.size + 1 = BufferSize THEN k
      ELSE [buffer |-> [k.buffer EXCEPT ![index] = c], head |-> k.head,
            tail |-> index, size |-> k.size + 1]

(* A character that does not fit is dropped.                               *)
keyboard_push(k, c) ==
  LET index == keyboard_get_next_index(k.tail)
  IN  IF c = 0 \/ k.size = BufferSize THEN k
      ELSE [buffer |-> [k.buffer EXCEPT ![index] = c], head |-> k.head,
            tail |-> index, size |-> k.size + 1]

(* Slip: the character stays in the buffer.                                *)
PopKeepsByte(k) ==
  IF k.size = 0 THEN k
  ELSE [buffer |-> k.buffer, head |-> keyboard_get_next_index(k.head),
        tail |-> k.tail, size |-> k.size - 1]

keyboard_pop(k) ==
  LET index == keyboard_get_next_index(k.head)
  IN  IF k.size = 0 THEN k
      ELSE [buffer |-> [k.buffer EXCEPT ![index] = 0], head |-> index,
            tail |-> k.tail, size |-> k.size - 1]

Erased(k) ==
  [buffer |-> [k.buffer EXCEPT ![k.tail] = 0], head |-> k.head,
   tail |-> keyboard_get_last_index(k.tail), size |-> k.size - 1]

Popped(k) == IF k.size = 0 THEN 0 ELSE k.buffer[keyboard_get_next_index(k.head)]

-----------------------------------------------------------------------------
(* The steps *)

Init ==
  /\ keyboard = [p \in Procs |-> Zeroed]
  /\ current_process = NULL
  /\ capslock = "OFF"                          \* classic_keyboard_init
  /\ key = 0
  /\ input = [char |-> 0, bit |-> FALSE]

(* A released key does nothing.  Caps lock toggles first and then goes     *)
(* through the table like any other key.  A key without a character is not *)
(* given to keyboard_push.                                                 *)
classic_keyboard_handle_interrupt(scancode) ==
  /\ current_process # NULL
  /\ scancode < KeyReleased
  /\ capslock' = IF scancode # CapsLockKey THEN capslock
                 ELSE IF capslock = "ON" THEN "OFF" ELSE "ON"
  /\ \E c \in classic_keyboard_scancode_to_char(scancode, capslock') :
       /\ keyboard' = [keyboard EXCEPT ![current_process] = keyboard_push(@, c)]
       /\ input' = IF c = 0 THEN input ELSE [char |-> c, bit |-> ~ input.bit]
  /\ UNCHANGED <<current_process, key>>

KeyRelease(scancode) ==
  /\ current_process # NULL
  /\ scancode >= KeyReleased
  /\ UNCHANGED vars

isr80h_command2_getkey ==
  /\ current_process # NULL
  /\ key' = Popped(keyboard[current_process])
  /\ keyboard' = [keyboard EXCEPT ![current_process] = keyboard_pop(@)]
  /\ UNCHANGED <<current_process, capslock, input>>

(* Exported by kernel/keyboard.h; nothing calls it yet.                    *)
keyboard_backspace(p) ==
  /\ keyboard[p].size # 0
  /\ keyboard' = [keyboard EXCEPT ![p] = Erased(@)]
  /\ UNCHANGED <<current_process, capslock, key, input>>

(* A process is loaded, its struct from kzalloc, and made current.         *)
process_load_switch(p) ==
  /\ p # current_process
  /\ keyboard' = [keyboard EXCEPT ![p] = Zeroed]
  /\ current_process' = p
  /\ UNCHANGED <<capslock, key, input>>

(* task_next makes another process current (Sched.tla).                    *)
process_switch(p) ==
  /\ current_process # NULL
  /\ current_process' = p
  /\ UNCHANGED <<keyboard, capslock, key, input>>

Next ==
  \/ \E s \in Scancodes : classic_keyboard_handle_interrupt(s) \/ KeyRelease(s)
  \/ isr80h_command2_getkey
  \/ \E p \in Procs : keyboard_backspace(p) \/ process_load_switch(p) \/ process_switch(p)

Spec == Init /\ [][Next]_vars

-----------------------------------------------------------------------------
(* Properties *)

(* Every variable has its type; the indexes stay inside the buffer.        *)
TypeOK ==
  /\ keyboard \in [Procs -> Rings]
  /\ current_process \in Procs \cup {NULL}
  /\ capslock \in States
  /\ key \in Bytes
  /\ input \in [char : Bytes, bit : BOOLEAN]

(* The n-th waiting character.                                             *)
Slot(k, n) == (k.head + n) % BufferSize

(* head, tail and size, which keyboard.c updates separately, always agree, *)
(* the waiting bytes are exactly the non-zero ones, and so keyboard_pop    *)
(* answers 0, which programs read as "no key", only when nothing waits.    *)
RingOK(k) ==
  /\ k.tail = Slot(k, k.size)
  /\ {i \in Indexes : k.buffer[i] # 0} = {Slot(k, n) : n \in 1 .. k.size}

RingInv == \A p \in Procs : RingOK(keyboard[p])

Contents(k) == [n \in 1 .. k.size |-> k.buffer[Slot(k, n)]]

Queue == INSTANCE KeyQueue WITH
           queue <- [p \in Procs |-> Contents(keyboard[p])],
           current <- current_process, Bound <- BufferSize, Chars <- Bytes \ {0}

(* Whatever is typed, read, erased and switched, each character the driver *)
(* delivers is queued, that very character, once and behind those before   *)
(* it, for the process current at that moment, and every process reads its *)
(* own in that order; a character is lost only when BufferSize others wait.*)
ImplementsKeyQueue == Queue!Spec
=============================================================================
