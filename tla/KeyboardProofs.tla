--------------------------- MODULE KeyboardProofs ---------------------------
(***************************************************************************)
(* The ring buffer of kernel/keyboard.c, for every buffer size, scan table *)
(* and set of processes: it stays inside its bounds, its three counters    *)
(* agree, and it is the queue of KeyQueue.                                 *)
(***************************************************************************)
EXTENDS Keyboard, TLAPS

(* The index after the last one is the first one.                          *)
LEMMA NextIndex ==
  ASSUME NEW i \in Indexes
  PROVE  keyboard_get_next_index(i) = (IF i = BufferSize - 1 THEN 0 ELSE i + 1)
<1>1. BufferSize \in Nat \ {0} BY KeyboardAssumption
<1>2. i \in Int /\ 0 <= i /\ i < BufferSize BY <1>1 DEF Indexes
<1>3. (i + 1) % BufferSize = (IF i = BufferSize - 1 THEN 0 ELSE i + 1) BY <1>1, <1>2
<1> QED BY <1>3 DEF keyboard_get_next_index

(* The index before the first one is the last one.                         *)
LEMMA LastIndex ==
  ASSUME NEW i \in Indexes
  PROVE  keyboard_get_last_index(i) = (IF i = 0 THEN BufferSize - 1 ELSE i - 1)
<1>1. BufferSize \in Nat \ {0} BY KeyboardAssumption
<1>2. i \in Int /\ 0 <= i /\ i < BufferSize BY <1>1 DEF Indexes
<1>3. (i + BufferSize - 1) % BufferSize = (IF i = 0 THEN BufferSize - 1 ELSE i - 1)
  BY <1>1, <1>2
<1> QED BY <1>3 DEF keyboard_get_last_index

(* Where the n-th waiting character is, without the modulus.               *)
LEMMA SlotValue ==
  ASSUME NEW k \in Rings, NEW n \in 0 .. BufferSize
  PROVE  /\ Slot(k, n) = (IF k.head + n < BufferSize THEN k.head + n
                                                     ELSE k.head + n - BufferSize)
         /\ Slot(k, n) \in Indexes
<1>1. BufferSize \in Nat \ {0} BY KeyboardAssumption
<1> DEFINE h == k.head
<1>2. h \in Int /\ 0 <= h /\ h < BufferSize BY <1>1 DEF Rings, Indexes
<1>3. n \in Int /\ 0 <= n /\ n <= BufferSize BY <1>1
<1> HIDE DEF h
<1>4. (h + n) % BufferSize = (IF h + n < BufferSize THEN h + n ELSE h + n - BufferSize)
  BY <1>1, <1>2, <1>3
<1>5. (h + n) % BufferSize \in 0 .. BufferSize - 1 BY <1>1, <1>2, <1>3
<1> QED BY <1>4, <1>5 DEF h, Slot, Indexes

(* Different waiting characters are in different places.                   *)
LEMMA SlotInjective ==
  ASSUME NEW k \in Rings, NEW m \in 0 .. BufferSize, NEW n \in 0 .. BufferSize,
         Slot(k, m) = Slot(k, n), m < n
  PROVE  m = 0 /\ n = BufferSize
<1>1. BufferSize \in Nat \ {0} BY KeyboardAssumption
<1> DEFINE h == k.head
<1>2. h \in Int /\ 0 <= h /\ h < BufferSize BY <1>1 DEF Rings, Indexes
<1>3. (IF h + m < BufferSize THEN h + m ELSE h + m - BufferSize)
      = (IF h + n < BufferSize THEN h + n ELSE h + n - BufferSize) BY SlotValue
<1> HIDE DEF h
<1> QED BY <1>1, <1>2, <1>3

(* RingOK index by index.                                                  *)
LEMMA RingPointwise ==
  ASSUME NEW k \in Rings
  PROVE  RingOK(k) <=>
           /\ k.tail = Slot(k, k.size)
           /\ \A i \in Indexes :
                k.buffer[i] # 0 <=> \E n \in 1 .. k.size : i = Slot(k, n)
<1>1. k.size \in 0 .. BufferSize BY DEF Rings
<1>2. \A n \in 1 .. k.size : Slot(k, n) \in Indexes
  <2> TAKE n \in 1 .. k.size
  <2>1. n \in 0 .. BufferSize BY <1>1, KeyboardAssumption
  <2> QED BY <2>1, SlotValue
<1> QED BY <1>2, Zenon DEF RingOK

(* The index keyboard_push writes and keyboard_pop reads.                  *)
LEMMA SlotSucc ==
  ASSUME NEW k \in Rings, NEW n \in 0 .. BufferSize - 1
  PROVE  Slot(k, n + 1) = keyboard_get_next_index(Slot(k, n))
<1>1. BufferSize \in Nat \ {0} BY KeyboardAssumption
<1> DEFINE h == k.head
<1>2. h \in Int /\ 0 <= h /\ h < BufferSize BY <1>1 DEF Rings, Indexes
<1>3. n \in 0 .. BufferSize /\ n + 1 \in 0 .. BufferSize BY <1>1
<1>4. Slot(k, n) = (IF h + n < BufferSize THEN h + n ELSE h + n - BufferSize)
      /\ Slot(k, n) \in Indexes BY <1>3, SlotValue
<1>5. Slot(k, n + 1) = (IF h + (n + 1) < BufferSize THEN h + (n + 1)
                        ELSE h + (n + 1) - BufferSize) BY <1>3, SlotValue
<1>6. keyboard_get_next_index(Slot(k, n))
      = (IF Slot(k, n) = BufferSize - 1 THEN 0 ELSE Slot(k, n) + 1)
  BY <1>4, NextIndex
<1> HIDE DEF h
<1> QED BY <1>1, <1>2, <1>3, <1>4, <1>5, <1>6

(* A push that is not dropped: the ring stays a ring and its queue gets c  *)
(* at its end.                                                             *)
LEMMA PushOK ==
  ASSUME NEW k \in Rings, RingOK(k), NEW c \in Bytes, c # 0, k.size # BufferSize
  PROVE  /\ keyboard_push(k, c) \in Rings
         /\ RingOK(keyboard_push(k, c))
         /\ Contents(keyboard_push(k, c)) = Append(Contents(k), c)
<1> DEFINE index == keyboard_get_next_index(k.tail)
           j == keyboard_push(k, c)
<1>1. BufferSize \in Nat \ {0} BY KeyboardAssumption
<1>2. k.size \in 0 .. BufferSize - 1 BY <1>1 DEF Rings
<1>3. index = Slot(k, k.size + 1) /\ index \in Indexes
  <2>1. k.tail = Slot(k, k.size) BY DEF RingOK
  <2>2. index = Slot(k, k.size + 1) BY <1>2, <2>1, SlotSucc
  <2>3. k.size + 1 \in 0 .. BufferSize BY <1>1, <1>2
  <2> QED BY <2>2, <2>3, SlotValue
<1>4. j = [buffer |-> [k.buffer EXCEPT ![index] = c], head |-> k.head,
           tail |-> index, size |-> k.size + 1] BY DEF keyboard_push
<1> HIDE DEF index, j
<1>5. j \in Rings BY <1>1, <1>2, <1>3, <1>4 DEF Rings
<1>6. /\ j.head = k.head /\ j.tail = index /\ j.size = k.size + 1
      /\ j.buffer = [k.buffer EXCEPT ![index] = c] BY <1>4
<1>7. \A n : Slot(j, n) = Slot(k, n) BY <1>6 DEF Slot
<1>8. \A n \in 1 .. k.size : Slot(k, n) # index
  <2> SUFFICES ASSUME NEW n \in 1 .. k.size, Slot(k, n) = Slot(k, k.size + 1) PROVE FALSE
    BY <1>3
  <2>1. n \in 0 .. BufferSize /\ k.size + 1 \in 0 .. BufferSize /\ n < k.size + 1 /\ n # 0
    BY <1>1, <1>2
  <2> QED BY <2>1, SlotInjective
<1>9. k.buffer \in [Indexes -> Bytes] BY DEF Rings
<1>10. RingOK(j)
  <2>1. j.tail = Slot(j, j.size) BY <1>3, <1>6, <1>7
  <2>2. ASSUME NEW i \in Indexes
        PROVE  j.buffer[i] # 0 <=> \E n \in 1 .. j.size : i = Slot(j, n)
    <3>1. CASE i = index
      <4>1. j.buffer[i] = c BY <1>6, <1>9, <3>1
      <4>2. k.size + 1 \in 1 .. j.size BY <1>2, <1>6
      <4> QED BY <1>3, <1>7, <3>1, <4>1, <4>2
    <3>2. CASE i # index
      <4>1. j.buffer[i] = k.buffer[i] BY <1>6, <1>9, <3>2
      <4>2. k.buffer[i] # 0 <=> \E n \in 1 .. k.size : i = Slot(k, n) BY RingPointwise
      <4>3. \A n : n \in 1 .. j.size <=> n \in 1 .. k.size \/ n = k.size + 1 BY <1>2, <1>6
      <4> QED BY <1>3, <1>7, <3>2, <4>1, <4>2, <4>3
    <3> QED BY <3>1, <3>2
  <2> QED BY <1>5, <2>1, <2>2, RingPointwise
<1>11. Contents(j) = Append(Contents(k), c)
  <2>1. Contents(j) = [n \in 1 .. k.size + 1 |-> j.buffer[Slot(k, n)]]
    BY <1>6, <1>7 DEF Contents
  <2>2. \A n \in 1 .. k.size : Slot(k, n) \in Indexes
    BY <1>2, SlotValue, KeyboardAssumption
  <2>3. \A n \in 1 .. k.size : j.buffer[Slot(k, n)] = k.buffer[Slot(k, n)]
    BY <1>6, <1>8, <1>9, <2>2
  <2>4. j.buffer[Slot(k, k.size + 1)] = c BY <1>3, <1>6, <1>9
  <2>5. Contents(k) = [n \in 1 .. k.size |-> k.buffer[Slot(k, n)]] BY DEF Contents
  <2>6. Contents(k) \in Seq(Bytes) /\ Len(Contents(k)) = k.size
    BY <1>2, <1>9, <2>2, <2>5
  <2> QED BY <1>2, <2>1, <2>3, <2>4, <2>5, <2>6
<1> QED BY <1>5, <1>10, <1>11 DEF j

(* The queue of a ring is a sequence of as many characters as wait.        *)
LEMMA ContentsSeq ==
  ASSUME NEW k \in Rings
  PROVE  /\ Contents(k) \in Seq(Bytes) /\ Len(Contents(k)) = k.size
         /\ \A n \in 1 .. k.size : Slot(k, n) \in Indexes
         /\ \A n \in 1 .. k.size : Contents(k)[n] = k.buffer[Slot(k, n)]
<1>1. k.size \in 0 .. BufferSize /\ k.buffer \in [Indexes -> Bytes] BY DEF Rings
<1>2. \A n \in 1 .. k.size : Slot(k, n) \in Indexes
  BY <1>1, SlotValue, KeyboardAssumption
<1>3. Contents(k) = [n \in 1 .. k.size |-> k.buffer[Slot(k, n)]] BY DEF Contents
<1> QED BY <1>1, <1>2, <1>3, KeyboardAssumption

(* After a pop the n-th waiting character is the one that was next to it.  *)
LEMMA SlotShift ==
  ASSUME NEW k \in Rings, NEW j \in Rings, j.head = Slot(k, 1),
         NEW n \in 0 .. BufferSize - 1
  PROVE  Slot(j, n) = Slot(k, n + 1)
<1>1. BufferSize \in Nat \ {0} BY KeyboardAssumption
<1> DEFINE h == k.head
           g == j.head
<1>2. h \in Int /\ 0 <= h /\ h < BufferSize BY <1>1 DEF Rings, Indexes
<1>3. 1 \in 0 .. BufferSize /\ n \in 0 .. BufferSize /\ n + 1 \in 0 .. BufferSize BY <1>1
<1>4. g = (IF h + 1 < BufferSize THEN h + 1 ELSE h + 1 - BufferSize) BY <1>3, SlotValue
<1>5. Slot(j, n) = (IF g + n < BufferSize THEN g + n ELSE g + n - BufferSize)
  BY <1>3, SlotValue
<1>6. Slot(k, n + 1) = (IF h + (n + 1) < BufferSize THEN h + (n + 1)
                        ELSE h + (n + 1) - BufferSize) BY <1>3, SlotValue
<1> HIDE DEF h, g
<1> QED BY <1>1, <1>2, <1>3, <1>4, <1>5, <1>6

(* A pop of a ring that is not empty takes the first character.            *)
LEMMA PopOK ==
  ASSUME NEW k \in Rings, RingOK(k), k.size # 0
  PROVE  /\ keyboard_pop(k) \in Rings
         /\ RingOK(keyboard_pop(k))
         /\ Contents(keyboard_pop(k)) = Tail(Contents(k))
         /\ Contents(k) # << >> /\ Popped(k) = Head(Contents(k))
<1> DEFINE index == keyboard_get_next_index(k.head)
           j == keyboard_pop(k)
<1>1. BufferSize \in Nat \ {0} BY KeyboardAssumption
<1>2. k.size \in 1 .. BufferSize BY <1>1 DEF Rings
<1>3. index = Slot(k, 1) /\ index \in Indexes
  <2>1. k.head \in Indexes /\ 0 \in 0 .. BufferSize /\ 1 \in 0 .. BufferSize
    BY <1>1 DEF Rings
  <2>2. k.head \in Int /\ k.head < BufferSize BY <1>1, <2>1 DEF Indexes
  <2>3. Slot(k, 0) = k.head BY <1>1, <2>1, <2>2, SlotValue
  <2>4. Slot(k, 0 + 1) = keyboard_get_next_index(Slot(k, 0)) BY <1>1, SlotSucc
  <2> QED BY <2>1, <2>3, <2>4, SlotValue
<1>4. j = [buffer |-> [k.buffer EXCEPT ![index] = 0], head |-> index,
           tail |-> k.tail, size |-> k.size - 1] BY DEF keyboard_pop
<1>5. Popped(k) = k.buffer[index] BY DEF Popped
<1> HIDE DEF index, j
<1>6. j \in Rings BY <1>1, <1>2, <1>3, <1>4 DEF Rings, Bytes
<1>7. /\ j.head = index /\ j.tail = k.tail /\ j.size = k.size - 1
      /\ j.buffer = [k.buffer EXCEPT ![index] = 0] BY <1>4
<1>8. \A n \in 0 .. BufferSize - 1 : Slot(j, n) = Slot(k, n + 1)
  BY <1>3, <1>6, <1>7, SlotShift
<1>9. \A n \in 2 .. k.size : Slot(k, n) # index
  <2> SUFFICES ASSUME NEW n \in 2 .. k.size, Slot(k, 1) = Slot(k, n) PROVE FALSE
    BY <1>3
  <2>1. n \in 0 .. BufferSize /\ 1 \in 0 .. BufferSize /\ 1 < n BY <1>1, <1>2
  <2> QED BY <2>1, SlotInjective
<1>10. k.buffer \in [Indexes -> Bytes] BY DEF Rings
<1>11. RingOK(j)
  <2>1. j.tail = Slot(j, j.size)
    <3>1. k.size - 1 \in 0 .. BufferSize - 1 /\ (k.size - 1) + 1 = k.size BY <1>1, <1>2
    <3>2. Slot(j, k.size - 1) = Slot(k, k.size) BY <1>8, <3>1
    <3> QED BY <1>7, <3>2 DEF RingOK
  <2>2. ASSUME NEW i \in Indexes
        PROVE  j.buffer[i] # 0 <=> \E n \in 1 .. j.size : i = Slot(j, n)
    <3>1. \A n \in 1 .. j.size :
            n \in 0 .. BufferSize - 1 /\ n + 1 \in 2 .. k.size BY <1>1, <1>2, <1>7
    <3>2. CASE i = index
      <4>1. j.buffer[i] = 0 BY <1>7, <1>10, <3>2
      <4> QED BY <1>8, <1>9, <3>1, <3>2, <4>1
    <3>3. CASE i # index
      <4>1. j.buffer[i] = k.buffer[i] BY <1>7, <1>10, <3>3
      <4>2. k.buffer[i] # 0 <=> \E n \in 1 .. k.size : i = Slot(k, n) BY RingPointwise
      <4>3. (\E n \in 1 .. k.size : i = Slot(k, n)) => \E n \in 1 .. j.size : i = Slot(j, n)
        <5> SUFFICES ASSUME NEW n \in 1 .. k.size, i = Slot(k, n)
                     PROVE  \E m \in 1 .. j.size : i = Slot(j, m)
          OBVIOUS
        <5>1. n # 1 BY <1>3, <3>3
        <5>2. n - 1 \in 1 .. j.size /\ (n - 1) + 1 = n BY <1>2, <1>7, <5>1
        <5>3. Slot(j, n - 1) = Slot(k, n) BY <1>8, <3>1, <5>2
        <5> QED BY <5>2, <5>3
      <4>4. (\E n \in 1 .. j.size : i = Slot(j, n)) => \E n \in 1 .. k.size : i = Slot(k, n)
        <5> SUFFICES ASSUME NEW n \in 1 .. j.size, i = Slot(j, n)
                     PROVE  \E m \in 1 .. k.size : i = Slot(k, m)
          OBVIOUS
        <5>1. n + 1 \in 1 .. k.size BY <1>2, <1>7
        <5> QED BY <1>8, <3>1, <5>1
      <4> QED BY <4>1, <4>2, <4>3, <4>4
    <3> QED BY <3>2, <3>3
  <2> QED BY <1>6, <2>1, <2>2, RingPointwise
<1>12. Contents(k) # << >> /\ Popped(k) = Head(Contents(k))
  <2>1. 1 \in 1 .. k.size BY <1>2
  <2> QED BY <1>2, <1>3, <1>5, <2>1, ContentsSeq
<1>13. Contents(j) = Tail(Contents(k))
  <2>1. Contents(j) \in Seq(Bytes) /\ Len(Contents(j)) = k.size - 1 BY <1>6, <1>7, ContentsSeq
  <2>2. Contents(k) \in Seq(Bytes) /\ Len(Contents(k)) = k.size BY ContentsSeq
  <2>3. ASSUME NEW n \in 1 .. k.size - 1 PROVE Contents(j)[n] = Contents(k)[n + 1]
    <3>1. n \in 1 .. j.size /\ n \in 0 .. BufferSize - 1 /\ n + 1 \in 2 .. k.size
          /\ n + 1 \in 1 .. k.size BY <1>1, <1>2, <1>7
    <3>2. Contents(j)[n] = j.buffer[Slot(k, n + 1)] BY <1>6, <1>8, <3>1, ContentsSeq
    <3>3. Slot(k, n + 1) \in Indexes /\ Contents(k)[n + 1] = k.buffer[Slot(k, n + 1)]
      BY <3>1, ContentsSeq
    <3> QED BY <1>7, <1>9, <1>10, <3>1, <3>2, <3>3
  <2> QED BY <1>2, <2>1, <2>2, <2>3
<1> QED BY <1>6, <1>11, <1>12, <1>13 DEF j

(* A backspace on a ring that is not empty takes the last character.       *)
LEMMA EraseOK ==
  ASSUME NEW k \in Rings, RingOK(k), k.size # 0
  PROVE  /\ Erased(k) \in Rings
         /\ RingOK(Erased(k))
         /\ Contents(Erased(k)) = SubSeq(Contents(k), 1, Len(Contents(k)) - 1)
         /\ Contents(k) # << >>
<1> DEFINE j == Erased(k)
           last == k.size - 1
<1>1. BufferSize \in Nat \ {0} BY KeyboardAssumption
<1>2. k.size \in 1 .. BufferSize BY <1>1 DEF Rings
<1>3. last \in 0 .. BufferSize - 1 /\ last + 1 = k.size BY <1>1, <1>2
<1>4. k.tail = Slot(k, k.size) /\ k.tail \in Indexes BY DEF RingOK, Rings
<1>5. keyboard_get_last_index(k.tail) = Slot(k, last) /\ Slot(k, last) \in Indexes
  <2>1. k.tail = keyboard_get_next_index(Slot(k, last)) BY <1>3, <1>4, SlotSucc
  <2>2. Slot(k, last) \in Indexes BY <1>1, <1>3, SlotValue
  <2>3. k.tail = (IF Slot(k, last) = BufferSize - 1 THEN 0 ELSE Slot(k, last) + 1)
    BY <2>1, <2>2, NextIndex
  <2>4. keyboard_get_last_index(k.tail) = (IF k.tail = 0 THEN BufferSize - 1 ELSE k.tail - 1)
    BY <1>4, LastIndex
  <2> QED BY <1>1, <2>2, <2>3, <2>4 DEF Indexes
<1>6. j = [buffer |-> [k.buffer EXCEPT ![k.tail] = 0], head |-> k.head,
           tail |-> Slot(k, last), size |-> last] BY <1>5 DEF Erased
<1> HIDE DEF j, last
<1>7. j \in Rings BY <1>1, <1>3, <1>5, <1>6 DEF Rings, Bytes
<1>8. /\ j.head = k.head /\ j.tail = Slot(k, last) /\ j.size = last
      /\ j.buffer = [k.buffer EXCEPT ![k.tail] = 0] BY <1>6
<1>9. \A n : Slot(j, n) = Slot(k, n) BY <1>8 DEF Slot
<1>10. \A n \in 1 .. last : Slot(k, n) # k.tail
  <2> SUFFICES ASSUME NEW n \in 1 .. last, Slot(k, n) = Slot(k, k.size) PROVE FALSE
    BY <1>4
  <2>1. n \in 0 .. BufferSize /\ k.size \in 0 .. BufferSize /\ n < k.size /\ n # 0
    BY <1>1, <1>2, <1>3
  <2> QED BY <2>1, SlotInjective
<1>11. k.buffer \in [Indexes -> Bytes] BY DEF Rings
<1>12. RingOK(j)
  <2>1. j.tail = Slot(j, j.size) BY <1>8, <1>9
  <2>2. ASSUME NEW i \in Indexes
        PROVE  j.buffer[i] # 0 <=> \E n \in 1 .. j.size : i = Slot(j, n)
    <3>1. CASE i = k.tail
      <4>1. j.buffer[i] = 0 BY <1>8, <1>11, <3>1
      <4> QED BY <1>8, <1>9, <1>10, <3>1, <4>1
    <3>2. CASE i # k.tail
      <4>1. j.buffer[i] = k.buffer[i] BY <1>8, <1>11, <3>2
      <4>2. k.buffer[i] # 0 <=> \E n \in 1 .. k.size : i = Slot(k, n) BY RingPointwise
      <4>3. \A n : n \in 1 .. k.size <=> n \in 1 .. j.size \/ n = k.size BY <1>3, <1>2, <1>8
      <4> QED BY <1>4, <1>9, <3>2, <4>1, <4>2, <4>3
    <3> QED BY <3>1, <3>2
  <2> QED BY <1>7, <2>1, <2>2, RingPointwise
<1>13. Contents(k) \in Seq(Bytes) /\ Len(Contents(k)) = k.size BY ContentsSeq
<1>14. Contents(k) # << >> BY <1>2, <1>13
<1>15. Contents(j) = SubSeq(Contents(k), 1, last)
  <2>1. Contents(j) \in Seq(Bytes) /\ Len(Contents(j)) = last BY <1>7, <1>8, ContentsSeq
  <2>2. ASSUME NEW n \in 1 .. last PROVE Contents(j)[n] = Contents(k)[n]
    <3>1. n \in 1 .. j.size /\ n \in 1 .. k.size BY <1>2, <1>3, <1>8
    <3>2. Contents(j)[n] = j.buffer[Slot(k, n)] BY <1>7, <1>9, <3>1, ContentsSeq
    <3>3. Slot(k, n) \in Indexes /\ Contents(k)[n] = k.buffer[Slot(k, n)] BY <3>1, ContentsSeq
    <3> QED BY <1>8, <1>10, <1>11, <3>2, <3>3
  <2> QED BY <1>2, <1>3, <1>13, <2>1, <2>2
<1> QED BY <1>7, <1>12, <1>13, <1>14, <1>15 DEF j, last

-----------------------------------------------------------------------------
(* The steps *)

(* An empty ring.                                                          *)
LEMMA ZeroedOK ==
  Zeroed \in Rings /\ RingOK(Zeroed) /\ Contents(Zeroed) = << >>
<1>1. BufferSize \in Nat \ {0} BY KeyboardAssumption
<1>2. Zeroed \in Rings BY <1>1 DEF Zeroed, Rings, Indexes, Bytes
<1>3. Zeroed.size = 0 /\ Zeroed.head = 0 /\ Zeroed.tail = 0
      /\ Zeroed.buffer = [i \in Indexes |-> 0] BY DEF Zeroed
<1>4. Slot(Zeroed, 0) = 0 BY <1>1, <1>2, <1>3, SlotValue
<1>5. \A n : n \notin 1 .. 0 OBVIOUS
<1>6. RingOK(Zeroed) BY <1>2, <1>3, <1>4, <1>5, RingPointwise
<1>7. Contents(Zeroed) = << >> BY <1>2, <1>3, ContentsSeq
<1> QED BY <1>2, <1>6, <1>7

(* Whatever the scancode and the caps lock state, the driver pushes bytes. *)
LEMMA CharOK ==
  ASSUME NEW s \in Scancodes, NEW state, NEW c \in classic_keyboard_scancode_to_char(s, state)
  PROVE  c \in Bytes
<1> DEFINE cs == IF s > ScanSize THEN {0} ELSE IF s = ScanSize THEN AfterTable
                 ELSE {ScanSet[s]}
<1>1. s \in Int /\ 0 <= s /\ ScanSize \in Int BY KeyboardAssumption DEF Bytes, KeyReleased
<1>2. \A d \in cs : d \in Bytes
  <2>1. CASE s > ScanSize BY <2>1 DEF Bytes
  <2>2. CASE s = ScanSize BY <1>1, <2>2, KeyboardAssumption
  <2>3. CASE s < ScanSize
    <3>1. s \in 0 .. ScanSize - 1 BY <1>1, <2>3
    <3>2. ScanSet[s] \in Bytes BY <3>1, KeyboardAssumption
    <3>3. cs = {ScanSet[s]} BY <1>1, <2>3
    <3> QED BY <3>2, <3>3
  <2> QED BY <1>1, <2>1, <2>2, <2>3
<1>3. \A d \in Bytes : ToUpper(d) \in Bytes BY DEF ToUpper, Bytes
<1>4. c \in cs \/ \E d \in cs : c = ToUpper(d)
  BY Zenon DEF classic_keyboard_scancode_to_char
<1> QED BY <1>2, <1>3, <1>4

Inv == TypeOK /\ RingInv

(* The abstract queue of every process.                                    *)
Q == [p \in Procs |-> Contents(keyboard[p])]

(* keyboard_push, dropped or not, as the abstract queue sees it.           *)
LEMMA PushStep ==
  ASSUME NEW k \in Rings, RingOK(k), NEW c \in Bytes
  PROVE  /\ keyboard_push(k, c) \in Rings /\ RingOK(keyboard_push(k, c))
         /\ \/ /\ c = 0 \/ Len(Contents(k)) = BufferSize
               /\ keyboard_push(k, c) = k
            \/ /\ c # 0 /\ Len(Contents(k)) < BufferSize
               /\ Contents(keyboard_push(k, c)) = Append(Contents(k), c)
<1>1. CASE c = 0 \/ k.size = BufferSize BY <1>1, ContentsSeq DEF keyboard_push
<1>2. CASE c # 0 /\ k.size # BufferSize
  <2>1. k.size < BufferSize BY <1>2, KeyboardAssumption DEF Rings
  <2> QED BY <1>2, <2>1, PushOK, ContentsSeq
<1> QED BY <1>1, <1>2

(* When one ring of keyboard is replaced by another good one, the rings    *)
(* stay good and only the queue of that process changes.                   *)
LEMMA UpdateOK ==
  ASSUME Inv, NEW p \in Procs, NEW k \in Rings, RingOK(k),
         keyboard' = [keyboard EXCEPT ![p] = k]
  PROVE  /\ keyboard' \in [Procs -> Rings] /\ RingInv'
         /\ Q' = [Q EXCEPT ![p] = Contents(k)]
<1>1. keyboard \in [Procs -> Rings] /\ \A q \in Procs : RingOK(keyboard[q])
  BY DEF Inv, TypeOK, RingInv
<1>2. keyboard' \in [Procs -> Rings] BY <1>1
<1>3. \A q \in Procs : keyboard'[q] = IF q = p THEN k ELSE keyboard[q] BY <1>1
<1>4. \A q \in Procs : RingOK(keyboard'[q]) BY <1>1, <1>3
<1>5. RingInv' BY <1>4 DEF RingInv
<1>6. Q' = [Q EXCEPT ![p] = Contents(k)]
  <2>1. Q' = [q \in Procs |-> Contents(keyboard'[q])] BY DEF Q, Contents, Slot
  <2>2. [Q EXCEPT ![p] = Contents(k)]
        = [q \in Procs |-> IF q = p THEN Contents(k) ELSE Contents(keyboard[q])] BY DEF Q
  <2>3. \A q \in Procs : Contents(keyboard'[q])
                        = IF q = p THEN Contents(k) ELSE Contents(keyboard[q]) BY <1>3
  <2> QED BY <2>1, <2>2, <2>3
<1> QED BY <1>2, <1>5, <1>6

(* Every step keeps the invariant and is a step of KeyQueue.               *)
LEMMA StepOK ==
  ASSUME Inv, [Next]_vars
  PROVE  Inv' /\ [Queue!Next]_(Queue!vars)
<1> USE DEF Inv
<1>0. keyboard \in [Procs -> Rings] /\ (\A p \in Procs : RingOK(keyboard[p]))
      /\ current_process \in Procs \cup {NULL} /\ capslock \in States /\ key \in Bytes
      /\ input \in [char : Bytes, bit : BOOLEAN]
  BY DEF TypeOK, RingInv
<1>00. NULL \notin Procs BY KeyboardAssumption
<1>Q. Queue!vars = <<Q, current_process, key, input>> BY DEF Queue!vars, Q
<1>1. CASE UNCHANGED vars
  BY <1>0, <1>1, <1>Q DEF vars, TypeOK, RingInv, RingOK, Contents, Slot, Queue!vars
<1>2. ASSUME NEW s \in Scancodes, classic_keyboard_handle_interrupt(s)
      PROVE  Inv' /\ [Queue!Next]_(Queue!vars)
  <2> DEFINE p == current_process
  <2>1. p \in Procs BY <1>0, <1>2 DEF classic_keyboard_handle_interrupt
  <2>2. PICK c \in classic_keyboard_scancode_to_char(s, capslock') :
          /\ keyboard' = [keyboard EXCEPT ![p] = keyboard_push(@, c)]
          /\ input' = IF c = 0 THEN input ELSE [char |-> c, bit |-> ~ input.bit]
    BY <1>2 DEF classic_keyboard_handle_interrupt
  <2>3. c \in Bytes BY <2>2, CharOK
  <2>4. UNCHANGED <<current_process, key>> /\ capslock' \in States
    BY <1>0, <1>2 DEF classic_keyboard_handle_interrupt, States
  <2> DEFINE k == keyboard[p]
             j == keyboard_push(k, c)
  <2>5. k \in Rings /\ RingOK(k) BY <1>0, <2>1
  <2>6. keyboard' = [keyboard EXCEPT ![p] = j] BY <2>2
  <2>7. /\ j \in Rings /\ RingOK(j)
        /\ \/ (c = 0 \/ Len(Contents(k)) = BufferSize) /\ j = k
           \/ /\ c # 0 /\ Len(Contents(k)) < BufferSize
              /\ Contents(j) = Append(Contents(k), c)
    BY <2>3, <2>5, PushStep
  <2>8. keyboard' \in [Procs -> Rings] /\ RingInv' /\ Q' = [Q EXCEPT ![p] = Contents(j)]
    BY <2>1, <2>6, <2>7, UpdateOK
  <2>9. Q[p] = Contents(k) /\ Q = [q \in Procs |-> Q[q]] BY <2>1 DEF Q
  <2> HIDE DEF p, k, j
  <2>9a. input' \in [char : Bytes, bit : BOOLEAN] BY <1>0, <2>2, <2>3
  <2>10. Inv' BY <1>0, <2>4, <2>8, <2>9a DEF TypeOK
  <2>10a. c # 0 => input' = Queue!Delivered(c) BY <2>2 DEF Queue!Delivered
  <2>10b. CASE j = k /\ c = 0
    <3>1. Q' = Q BY <2>8, <2>9, <2>10b
    <3>2. input' = input BY <2>2, <2>10b
    <3> QED BY <1>Q, <2>4, <2>10, <3>1, <3>2 DEF Queue!vars, Q
  <2>11. CASE j = k /\ c # 0 /\ Len(Contents(k)) = BufferSize
    <3>1. Q' = Q BY <2>8, <2>9, <2>11
    <3>2. Queue!Lose(c) BY <1>00, <2>1, <2>4, <2>9, <2>11, <3>1 DEF Queue!Lose, Q, p
    <3>3. Queue!Type(c) BY <2>10a, <2>11, <3>2 DEF Queue!Type
    <3>4. c \in Bytes \ {0} BY <2>3, <2>11
    <3> QED BY <2>10, <3>3, <3>4 DEF Queue!Next
  <2>12. CASE /\ c # 0 /\ Len(Contents(k)) < BufferSize
              /\ Contents(j) = Append(Contents(k), c)
    <3>1. Q' = [Q EXCEPT ![p] = Append(@, c)] BY <2>8, <2>9, <2>12
    <3>2. Queue!Store(c)
      BY <1>00, <2>1, <2>4, <2>9, <2>12, <3>1 DEF Queue!Store, Q, p
    <3>3. Queue!Type(c) BY <2>10a, <2>12, <3>2 DEF Queue!Type
    <3>4. c \in Bytes \ {0} BY <2>3, <2>12
    <3> QED BY <2>10, <3>3, <3>4 DEF Queue!Next
  <2> QED BY <2>7, <2>10b, <2>11, <2>12
<1>3. ASSUME NEW s \in Scancodes, KeyRelease(s)
      PROVE  Inv' /\ [Queue!Next]_(Queue!vars)
  BY <1>1, <1>3 DEF KeyRelease
<1>4. CASE isr80h_command2_getkey
  <2> DEFINE p == current_process
             k == keyboard[p]
             j == keyboard_pop(k)
  <2>1. p \in Procs BY <1>0, <1>4 DEF isr80h_command2_getkey
  <2>2. k \in Rings /\ RingOK(k) BY <1>0, <2>1
  <2>3. /\ keyboard' = [keyboard EXCEPT ![p] = j] /\ key' = Popped(k)
        /\ UNCHANGED <<current_process, capslock, input>>
    BY <1>4 DEF isr80h_command2_getkey
  <2>4. Q[p] = Contents(k) /\ Q = [q \in Procs |-> Q[q]] BY <2>1 DEF Q
  <2>5. CASE k.size = 0
    <3>1. j = k /\ Popped(k) = 0 BY <2>5 DEF keyboard_pop, Popped
    <3>2. Contents(k) = << >> BY <2>2, <2>5, ContentsSeq
    <3>3. keyboard' \in [Procs -> Rings] /\ RingInv' /\ Q' = [Q EXCEPT ![p] = Contents(k)]
      BY <2>1, <2>2, <2>3, <3>1, UpdateOK
    <3> HIDE DEF p, k, j
    <3>4. Q' = Q BY <2>4, <3>3
    <3>5. Inv' BY <1>0, <2>3, <3>1, <3>3 DEF TypeOK, Bytes
    <3>6. Queue!GetKey
      BY <1>00, <2>1, <2>3, <2>4, <3>1, <3>2, <3>4 DEF Queue!GetKey, Q, p
    <3> QED BY <2>3, <3>5, <3>6 DEF Queue!Next
  <2>6. CASE k.size # 0
    <3>1. /\ j \in Rings /\ RingOK(j) /\ Contents(j) = Tail(Contents(k))
          /\ Contents(k) # << >> /\ Popped(k) = Head(Contents(k))
      BY <2>2, <2>6, PopOK
    <3>2. keyboard' \in [Procs -> Rings] /\ RingInv' /\ Q' = [Q EXCEPT ![p] = Contents(j)]
      BY <2>1, <2>3, <3>1, UpdateOK
    <3>3. Popped(k) \in Bytes
      <4>1. Contents(k) \in Seq(Bytes) BY <2>2, ContentsSeq
      <4> QED BY <3>1, <4>1
    <3> HIDE DEF p, k, j
    <3>4. Q' = [Q EXCEPT ![p] = Tail(@)] BY <2>4, <3>1, <3>2
    <3>5. Inv' BY <1>0, <2>3, <3>2, <3>3 DEF TypeOK
    <3>6. Queue!GetKey
      BY <1>00, <2>1, <2>3, <2>4, <3>1, <3>4 DEF Queue!GetKey, Q, p
    <3> QED BY <2>3, <3>5, <3>6 DEF Queue!Next
  <2> QED BY <2>5, <2>6
<1>5. ASSUME NEW p \in Procs, keyboard_backspace(p)
      PROVE  Inv' /\ [Queue!Next]_(Queue!vars)
  <2> DEFINE k == keyboard[p]
             j == Erased(k)
  <2>1. k \in Rings /\ RingOK(k) /\ k.size # 0 BY <1>0, <1>5 DEF keyboard_backspace
  <2>2. /\ keyboard' = [keyboard EXCEPT ![p] = j]
        /\ UNCHANGED <<current_process, capslock, key, input>>
    BY <1>5 DEF keyboard_backspace
  <2>3. /\ j \in Rings /\ RingOK(j) /\ Contents(k) # << >>
        /\ Contents(j) = SubSeq(Contents(k), 1, Len(Contents(k)) - 1)
    BY <2>1, EraseOK
  <2>4. keyboard' \in [Procs -> Rings] /\ RingInv' /\ Q' = [Q EXCEPT ![p] = Contents(j)]
    BY <2>2, <2>3, UpdateOK
  <2>5. Q[p] = Contents(k) BY DEF Q
  <2> HIDE DEF k, j
  <2>6. Q' = [Q EXCEPT ![p] = SubSeq(@, 1, Len(@) - 1)] BY <2>3, <2>4, <2>5
  <2>7. Inv' BY <1>0, <2>2, <2>4 DEF TypeOK
  <2>8. Queue!Erase(p) BY <2>2, <2>3, <2>5, <2>6 DEF Queue!Erase, Q
  <2> QED BY <2>2, <2>7, <2>8 DEF Queue!Next
<1>6. ASSUME NEW p \in Procs, process_load_switch(p)
      PROVE  Inv' /\ [Queue!Next]_(Queue!vars)
  <2>1. /\ keyboard' = [keyboard EXCEPT ![p] = Zeroed]
        /\ current_process' = p /\ UNCHANGED <<capslock, key, input>>
    BY <1>6 DEF process_load_switch
  <2>2. keyboard' \in [Procs -> Rings] /\ RingInv' /\ Q' = [Q EXCEPT ![p] = << >>]
    BY <2>1, ZeroedOK, UpdateOK
  <2>3. Inv' BY <1>0, <2>1, <2>2 DEF TypeOK
  <2>4. Queue!Load(p) BY <2>1, <2>2 DEF Queue!Load, Q
  <2> QED BY <2>1, <2>3, <2>4 DEF Queue!Next
<1>7. ASSUME NEW p \in Procs, process_switch(p)
      PROVE  Inv' /\ [Queue!Next]_(Queue!vars)
  <2>1. current_process' = p /\ UNCHANGED <<keyboard, capslock, key, input>>
    BY <1>7 DEF process_switch
  <2>2. RingInv' /\ Q' = Q BY <1>0, <2>1 DEF RingInv, Q
  <2>3. Inv' BY <1>0, <2>1, <2>2 DEF TypeOK
  <2>4. Queue!Enter(p) BY <2>1, <2>2 DEF Queue!Enter, Q
  <2> QED BY <2>1, <2>3, <2>4 DEF Queue!Next
<1> QED BY <1>1, <1>2, <1>3, <1>4, <1>5, <1>6, <1>7 DEF Next

(* The initial state.                                                      *)
LEMMA InitOK == Init => Inv /\ Queue!Init
<1> SUFFICES ASSUME Init PROVE Inv /\ Queue!Init OBVIOUS
<1>1. keyboard = [p \in Procs |-> Zeroed] BY DEF Init
<1>2. \A p \in Procs : keyboard[p] \in Rings /\ RingOK(keyboard[p])
                      /\ Contents(keyboard[p]) = << >>
  BY <1>1, ZeroedOK
<1>3. Inv BY <1>1, <1>2, ZeroedOK DEF Init, Inv, TypeOK, RingInv, States, Bytes
<1>4. Queue!Init BY <1>2 DEF Init, Queue!Init
<1> QED BY <1>3, <1>4

(* keyboard.c never indexes outside the buffer, and head, tail and size    *)
(* agree with the waiting bytes after every sequence of keys, reads,       *)
(* backspaces and switches, for every buffer size.                         *)
THEOREM KeyboardSafety == Spec => [](TypeOK /\ RingInv)
<1>1. Init => Inv BY InitOK
<1>2. Inv /\ [Next]_vars => Inv' BY StepOK
<1> QED BY <1>1, <1>2, PTL DEF Spec, Inv

(* The ring buffers and the driver implement KeyQueue: every character     *)
(* delivered is queued for the current process, or lost in a full buffer.  *)
THEOREM KeyboardImplements == Spec => ImplementsKeyQueue
<1>1. Init => Inv /\ Queue!Init BY InitOK
<1>2. Inv /\ [Next]_vars => Inv' /\ [Queue!Next]_(Queue!vars) BY StepOK
<1> QED BY <1>1, <1>2, PTL DEF Spec, ImplementsKeyQueue, Queue!Spec
=============================================================================
