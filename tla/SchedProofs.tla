---------------------------- MODULE SchedProofs -----------------------------
(***************************************************************************)
(* The task list of kernel/task.c and the process table of kernel/sched.c, *)
(* for every number of processes and slots and whatever fails.             *)
(*                                                                         *)
(* That the links agree locally (Linked) is not inductive: were there a    *)
(* ring of tasks beside the list, freeing the last task of the list would  *)
(* leave tasks without a head.  The invariant therefore carries a rank     *)
(* that grows along the links, so every task lies on the one chain.        *)
(* From it follows that the list is the queue of RunQueue.                 *)
(***************************************************************************)
EXTENDS Registers, SequenceTheorems, FiniteSetTheorems, NaturalsInduction,
        WellFoundedInduction, TLAPS

Lists == [head : ProcOrNull, tail : ProcOrNull, current : ProcOrNull,
          next : [Procs -> ProcOrNull], prev : [Procs -> ProcOrNull]]

(* A task that does not exist has no links.                                *)
Fresh(l, ts) == \A t \in Procs \ ts : l.next[t] = NULL /\ l.prev[t] = NULL

Ranked(l, ts, pos) == \A t \in ts : l.next[t] # NULL => pos[t] < pos[l.next[t]]

ListOK(l, ts) ==
  /\ l \in Lists /\ ts \subseteq Procs
  /\ Linked(l, ts) /\ Fresh(l, ts)
  /\ \E pos \in [Procs -> Nat] : Ranked(l, ts, pos)

(* A task that is first and last is the only one.                          *)
LEMMA OnlyTask ==
  ASSUME NEW l, NEW ts, ListOK(l, ts), NEW t \in ts, l.head = t, l.tail = t
  PROVE  ts = {t}
<1> SUFFICES ASSUME ts # {t} PROVE FALSE OBVIOUS
<1>1. PICK pos \in [Procs -> Nat] : Ranked(l, ts, pos) BY DEF ListOK
<1>2. ts \subseteq Procs /\ Linked(l, ts) BY DEF ListOK
<1> DEFINE R == {pos[b] : b \in ts \ {t}}
<1>3. R \subseteq Nat /\ R # {} BY <1>1, <1>2
<1>4. PICK m \in R : \A n \in R : <<n, m>> \notin OpToRel(<, Nat)
  <2> HIDE DEF R
  <2> QED BY <1>3, NatLessThanWellFounded, WFMin, Zenon
<1>5. PICK b \in ts \ {t} : m = pos[b] OBVIOUS
<1>6. l.prev[b] \in ts /\ l.next[l.prev[b]] = b BY <1>2, <1>5 DEF Linked
<1>7. l.next[t] = NULL BY <1>2 DEF Linked
<1>8. b # NULL BY <1>2, SchedAssumption
<1>9. l.prev[b] \in ts \ {t} BY <1>6, <1>7, <1>8
<1>10. pos[l.prev[b]] < pos[b] BY <1>1, <1>6, <1>8 DEF Ranked
<1>11. pos[l.prev[b]] \in R BY <1>9
<1>12. pos[l.prev[b]] \in Nat /\ m \in Nat BY <1>3, <1>4, <1>11
<1>13. <<pos[l.prev[b]], m>> \in OpToRel(<, Nat) BY <1>5, <1>10, <1>12 DEF OpToRel
<1> QED BY <1>4, <1>11, <1>13

(* A new task at the end of the list.                                      *)
LEMMA InsertOK ==
  ASSUME NEW l, NEW ts, ListOK(l, ts), NEW t \in Procs \ ts
  PROVE  /\ ListOK(task_insert(l, t), ts \cup {t})
         /\ ts # {} => task_insert(l, t).current = l.current
<1> DEFINE j == task_insert(l, t)
           us == ts \cup {t}
<1>0. NULL \notin Procs BY SchedAssumption
<1>1. l \in Lists /\ ts \subseteq Procs /\ Linked(l, ts) /\ Fresh(l, ts) BY DEF ListOK
<1>2. PICK pos \in [Procs -> Nat] : Ranked(l, ts, pos) BY DEF ListOK
<1>3. l.next[t] = NULL /\ l.prev[t] = NULL BY <1>1 DEF Fresh
<1>4. CASE l.head = NULL
  <2>1. ts = {} BY <1>1, <1>4 DEF Linked
  <2>2. /\ j \in Lists /\ j.head = t /\ j.tail = t /\ j.current = t
        /\ j.next = l.next /\ j.prev = l.prev
    BY <1>1, <1>4 DEF task_insert, Lists, ProcOrNull
  <2> HIDE DEF j
  <2>3. Linked(j, us) BY <1>0, <1>3, <2>1, <2>2 DEF Linked
  <2>4. Fresh(j, us) BY <1>1, <2>1, <2>2 DEF Fresh
  <2>5. Ranked(j, us, pos) BY <1>3, <2>1, <2>2 DEF Ranked
  <2>6. us \subseteq Procs BY <2>1
  <2> QED BY <2>1, <2>2, <2>3, <2>4, <2>5, <2>6 DEF ListOK, j
<1>5. CASE l.head # NULL
  <2>1. ts # {} /\ l.tail \in ts /\ l.tail \in Procs /\ l.tail # t BY <1>1, <1>5 DEF Linked
  <2>2. /\ j \in Lists /\ j.head = l.head /\ j.tail = t /\ j.current = l.current
        /\ j.next = [l.next EXCEPT ![l.tail] = t] /\ j.prev = [l.prev EXCEPT ![t] = l.tail]
    BY <1>1, <1>5, <2>1 DEF task_insert, Lists, ProcOrNull
  <2> HIDE DEF j
  <2>3. /\ l.next \in [Procs -> ProcOrNull] /\ l.prev \in [Procs -> ProcOrNull] BY <1>1 DEF Lists
  <2>4. \A u \in Procs : j.next[u] = (IF u = l.tail THEN t ELSE l.next[u]) BY <2>2, <2>3
  <2>5. \A u \in Procs : j.prev[u] = (IF u = t THEN l.tail ELSE l.prev[u]) BY <2>2, <2>3
  <2>6. us \subseteq Procs BY <1>1
  <2>7. Linked(j, us)
    <3>1. {j.head, j.tail, j.current} \subseteq us /\ NULL \notin us /\ us # {}
      BY <1>0, <1>1, <2>1, <2>2, <2>6 DEF Linked
    <3>2. ASSUME NEW u \in us
          PROVE  /\ j.next[u] = NULL <=> u = j.tail
                 /\ j.next[u] # NULL => j.next[u] \in us /\ j.prev[j.next[u]] = u
      <4>1. CASE u = t BY <1>3, <2>1, <2>2, <2>4, <4>1
      <4>2. CASE u = l.tail BY <1>0, <2>1, <2>2, <2>4, <2>5, <4>2
      <4>3. CASE u \in ts /\ u # l.tail
        <5>1. l.next[u] # NULL /\ l.next[u] \in ts /\ l.prev[l.next[u]] = u /\ l.next[u] # t
          BY <1>1, <4>3 DEF Linked
        <5> QED BY <1>1, <2>2, <2>4, <2>5, <4>3, <5>1
      <4> QED BY <4>1, <4>2, <4>3
    <3>3. ASSUME NEW u \in us
          PROVE  /\ j.prev[u] = NULL <=> u = j.head
                 /\ j.prev[u] # NULL => j.prev[u] \in us /\ j.next[j.prev[u]] = u
      <4>1. CASE u = t
        <5>1. t # l.head BY <1>1, <2>1 DEF Linked
        <5> QED BY <1>0, <2>1, <2>2, <2>4, <2>5, <4>1, <5>1
      <4>2. CASE u \in ts
        <5>1. /\ l.prev[u] = NULL <=> u = l.head
              /\ l.prev[u] # NULL => l.prev[u] \in ts /\ l.next[l.prev[u]] = u
              /\ l.next[l.tail] = NULL
          BY <1>1, <2>1, <4>2 DEF Linked
        <5> QED BY <1>0, <1>1, <2>2, <2>4, <2>5, <4>2, <5>1
      <4> QED BY <4>1, <4>2
    <3> QED BY <3>1, <3>2, <3>3 DEF Linked
  <2>8. Fresh(j, us) BY <1>1, <2>1, <2>4, <2>5 DEF Fresh
  <2>9. Ranked(j, us, [pos EXCEPT ![t] = pos[l.tail] + 1])
    <3> DEFINE q == [pos EXCEPT ![t] = pos[l.tail] + 1]
    <3>1. q[t] = pos[l.tail] + 1 /\ \A u \in Procs \ {t} : q[u] = pos[u] BY <1>2
    <3>2. pos[l.tail] \in Nat BY <2>1
    <3> SUFFICES ASSUME NEW u \in us, j.next[u] # NULL PROVE q[u] < q[j.next[u]]
      BY DEF Ranked
    <3>3. u # t BY <1>3, <2>1, <2>4
    <3>4. CASE u = l.tail
      <4>1. j.next[u] = t BY <2>1, <2>4, <3>4
      <4>2. q[u] = pos[l.tail] BY <2>1, <3>1, <3>3, <3>4
      <4> HIDE DEF q
      <4> QED BY <3>1, <3>2, <4>1, <4>2
    <3>5. CASE u # l.tail
      <4>1. u \in ts /\ u \in Procs /\ j.next[u] = l.next[u] BY <1>1, <2>4, <3>3, <3>5
      <4>2. l.next[u] \in ts /\ l.next[u] # t /\ l.next[u] # NULL BY <1>1, <4>1 DEF Linked
      <4>3. pos[u] < pos[l.next[u]] BY <1>2, <4>1, <4>2 DEF Ranked
      <4> QED BY <1>1, <3>1, <3>3, <4>1, <4>2, <4>3
    <3> QED BY <3>4, <3>5
  <2>10. [pos EXCEPT ![t] = pos[l.tail] + 1] \in [Procs -> Nat] BY <2>1
  <2> QED BY <2>1, <2>2, <2>6, <2>7, <2>8, <2>9, <2>10 DEF ListOK, j
<1> QED BY <1>4, <1>5

(* process_switch and task_switch to a task of the list.                   *)
LEMMA SetCurrentOK ==
  ASSUME NEW l, NEW ts, ListOK(l, ts), NEW t \in ts
  PROVE  ListOK([l EXCEPT !.current = t], ts)
<1> DEFINE j == [l EXCEPT !.current = t]
<1>0. NULL \notin Procs BY SchedAssumption
<1>1. l \in Lists /\ ts \subseteq Procs /\ Linked(l, ts) /\ Fresh(l, ts) BY DEF ListOK
<1>2. PICK pos \in [Procs -> Nat] : Ranked(l, ts, pos) BY DEF ListOK
<1>3. /\ j \in Lists /\ j.head = l.head /\ j.tail = l.tail /\ j.current = t
      /\ j.next = l.next /\ j.prev = l.prev
  BY <1>1 DEF Lists, ProcOrNull
<1> HIDE DEF j
<1>4. Linked(j, ts) BY <1>0, <1>1, <1>3 DEF Linked
<1>5. Fresh(j, ts) BY <1>1, <1>3 DEF Fresh
<1>6. Ranked(j, ts, pos) BY <1>2, <1>3 DEF Ranked
<1> QED BY <1>1, <1>3, <1>4, <1>5, <1>6 DEF ListOK, j

(* What task_free makes of every link.                                     *)
LEMMA FreeFields ==
  ASSUME NEW l, NEW ts, ListOK(l, ts), NEW t \in ts, NEW j, j = task_free(l, t)
  PROVE  /\ j \in Lists
         /\ j.head = (IF l.head = t THEN l.next[t] ELSE l.head)
         /\ j.tail = (IF l.tail = t THEN l.prev[t] ELSE l.tail)
         /\ j.current = (IF l.current # t THEN l.current
                         ELSE IF l.next[t] = NULL THEN j.head ELSE l.next[t])
         /\ \A u \in Procs :
              /\ j.next[u] = (IF u = t THEN NULL
                              ELSE IF u = l.prev[t] THEN l.next[t] ELSE l.next[u])
              /\ j.prev[u] = (IF u = t THEN NULL
                              ELSE IF u = l.next[t] THEN l.prev[t] ELSE l.prev[u])
<1> DEFINE l1 == IF l.head = t THEN [l EXCEPT !.head = l.next[t]] ELSE l
           l2 == IF l1.tail = t THEN [l1 EXCEPT !.tail = l.prev[t]] ELSE l1
           l3 == IF l2.current = t THEN [l2 EXCEPT !.current = task_get_next(l2)] ELSE l2
           l4 == IF l.prev[t] # NULL THEN [l3 EXCEPT !.next[l.prev[t]] = l.next[t]] ELSE l3
           l5 == IF l.next[t] # NULL THEN [l4 EXCEPT !.prev[l.next[t]] = l.prev[t]] ELSE l4
<1>0. NULL \notin Procs BY SchedAssumption
<1>1. l \in Lists /\ t \in Procs BY DEF ListOK
<1>2. l.next[t] \in ProcOrNull /\ l.prev[t] \in ProcOrNull BY <1>1 DEF Lists
<1>3. /\ l1 \in Lists /\ l1.head = (IF l.head = t THEN l.next[t] ELSE l.head)
      /\ l1.tail = l.tail /\ l1.current = l.current /\ l1.next = l.next /\ l1.prev = l.prev
  BY <1>1, <1>2 DEF Lists
<1> HIDE DEF l1
<1>4. /\ l2 \in Lists /\ l2.tail = (IF l.tail = t THEN l.prev[t] ELSE l.tail)
      /\ l2.head = l1.head /\ l2.current = l.current /\ l2.next = l.next /\ l2.prev = l.prev
  BY <1>2, <1>3 DEF Lists
<1> HIDE DEF l2
<1>5. l2.current = t => /\ task_get_next(l2) \in ProcOrNull
                        /\ task_get_next(l2) = IF l.next[t] = NULL THEN l1.head ELSE l.next[t]
  BY <1>0, <1>1, <1>2, <1>3, <1>4 DEF task_get_next, Lists
<1>6. /\ l3 \in Lists
      /\ l3.current = (IF l.current # t THEN l.current
                       ELSE IF l.next[t] = NULL THEN l1.head ELSE l.next[t])
      /\ l3.head = l1.head /\ l3.tail = l2.tail /\ l3.next = l.next /\ l3.prev = l.prev
  BY <1>4, <1>5 DEF Lists
<1> HIDE DEF l3
<1>7. /\ l4 \in Lists
      /\ \A u \in Procs : l4.next[u] = IF u = l.prev[t] THEN l.next[t] ELSE l.next[u]
      /\ l4.head = l1.head /\ l4.tail = l2.tail /\ l4.current = l3.current /\ l4.prev = l.prev
  <2>1. CASE l.prev[t] = NULL BY <1>0, <1>6, <2>1
  <2>2. CASE l.prev[t] # NULL
    <3>1. l4 = [l3 EXCEPT !.next = [l3.next EXCEPT ![l.prev[t]] = l.next[t]]] BY <2>2
    <3>2. l3.next \in [Procs -> ProcOrNull] /\ l.prev[t] \in Procs
      BY <1>2, <1>6, <2>2 DEF Lists, ProcOrNull
    <3>3. l4.next = [l3.next EXCEPT ![l.prev[t]] = l.next[t]] /\ l4.head = l3.head
          /\ l4.tail = l3.tail /\ l4.current = l3.current /\ l4.prev = l3.prev
      BY <1>6, <3>1 DEF Lists
    <3>4. l4 \in Lists BY <1>2, <1>6, <3>1, <3>2 DEF Lists
    <3> HIDE DEF l4
    <3> QED BY <1>6, <3>2, <3>3, <3>4
  <2> QED BY <2>1, <2>2
<1> HIDE DEF l4
<1>8. /\ l5 \in Lists
      /\ \A u \in Procs : l5.prev[u] = IF u = l.next[t] THEN l.prev[t] ELSE l.prev[u]
      /\ l5.head = l1.head /\ l5.tail = l2.tail /\ l5.current = l3.current /\ l5.next = l4.next
  <2>1. CASE l.next[t] = NULL BY <1>0, <1>7, <2>1
  <2>2. CASE l.next[t] # NULL
    <3>1. l5 = [l4 EXCEPT !.prev = [l4.prev EXCEPT ![l.next[t]] = l.prev[t]]] BY <2>2
    <3>2. l4.prev \in [Procs -> ProcOrNull] /\ l.next[t] \in Procs
      BY <1>2, <1>7, <2>2 DEF Lists, ProcOrNull
    <3>3. l5.prev = [l4.prev EXCEPT ![l.next[t]] = l.prev[t]] /\ l5.head = l4.head
          /\ l5.tail = l4.tail /\ l5.current = l4.current /\ l5.next = l4.next
      BY <1>7, <3>1 DEF Lists
    <3>4. l5 \in Lists BY <1>2, <1>7, <3>1, <3>2 DEF Lists
    <3> HIDE DEF l5
    <3> QED BY <1>7, <3>2, <3>3, <3>4
  <2> QED BY <2>1, <2>2
<1>9. task_list_remove(l, t) = l5 BY DEF task_list_remove, l1, l2, l3, l4
<1> HIDE DEF l5
<1>10. j = [l5 EXCEPT !.next[t] = NULL, !.prev[t] = NULL] BY <1>9 DEF task_free
<1>11. /\ j \in Lists /\ j.head = l5.head /\ j.tail = l5.tail /\ j.current = l5.current
       /\ j.next = [l5.next EXCEPT ![t] = NULL] /\ j.prev = [l5.prev EXCEPT ![t] = NULL]
  <2>1. /\ l5.head \in ProcOrNull /\ l5.tail \in ProcOrNull /\ l5.current \in ProcOrNull
        /\ l5.next \in [Procs -> ProcOrNull] /\ l5.prev \in [Procs -> ProcOrNull]
    BY <1>8 DEF Lists
  <2>2. j = [head |-> l5.head, tail |-> l5.tail, current |-> l5.current,
             next |-> [l5.next EXCEPT ![t] = NULL], prev |-> [l5.prev EXCEPT ![t] = NULL]]
    BY <1>8, <1>10 DEF Lists
  <2>3. /\ [l5.next EXCEPT ![t] = NULL] \in [Procs -> ProcOrNull]
        /\ [l5.prev EXCEPT ![t] = NULL] \in [Procs -> ProcOrNull]
    BY <1>1, <2>1 DEF ProcOrNull
  <2> QED BY <2>1, <2>2, <2>3 DEF Lists
<1>12. l5.next \in [Procs -> ProcOrNull] /\ l5.prev \in [Procs -> ProcOrNull]
  BY <1>8 DEF Lists
<1> QED BY <1>1, <1>3, <1>4, <1>6, <1>7, <1>8, <1>11, <1>12

(* A task taken off the list, wherever it is in it.                        *)
LEMMA FreeOK ==
  ASSUME NEW l, NEW ts, ListOK(l, ts), NEW t \in ts
  PROVE  /\ ListOK(task_free(l, t), ts \ {t})
         /\ l.current # t => task_free(l, t).current = l.current
<1> DEFINE us == ts \ {t}
           n == l.next[t]
           m == l.prev[t]
<1> PICK j : j = task_free(l, t) OBVIOUS
<1>0. NULL \notin Procs BY SchedAssumption
<1>1. l \in Lists /\ ts \subseteq Procs /\ Linked(l, ts) /\ Fresh(l, ts) BY DEF ListOK
<1>2. PICK pos \in [Procs -> Nat] : Ranked(l, ts, pos) BY DEF ListOK
<1>3. /\ j \in Lists
      /\ j.head = (IF l.head = t THEN n ELSE l.head)
      /\ j.tail = (IF l.tail = t THEN m ELSE l.tail)
      /\ j.current = (IF l.current # t THEN l.current
                      ELSE IF n = NULL THEN j.head ELSE n)
      /\ \A u \in Procs :
           /\ j.next[u] = (IF u = t THEN NULL ELSE IF u = m THEN n ELSE l.next[u])
           /\ j.prev[u] = (IF u = t THEN NULL ELSE IF u = n THEN m ELSE l.prev[u])
  BY FreeFields
<1>4. ts # {} /\ {l.head, l.tail, l.current} \subseteq ts BY <1>1 DEF Linked
<1>5. /\ n = NULL <=> t = l.tail
      /\ m = NULL <=> t = l.head
      /\ n # NULL => n \in ts /\ l.prev[n] = t
      /\ m # NULL => m \in ts /\ l.next[m] = t
  BY <1>1 DEF Linked
<1>6. \A u \in ts : l.next[u] # u
  <2> SUFFICES ASSUME NEW u \in ts, l.next[u] = u PROVE FALSE OBVIOUS
  <2>1. pos[u] < pos[u] BY <1>0, <1>1, <1>2 DEF Ranked
  <2>2. pos[u] \in Nat BY <1>1
  <2> QED BY <2>1, <2>2
<1>7. n # t /\ m # t BY <1>0, <1>1, <1>5, <1>6
<1> HIDE DEF n, m
<1>8. us \subseteq Procs /\ NULL \notin us BY <1>0, <1>1
<1>9. CASE us = {}
  <2>1. ts = {t} /\ l.head = t /\ l.tail = t /\ l.current = t /\ n = NULL /\ m = NULL
    BY <1>4, <1>5, <1>9
  <2>2. j.head = NULL /\ j.tail = NULL /\ j.current = NULL BY <1>3, <2>1
  <2>3. Linked(j, us) BY <1>9, <2>2 DEF Linked
  <2>4. \A u \in Procs : j.next[u] = NULL /\ j.prev[u] = NULL
    BY <1>1, <1>3, <2>1 DEF Fresh
  <2>5. Fresh(j, us) BY <2>4 DEF Fresh
  <2>6. Ranked(j, us, pos) BY <1>9 DEF Ranked
  <2> QED BY <1>2, <1>3, <1>8, <2>1, <2>3, <2>5, <2>6 DEF ListOK
<1>10. CASE us # {}
  <2>1. ~(l.head = t /\ l.tail = t) BY <1>10, OnlyTask
  <2>2. {j.head, j.tail, j.current} \subseteq us BY <1>3, <1>4, <1>5, <1>7, <2>1
  <2>3. ASSUME NEW u \in us
        PROVE  /\ j.next[u] = NULL <=> u = j.tail
               /\ j.next[u] # NULL => j.next[u] \in us /\ j.prev[j.next[u]] = u
    <3>1. /\ l.next[u] = NULL <=> u = l.tail
          /\ l.next[u] # NULL => l.next[u] \in ts /\ l.prev[l.next[u]] = u
      BY <1>1 DEF Linked
    <3>2. CASE u = m
      <4>1. j.next[u] = n BY <1>3, <1>8, <3>2
      <4>2. u # NULL /\ l.next[u] = t BY <1>5, <1>8, <3>2
      <4>3. n # NULL => n \in us /\ n \in Procs /\ j.prev[n] = m
        BY <1>1, <1>3, <1>5, <1>7
      <4>4. u # l.tail BY <1>0, <1>1, <3>1, <4>2
      <4> QED BY <1>3, <1>5, <3>2, <4>1, <4>3, <4>4
    <3>3. CASE u # m
      <4>1. j.next[u] = l.next[u] BY <1>3, <1>8, <3>3
      <4>2. l.next[u] # t
        <5>1. l.next[u] = t => l.prev[t] = u BY <1>0, <1>1, <3>1
        <5> QED BY <3>3, <5>1 DEF m
      <4>3. l.tail # t => j.tail = l.tail BY <1>3
      <4>4. l.tail = t => j.tail = m BY <1>3
      <4>5. l.next[u] # NULL => l.next[u] \in us /\ l.next[u] \in Procs
        BY <1>1, <3>1, <4>2
      <4>6. l.next[u] # NULL => l.next[u] # n
        <5>1. n # NULL => l.prev[n] = t BY <1>5
        <5> QED BY <3>1, <5>1
      <4>7. l.next[u] # NULL => j.prev[l.next[u]] = u BY <1>3, <3>1, <4>2, <4>5, <4>6
      <4> QED BY <3>1, <3>3, <4>1, <4>3, <4>4, <4>5, <4>7
    <3> QED BY <3>2, <3>3
  <2>4. ASSUME NEW u \in us
        PROVE  /\ j.prev[u] = NULL <=> u = j.head
               /\ j.prev[u] # NULL => j.prev[u] \in us /\ j.next[j.prev[u]] = u
    <3>1. /\ l.prev[u] = NULL <=> u = l.head
          /\ l.prev[u] # NULL => l.prev[u] \in ts /\ l.next[l.prev[u]] = u
      BY <1>1 DEF Linked
    <3>2. CASE u = n
      <4>1. j.prev[u] = m BY <1>3, <1>8, <3>2
      <4>2. u # NULL /\ l.prev[u] = t BY <1>5, <1>8, <3>2
      <4>3. m # NULL => m \in us /\ m \in Procs /\ j.next[m] = n
        BY <1>1, <1>3, <1>5, <1>7
      <4>4. u # l.head BY <1>0, <1>1, <3>1, <4>2
      <4> QED BY <1>3, <1>5, <3>2, <4>1, <4>3, <4>4
    <3>3. CASE u # n
      <4>1. j.prev[u] = l.prev[u] BY <1>3, <1>8, <3>3
      <4>2. l.prev[u] # t
        <5>1. l.prev[u] = t => l.next[t] = u BY <1>0, <1>1, <3>1
        <5> QED BY <3>3, <5>1 DEF n
      <4>3. l.head # t => j.head = l.head BY <1>3
      <4>4. l.head = t => j.head = n BY <1>3
      <4>5. l.prev[u] # NULL => l.prev[u] \in us /\ l.prev[u] \in Procs
        BY <1>1, <3>1, <4>2
      <4>6. l.prev[u] # NULL => l.prev[u] # m
        <5>1. m # NULL => l.next[m] = t BY <1>5
        <5> QED BY <3>1, <5>1
      <4>7. l.prev[u] # NULL => j.next[l.prev[u]] = u BY <1>3, <3>1, <4>2, <4>5, <4>6
      <4> QED BY <3>1, <3>3, <4>1, <4>3, <4>4, <4>5, <4>7
    <3> QED BY <3>2, <3>3
  <2>5. Linked(j, us) BY <1>8, <1>10, <2>2, <2>3, <2>4 DEF Linked
  <2>6. Fresh(j, us)
    <3> SUFFICES ASSUME NEW u \in Procs \ us PROVE j.next[u] = NULL /\ j.prev[u] = NULL
      BY DEF Fresh
    <3>1. CASE u = t BY <1>3, <3>1
    <3>2. CASE u # t
      <4>1. u \notin ts /\ u # n /\ u # m BY <1>0, <1>5, <3>2
      <4> QED BY <1>1, <1>3, <3>2, <4>1 DEF Fresh
    <3> QED BY <3>1, <3>2
  <2>7. Ranked(j, us, pos)
    <3> SUFFICES ASSUME NEW u \in us, j.next[u] # NULL PROVE pos[u] < pos[j.next[u]]
      BY DEF Ranked
    <3>1. CASE u = m
      <4>1. j.next[u] = n /\ n # NULL BY <1>3, <1>8, <3>1
      <4>2. u \in ts /\ l.next[u] = t /\ l.next[t] = n BY <1>5, <1>8, <3>1 DEF n
      <4>3. pos[u] < pos[t] /\ pos[t] < pos[n] BY <1>0, <1>1, <1>2, <4>1, <4>2 DEF Ranked
      <4>4. pos[u] \in Nat /\ pos[t] \in Nat /\ pos[n] \in Nat
        BY <1>1, <1>5, <4>1, <4>2
      <4> QED BY <4>1, <4>3, <4>4
    <3>2. CASE u # m BY <1>2, <1>3, <1>8, <3>2 DEF Ranked
    <3> QED BY <3>1, <3>2
  <2> QED BY <1>2, <1>3, <1>8, <2>5, <2>6, <2>7 DEF ListOK
<1> QED BY <1>9, <1>10

(* A task put on the list and taken off again by a load that fails leaves  *)
(* no trace, also when it was the only one.                                *)
LEMMA InsertFree ==
  ASSUME NEW l, NEW ts, ListOK(l, ts), NEW t \in Procs \ ts
  PROVE  task_free(task_insert(l, t), t) = l
<1> PICK k : k = task_insert(l, t) OBVIOUS
<1> PICK j : j = task_free(k, t) OBVIOUS
<1>0. NULL \notin Procs BY SchedAssumption
<1>1. l \in Lists /\ ts \subseteq Procs /\ Linked(l, ts) /\ Fresh(l, ts) BY DEF ListOK
<1>2. ListOK(k, ts \cup {t}) BY InsertOK
<1>3. t \in ts \cup {t} OBVIOUS
<1>4. /\ j \in Lists
      /\ j.head = (IF k.head = t THEN k.next[t] ELSE k.head)
      /\ j.tail = (IF k.tail = t THEN k.prev[t] ELSE k.tail)
      /\ j.current = (IF k.current # t THEN k.current
                      ELSE IF k.next[t] = NULL THEN j.head ELSE k.next[t])
      /\ \A u \in Procs :
           /\ j.next[u] = (IF u = t THEN NULL ELSE IF u = k.prev[t] THEN k.next[t] ELSE k.next[u])
           /\ j.prev[u] = (IF u = t THEN NULL ELSE IF u = k.next[t] THEN k.prev[t] ELSE k.prev[u])
  BY <1>2, <1>3, FreeFields
<1>5. l.next[t] = NULL /\ l.prev[t] = NULL BY <1>1 DEF Fresh
<1>6. /\ l.next \in [Procs -> ProcOrNull] /\ l.prev \in [Procs -> ProcOrNull]
      /\ j.next \in [Procs -> ProcOrNull] /\ j.prev \in [Procs -> ProcOrNull]
  BY <1>1, <1>4 DEF Lists
<1>7. /\ j.head = l.head /\ j.tail = l.tail /\ j.current = l.current
      /\ \A u \in Procs : j.next[u] = l.next[u] /\ j.prev[u] = l.prev[u]
  <2>1. CASE l.head = NULL
    <3>1. l.tail = NULL /\ l.current = NULL BY <1>1, <2>1 DEF Linked
    <3>2. k.head = t /\ k.tail = t /\ k.current = t /\ k.next = l.next /\ k.prev = l.prev
      BY <1>1, <2>1 DEF task_insert, Lists
    <3> QED BY <1>0, <1>4, <1>5, <2>1, <3>1, <3>2
  <2>2. CASE l.head # NULL
    <3>1. l.tail \in ts /\ l.head \in ts /\ l.current \in ts BY <1>1, <2>2 DEF Linked
    <3>2. /\ k.head = l.head /\ k.tail = t /\ k.current = l.current
          /\ k.next = [l.next EXCEPT ![l.tail] = t] /\ k.prev = [l.prev EXCEPT ![t] = l.tail]
      BY <1>1, <2>2 DEF task_insert, Lists
    <3>3. \A u \in Procs : /\ k.next[u] = IF u = l.tail THEN t ELSE l.next[u]
                           /\ k.prev[u] = IF u = t THEN l.tail ELSE l.prev[u]
      BY <1>6, <3>2
    <3>4. k.next[t] = NULL /\ k.prev[t] = l.tail BY <1>5, <3>1, <3>3
    <3>5. l.next[l.tail] = NULL BY <1>1, <3>1 DEF Linked
    <3> QED BY <1>0, <1>1, <1>4, <1>5, <3>1, <3>2, <3>3, <3>4, <3>5
  <2> QED BY <2>1, <2>2
<1>8. j.next = l.next /\ j.prev = l.prev BY <1>6, <1>7
<1> QED BY <1>1, <1>4, <1>7, <1>8 DEF Lists

-----------------------------------------------------------------------------
(* The inductive invariant *)

IInv ==
  /\ TypeOK
  /\ ListOK(list, live)
  /\ NoDanglingSlot
  /\ UserBound
  /\ RunsAtAnEnd
  /\ mode = "user" => cpu \in Procs
  /\ mode = "boot" => live = {}

LEMMA InitIInv == Init => IInv
<1> SUFFICES ASSUME Init PROVE IInv OBVIOUS
<1> USE DEF Init
<1>0. NULL \notin Procs /\ MaxProcesses \in Nat \ {0} BY SchedAssumption
<1>1. TypeOK
  <2>1. 0 \in Slots BY <1>0 DEF Slots
  <2> QED BY <2>1 DEF TypeOK, ProcOrNull
<1>2. Linked(list, live) /\ Fresh(list, live) BY DEF Linked, Fresh
<1>3. Ranked(list, live, [p \in Procs |-> 0]) BY DEF Ranked
<1>4. list \in Lists BY DEF Lists, ProcOrNull
<1>5. ListOK(list, live)
  <2>1. [p \in Procs |-> 0] \in [Procs -> Nat] OBVIOUS
  <2> QED BY <1>2, <1>3, <1>4, <2>1 DEF ListOK
<1> QED BY <1>1, <1>5 DEF IInv, NoDanglingSlot, UserBound, RunsAtAnEnd

(* The end of the running process.                                         *)
LEMMA EndOK ==
  ASSUME IInv, mode = "user", EndProcess(list.current)
  PROVE  IInv'
<1> DEFINE p == list.current
           l == task_free(list, p)
<1>0. NULL \notin Procs BY SchedAssumption
<1>1. TypeOK /\ ListOK(list, live) /\ NoDanglingSlot /\ UserBound /\ RunsAtAnEnd /\ cpu \in Procs
  BY DEF IInv
<1>2. p \in live /\ p \in Procs /\ live \subseteq Procs BY <1>1 DEF UserBound, TypeOK
<1>3. /\ list' = l /\ processes' = process_unlink(p) /\ registers' = SavedRegisters
      /\ live' = live \ {p} /\ id' = [id EXCEPT ![p] = 0]
  BY DEF EndProcess
<1>4. \/ /\ mode' = "panic" /\ cr3' = NULL /\ cpu' = cpu
         /\ current_process' \in ProcOrNull
      \/ /\ l.current # NULL /\ mode' = mode
         /\ current_process' = l.current /\ cr3' = l.current /\ cpu' = SavedRegisters[l.current]
  <2> DEFINE ps == process_unlink(p)
  <2>1. current_process \in ProcOrNull BY <1>1 DEF TypeOK
  <2>2. CASE l.current = NULL \/ (current_process = p /\ Occupied(ps) = {})
    <3>1. /\ mode' = "panic" /\ cr3' = NULL /\ cpu' = cpu
          /\ current_process' = IF current_process = p /\ Occupied(ps) # {}
                                THEN process_switch_to_any(ps) ELSE current_process
      BY <2>2 DEF EndProcess
    <3>2. ps \in [Slots -> ProcOrNull] BY <1>1, <1>2, <1>0 DEF process_unlink, TypeOK, ProcOrNull
    <3>3. CASE Occupied(ps) # {} /\ current_process = p
      <4>1. PICK S : S = Occupied(ps) OBVIOUS
      <4>2. l.current = NULL BY <2>2, <3>3
      <4>3. ListOK(l, live \ {p}) BY <1>1, <1>2, FreeOK
      <4>4. live \ {p} = {} BY <4>2, <4>3 DEF ListOK, Linked
      <4>5. ASSUME NEW i \in S PROVE FALSE
        <5>1. i \in Slots /\ ps[i] # NULL BY <4>1, <4>5 DEF Occupied
        <5>2. id[p] \in Slots /\ processes \in [Slots -> ProcOrNull]
              /\ ps = [processes EXCEPT ![id[p]] = NULL]
          BY <1>1, <1>2 DEF TypeOK, process_unlink
        <5>3. i # id[p] /\ processes[i] # NULL BY <5>1, <5>2
        <5>4. processes[i] \in live /\ id[processes[i]] = i
          BY <1>1, <5>1, <5>3 DEF NoDanglingSlot
        <5> QED BY <4>4, <5>3, <5>4
      <4> QED BY <3>3, <4>1, <4>5
    <3>4. CASE ~(Occupied(ps) # {} /\ current_process = p) BY <2>1, <3>1, <3>4
    <3> QED BY <3>1, <3>3, <3>4
  <2>3. CASE ~(l.current = NULL \/ (current_process = p /\ Occupied(ps) = {}))
    BY <2>3 DEF EndProcess, task_next, task_switch, task_return
  <2> QED BY <2>2, <2>3
<1>5. ListOK(l, live \ {p}) BY <1>1, <1>2, FreeOK
<1> PICK j : j = l OBVIOUS
<1>6. /\ j.head = (IF list.head = p THEN list.next[p] ELSE list.head)
      /\ j.current = (IF list.next[p] = NULL THEN j.head ELSE list.next[p])
  BY <1>1, <1>2, FreeFields
<1>7. j.current = j.head
  <2>1. list.next[p] = NULL <=> p = list.tail BY <1>1, <1>2 DEF ListOK, Linked
  <2> QED BY <1>1, <1>6, <2>1 DEF RunsAtAnEnd
<1>8. l.current # NULL => l.current \in live \ {p}
  BY <1>5 DEF ListOK, Linked
<1>8a. l \in Lists BY <1>5 DEF ListOK
<1>9. l.current = l.head BY <1>7
<1>10. SavedRegisters \in [Procs -> Procs] BY <1>1 DEF SavedRegisters, TypeOK
<1>11. /\ processes \in [Slots -> ProcOrNull] /\ id \in [Procs -> Slots] /\ id[p] \in Slots
       /\ processes' = [processes EXCEPT ![id[p]] = NULL]
  BY <1>1, <1>2, <1>3 DEF TypeOK, process_unlink
<1>12. 0 \in Slots BY SchedAssumption DEF Slots
<1> HIDE DEF l, p
<1>13. NoDanglingSlot'
  <2> SUFFICES ASSUME NEW i \in Slots, processes'[i] # NULL
               PROVE  processes'[i] \in live' /\ id'[processes'[i]] = i
    BY DEF NoDanglingSlot
  <2>1. i # id[p] /\ processes'[i] = processes[i] BY <1>11
  <2>2. processes[i] \in live /\ id[processes[i]] = i BY <1>1, <2>1 DEF NoDanglingSlot
  <2>3. processes[i] # p BY <2>1, <2>2
  <2> QED BY <1>2, <1>3, <1>11, <2>1, <2>2, <2>3
<1>14. processes' \in [Slots -> ProcOrNull] /\ id' \in [Procs -> Slots] /\ live' \in SUBSET Procs
  BY <1>2, <1>3, <1>11, <1>12 DEF ProcOrNull
<1>15. list' \in Lists BY <1>3, <1>8a
<1>16. CASE /\ mode' = "panic" /\ cr3' = NULL /\ cpu' = cpu
            /\ current_process' \in ProcOrNull
  <2>1. TypeOK' BY <1>1, <1>3, <1>10, <1>14, <1>15, <1>16 DEF TypeOK, Lists, ProcOrNull
  <2> QED BY <1>3, <1>5, <1>13, <1>16, <2>1 DEF IInv, UserBound, RunsAtAnEnd
<1>17. CASE /\ l.current # NULL /\ mode' = mode
            /\ current_process' = l.current /\ cr3' = l.current
            /\ cpu' = SavedRegisters[l.current]
  <2>1. l.current \in live' /\ l.current \in Procs BY <1>2, <1>3, <1>8, <1>17
  <2>2. cpu' \in Procs BY <1>10, <1>17, <2>1
  <2>3. TypeOK' BY <1>3, <1>10, <1>14, <1>15, <1>17, <2>1, <2>2 DEF TypeOK, Lists, ProcOrNull
  <2>4. UserBound' /\ RunsAtAnEnd' BY <1>3, <1>9, <1>17, <2>1 DEF UserBound, RunsAtAnEnd
  <2> QED BY <1>3, <1>5, <1>13, <1>17, <2>2, <2>3, <2>4 DEF IInv
<1> QED BY <1>4, <1>16, <1>17

(* The first free slot is one.                                             *)
LEMMA FreeSlotOK ==
  ASSUME FreeSlots # {}
  PROVE  process_get_free_slot \in FreeSlots
<1>1. MaxProcesses \in Nat \ {0} BY SchedAssumption
<1>2. FreeSlots \subseteq Nat BY <1>1 DEF FreeSlots, Slots
<1>3. IsWellFoundedOn(OpToRel(<, Nat), Nat) BY NatLessThanWellFounded, Zenon
<1> DEFINE F == FreeSlots
           R == OpToRel(<, Nat)
<1>4. \A x, y \in Nat : x < y => <<x, y>> \in R BY DEF OpToRel
<1> HIDE DEF F, R
<1>5. PICK m \in F : \A n \in F : ~(<<n, m>> \in R)
  <2>1. F \subseteq Nat /\ F # {} BY <1>2 DEF F
  <2>2. IsWellFoundedOn(R, Nat) BY <1>3 DEF R
  <2> QED BY <2>1, <2>2, WFMin, Zenon
<1>6. \A n \in F : m <= n
  <2> TAKE n \in F
  <2>1. m \in Nat /\ n \in Nat BY <1>2 DEF F
  <2>2. ~(n < m) BY <1>4, <1>5, <2>1
  <2> QED BY <2>1, <2>2
<1> QED BY <1>5, <1>6 DEF F, process_get_free_slot

(* A load that succeeds, from the boot or from a program.                  *)
LEMMA LoadOK ==
  ASSUME IInv, NEW p \in Procs \ live, FreeSlots # {},
         process_load_switch(p, task_insert(list, p)),
         registers' \in [Procs -> Procs], cr3' = p, cpu' \in Procs, mode' = "user"
  PROVE  IInv'
<1> DEFINE k == task_insert(list, p)
           slot == process_get_free_slot
<1>0. NULL \notin Procs BY SchedAssumption
<1>1. TypeOK /\ ListOK(list, live) /\ NoDanglingSlot BY DEF IInv
<1>2. /\ list' = [k EXCEPT !.current = p] /\ processes' = [processes EXCEPT ![slot] = p]
      /\ id' = [id EXCEPT ![p] = slot] /\ live' = live \cup {p} /\ current_process' = p
  BY DEF process_load_switch
<1>3. ListOK(k, live \cup {p}) BY <1>1, InsertOK
<1>4. ListOK([k EXCEPT !.current = p], live \cup {p}) BY <1>3, SetCurrentOK
<1>5. k \in Lists BY <1>3 DEF ListOK
<1>6. /\ [k EXCEPT !.current = p] \in Lists /\ [k EXCEPT !.current = p].current = p
      /\ [k EXCEPT !.current = p].tail = k.tail
  BY <1>4, <1>5 DEF ListOK, Lists
<1>7. k.tail = p
  BY <1>1 DEF ListOK, Lists, task_insert
<1>8. slot \in Slots /\ processes[slot] = NULL BY FreeSlotOK DEF FreeSlots
<1> HIDE DEF slot, k
<1>9. /\ processes \in [Slots -> ProcOrNull] /\ id \in [Procs -> Slots] /\ live \subseteq Procs
  BY <1>1 DEF TypeOK
<1>10. TypeOK'
  <2>1. list' \in Lists BY <1>2, <1>6
  <2>2. processes' \in [Slots -> ProcOrNull] /\ id' \in [Procs -> Slots]
        /\ live' \in SUBSET Procs /\ current_process' \in ProcOrNull
    BY <1>2, <1>8, <1>9 DEF ProcOrNull
  <2> QED BY <2>1, <2>2 DEF TypeOK, Lists, ProcOrNull
<1>11. NoDanglingSlot'
  <2> SUFFICES ASSUME NEW i \in Slots, processes'[i] # NULL
               PROVE  processes'[i] \in live' /\ id'[processes'[i]] = i
    BY DEF NoDanglingSlot
  <2>1. CASE i = slot BY <1>2, <1>9, <2>1
  <2>2. CASE i # slot
    <3>1. processes'[i] = processes[i] BY <1>2, <1>9, <2>2
    <3>2. processes[i] \in live /\ id[processes[i]] = i BY <1>1, <3>1 DEF NoDanglingSlot
    <3> QED BY <1>2, <1>9, <3>1, <3>2
  <2> QED BY <2>1, <2>2
<1>12. UserBound' /\ RunsAtAnEnd' BY <1>2, <1>6, <1>7 DEF UserBound, RunsAtAnEnd
<1>13. ListOK(list, live)' BY <1>2, <1>4
<1> QED BY <1>10, <1>11, <1>12, <1>13 DEF IInv

(* A load that fails: slot 0 may lose its process, nothing else changes.   *)
LEMMA LoadFailsOK ==
  ASSUME IInv, NEW p \in Procs \ live, NEW f, LoadFails(p, f)
  PROVE  /\ list' = list /\ live' = live /\ id' = id /\ current_process' = current_process
         /\ processes' \in [Slots -> ProcOrNull] /\ NoDanglingSlot'
<1>1. TypeOK /\ ListOK(list, live) /\ NoDanglingSlot BY DEF IInv
<1>2. UNCHANGED <<current_process, id, live>> BY DEF LoadFails
<1>3. list' = list BY <1>1, InsertFree DEF LoadFails
<1>4. processes' = processes \/ processes' = [processes EXCEPT ![id[p]] = NULL]
  BY DEF LoadFails, process_unlink
<1>5. processes \in [Slots -> ProcOrNull] /\ id[p] \in Slots BY <1>1 DEF TypeOK
<1>6. processes' \in [Slots -> ProcOrNull] BY <1>4, <1>5 DEF ProcOrNull
<1>7. \A i \in Slots : processes'[i] # NULL => processes'[i] = processes[i] BY <1>4, <1>5
<1>8. NoDanglingSlot' BY <1>1, <1>2, <1>7 DEF NoDanglingSlot
<1> QED BY <1>2, <1>3, <1>6, <1>8

(* The registers saved on entry.                                           *)
LEMMA SavedOK ==
  ASSUME IInv, mode = "user"
  PROVE  SavedRegisters \in [Procs -> Procs]
BY DEF IInv, TypeOK, SavedRegisters

(* Steps that keep the list, the live processes and the mode.              *)
LEMMA SameListOK ==
  ASSUME IInv, mode = "user", mode' = mode, list' = list, live' = live, id' = id,
         current_process' = current_process, processes' \in [Slots -> ProcOrNull],
         NoDanglingSlot', registers' \in [Procs -> Procs],
         cr3' = list.current, cpu' = cpu
  PROVE  IInv'
<1>1. TypeOK' BY DEF IInv, TypeOK
<1>2. UserBound' /\ RunsAtAnEnd' BY DEF IInv, UserBound, RunsAtAnEnd
<1> QED BY <1>1, <1>2 DEF IInv

(* Every step keeps the invariant.                                         *)
LEMMA StepIInv ==
  ASSUME IInv, [Next]_vars
  PROVE  IInv'
<1>0. TypeOK /\ ListOK(list, live) /\ NoDanglingSlot BY DEF IInv
<1>1. CASE UNCHANGED vars
  BY <1>1 DEF vars, IInv, TypeOK, NoDanglingSlot, UserBound, RunsAtAnEnd
<1>2. ASSUME NEW p \in Procs, BootOk(p) PROVE IInv'
  <2>1. live = {} BY <1>2 DEF BootOk, IInv
  <2>2. processes[0] = NULL /\ 0 \in Slots
    <3>1. 0 \in Slots BY SchedAssumption DEF Slots
    <3> QED BY <1>0, <2>1, <3>1 DEF NoDanglingSlot
  <2>3. FreeSlots # {} BY <2>2 DEF FreeSlots
  <2>4. registers' = NewRegisters(p, registers) /\ cr3' = p /\ cpu' = registers'[p]
        /\ mode' = "user" /\ process_load_switch(p, task_insert(list, p))
    BY <1>2 DEF BootOk, task_switch, task_return
  <2>5. registers' \in [Procs -> Procs] BY <1>0, <2>4 DEF NewRegisters, TypeOK
  <2> QED BY <2>1, <2>3, <2>4, <2>5, LoadOK
<1>3. ASSUME NEW p \in Procs, StartProgram(p), cpu' = registers'[p] \/ cpu' = cpu PROVE IInv'
  <2>1. /\ p \notin live /\ FreeSlots # {} /\ mode = "user" /\ mode' = "user" /\ cr3' = p
        /\ process_load_switch(p, task_insert(list, p))
        /\ registers' = NewRegisters(p, SavedRegisters)
    BY <1>3 DEF StartProgram, Loadable, task_switch
  <2>2. registers' \in [Procs -> Procs] BY <2>1, SavedOK DEF NewRegisters
  <2>3. cpu' \in Procs BY <1>3, <2>1, <2>2 DEF IInv
  <2> QED BY <2>1, <2>2, <2>3, LoadOK
<1>4. ASSUME NEW p \in Procs, StartWild(p) PROVE IInv'
  BY <1>0, <1>4 DEF StartWild, IInv, TypeOK, NoDanglingSlot, UserBound, RunsAtAnEnd
<1>5. ASSUME NEW p \in Procs, NEW f, StartFails(p, f) PROVE IInv'
  <2>1. /\ p \notin live /\ LoadFails(p, f) /\ registers' = SavedRegisters
        /\ mode = "user" /\ mode' = mode /\ cr3' = list'.current /\ cpu' = cpu
    BY <1>5 DEF StartFails, Loadable, ReturnFromHandler, task_switch
  <2> QED BY <2>1, LoadFailsOK, SavedOK, SameListOK
<1>6. ASSUME NEW p \in Procs, NEW f, BootFails(p, f) PROVE IInv'
  <2>1. LoadFails(p, f) /\ mode = "boot" /\ mode' = "panic" /\ UNCHANGED <<cr3, registers, cpu>>
    BY <1>6 DEF BootFails
  <2>2. p \notin live BY <2>1 DEF IInv
  <2>3. /\ list' = list /\ live' = live /\ id' = id /\ current_process' = current_process
        /\ processes' \in [Slots -> ProcOrNull] /\ NoDanglingSlot'
    BY <2>1, <2>2, LoadFailsOK
  <2>4. TypeOK' BY <1>0, <2>1, <2>3 DEF TypeOK
  <2> QED BY <1>0, <2>1, <2>3, <2>4 DEF IInv, UserBound, RunsAtAnEnd
<1>7. CASE isr80h_command9_exit BY <1>7, EndOK DEF isr80h_command9_exit
<1>8. CASE idt_handle_exception
  <2>1. current_process = list.current BY <1>8 DEF idt_handle_exception, IInv, UserBound
  <2> QED BY <1>8, <2>1, EndOK DEF idt_handle_exception
<1>9. CASE isr80h_handler
  <2>1. /\ mode = "user" /\ registers' = SavedRegisters /\ cr3' = list.current /\ cpu' = cpu
        /\ UNCHANGED <<list, processes, current_process, id, live, mode>>
    BY <1>9 DEF isr80h_handler, ReturnFromHandler, task_switch
  <2>2. processes' \in [Slots -> ProcOrNull] /\ NoDanglingSlot'
    BY <1>0, <2>1 DEF TypeOK, NoDanglingSlot
  <2> QED BY <2>1, <2>2, SavedOK, SameListOK
<1>10. CASE Halted BY <1>1, <1>10 DEF Halted
<1>11. ASSUME NEW p \in Procs, isr80h_command6_process_load_start(p) PROVE IInv'
  BY <1>3, <1>11 DEF isr80h_command6_process_load_start, task_return
<1>12. ASSUME NEW p \in Procs, isr80h_command7_invake_system_command(p) PROVE IInv'
  BY <1>3, <1>12 DEF isr80h_command7_invake_system_command, task_return, ReturnFromHandler
<1> QED BY <1>1, <1>2, <1>4, <1>5, <1>6, <1>7, <1>8, <1>9, <1>10, <1>11, <1>12 DEF Next

(* Whatever is loaded, fails to load, exits or faults, in any order: the   *)
(* links of task.c join exactly the existing tasks, the table holds no     *)
(* ended process, user code runs as the one process sched.c, task.c and    *)
(* cr3 agree on, and that is the oldest or the newest one.                 *)
THEOREM SchedSafety ==
  Spec => [](TypeOK /\ ListIntegrity /\ NoDanglingSlot /\ UserBound /\ RunsAtAnEnd)
<1>1. IInv /\ [Next]_vars => IInv' BY StepIInv
<1>2. IInv => TypeOK /\ ListIntegrity /\ NoDanglingSlot /\ UserBound /\ RunsAtAnEnd
  BY DEF IInv, ListOK, ListIntegrity
<1> QED BY <1>1, <1>2, InitIInv, PTL DEF Spec

-----------------------------------------------------------------------------
(* Whose registers run *)

Runner(p) == p = list.current /\ p = cpu

Disciplined == ContextBound' /\ \A p \in live : p \notin live' => Runner(p)

(* The end of the running process hands over to another one's own state.   *)
LEMMA EndContext ==
  ASSUME IInv, ContextBound, mode = "user", EndProcess(list.current)
  PROVE  Disciplined
<1> DEFINE p == list.current
<1>1. cpu = p /\ (\A t \in live : registers[t] = t) /\ p \in live /\ live \subseteq Procs
      /\ registers \in [Procs -> Procs]
  BY DEF ContextBound, IInv, UserBound, TypeOK
<1>2. live' = live \ {p} /\ registers' = SavedRegisters BY DEF EndProcess
<1>3. SavedRegisters = registers BY <1>1 DEF SavedRegisters
<1>4. \A t \in live' : registers'[t] = t BY <1>1, <1>2, <1>3
<1>5. mode' = "user" => cpu' = list'.current
  <2> SUFFICES ASSUME mode' = "user" PROVE cpu' = list'.current OBVIOUS
  <2>1. cpu' = SavedRegisters[list'.current] BY DEF EndProcess, task_next, task_return
  <2>2. list'.current \in live' BY EndOK DEF IInv, UserBound
  <2> QED BY <1>2, <1>4, <2>1, <2>2
<1> QED BY <1>1, <1>2, <1>4, <1>5 DEF Disciplined, ContextBound, Runner

(* A program that starts runs on its own entry state.                      *)
LEMMA LoadContext ==
  ASSUME NEW p \in Procs, NEW regs \in [Procs -> Procs], \A t \in live : regs[t] = t,
         IInv', process_load_switch(p, task_insert(list, p)),
         registers' = NewRegisters(p, regs), cpu' = registers'[p], cr3' = p, mode' = "user"
  PROVE  Disciplined
<1>1. live' = live \cup {p} BY DEF process_load_switch
<1>2. registers'[p] = p /\ \A t \in live' : registers'[t] = t
  BY <1>1 DEF NewRegisters, IInv, TypeOK
<1>3. list'.current = p BY DEF IInv, UserBound
<1> QED BY <1>1, <1>2, <1>3 DEF Disciplined, ContextBound

(* Every step, when no argument injection fails.                           *)
LEMMA StepContext ==
  ASSUME "argv" \notin Failures, IInv, ContextBound, [Next]_vars
  PROVE  Disciplined
<1>0. IInv' BY StepIInv
<1>T. TypeOK BY DEF IInv
<1>S. mode = "user" => /\ SavedRegisters = registers /\ registers \in [Procs -> Procs]
                      /\ \A t \in live : registers[t] = t
  BY DEF IInv, UserBound, ContextBound, TypeOK, SavedRegisters
<1>1. CASE UNCHANGED vars BY <1>1 DEF vars, Disciplined, ContextBound
<1>2. ASSUME NEW p \in Procs, BootOk(p) PROVE Disciplined
  <2>1. live = {} BY <1>2 DEF BootOk, IInv
  <2>2. registers \in [Procs -> Procs] BY <1>T DEF TypeOK
  <2> QED BY <1>0, <1>2, <2>1, <2>2, LoadContext DEF BootOk, task_return, task_switch
<1>3. ASSUME NEW p \in Procs, StartProgram(p), cpu' = registers'[p] PROVE Disciplined
  <2>1. mode = "user" /\ mode' = "user" BY <1>3 DEF StartProgram
  <2> QED BY <1>0, <1>3, <1>S, <2>1, LoadContext DEF StartProgram, task_switch
<1>4. ASSUME NEW p \in Procs, StartWild(p) PROVE Disciplined
  BY <1>4 DEF StartWild, Disciplined, ContextBound
<1>5. ASSUME NEW p \in Procs, NEW f, StartFails(p, f) PROVE Disciplined
  <2>1. /\ p \notin live /\ LoadFails(p, f) /\ registers' = SavedRegisters
        /\ mode = "user" /\ mode' = mode /\ cpu' = cpu
    BY <1>5 DEF StartFails, Loadable, ReturnFromHandler
  <2>2. list' = list /\ live' = live BY <2>1, LoadFailsOK
  <2> QED BY <1>S, <2>1, <2>2 DEF Disciplined, ContextBound
<1>6. ASSUME NEW p \in Procs, NEW f, BootFails(p, f) PROVE Disciplined
  <2>1. mode' = "panic" /\ live' = live BY <1>6 DEF BootFails, LoadFails
  <2> QED BY <2>1 DEF Disciplined, ContextBound
<1>7. CASE isr80h_command9_exit BY <1>7, EndContext DEF isr80h_command9_exit
<1>8. CASE idt_handle_exception
  <2>1. current_process = list.current BY <1>8 DEF idt_handle_exception, IInv, UserBound
  <2> QED BY <1>8, <2>1, EndContext DEF idt_handle_exception
<1>9. CASE isr80h_handler
  <2>1. /\ mode = "user" /\ registers' = SavedRegisters /\ cpu' = cpu
        /\ UNCHANGED <<list, live, mode>>
    BY <1>9 DEF isr80h_handler, ReturnFromHandler
  <2> QED BY <1>S, <2>1 DEF Disciplined, ContextBound
<1>10. CASE Halted BY <1>1, <1>10 DEF Halted
<1>11. ASSUME NEW p \in Procs, isr80h_command6_process_load_start(p) PROVE Disciplined
  BY <1>3, <1>11 DEF isr80h_command6_process_load_start, task_return
<1>12. ASSUME NEW p \in Procs, isr80h_command7_invake_system_command(p) PROVE Disciplined
  BY <1>3, <1>12 DEF isr80h_command7_invake_system_command, task_return
<1> QED BY <1>1, <1>2, <1>4, <1>5, <1>6, <1>7, <1>8, <1>9, <1>10, <1>11, <1>12 DEF Next

(* As long as process_inject_argument does not fail, the processor runs    *)
(* the registers of the current task and every task keeps its own, also    *)
(* across loads that fail.                                                 *)
THEOREM SchedContext ==
  ASSUME "argv" \notin Failures
  PROVE  Spec => []ContextBound
<1>1. Init => IInv /\ ContextBound BY InitIInv DEF Init, ContextBound
<1>2. IInv /\ ContextBound /\ [Next]_vars => IInv' /\ ContextBound'
  BY StepIInv, StepContext DEF Disciplined
<1> QED BY <1>1, <1>2, PTL DEF Spec

(* Under the same condition a process ends only while it is the one that   *)
(* runs.                                                                   *)
THEOREM SchedOnlyTheRunnerEnds ==
  ASSUME "argv" \notin Failures
  PROVE  Spec => OnlyTheRunnerEnds
<1>1. Init => IInv /\ ContextBound BY InitIInv DEF Init, ContextBound
<1>2. IInv /\ ContextBound /\ [Next]_vars => IInv' /\ ContextBound'
  BY StepIInv, StepContext DEF Disciplined
<1>3. IInv /\ ContextBound /\ [Next]_vars =>
        [\A p \in live : p \notin live' => p = list.current /\ p = cpu]_vars
  BY StepContext DEF Disciplined, Runner
<1> QED BY <1>1, <1>2, <1>3, PTL DEF Spec, OnlyTheRunnerEnds
-----------------------------------------------------------------------------
(* The slots of the table *)

(* A process that does not exist has the id kzalloc gives it, so a load    *)
(* that fails reaches for slot 0 and no other.                             *)
SlotInv ==
  /\ \A p \in Procs \ live : id[p] = 0
  /\ \A p \in live : id[p] # 0 => processes[id[p]] = p

(* Nothing happens to the table.                                           *)
LEMMA SlotsKept ==
  ASSUME SlotInv, live' = live, id' = id, processes' = processes
  PROVE  SlotInv'
BY DEF SlotInv

LEMMA SlotsAfterEnd ==
  ASSUME IInv, SlotInv, NEW p \in live, EndProcess(p)
  PROVE  SlotInv'
<1>1. /\ live' = live \ {p} /\ id' = [id EXCEPT ![p] = 0]
      /\ processes' = [processes EXCEPT ![id[p]] = NULL]
  BY DEF EndProcess, process_unlink
<1>2. id \in [Procs -> Slots] /\ processes \in [Slots -> ProcOrNull] /\ live \subseteq Procs
  BY DEF IInv, TypeOK
<1>3. ASSUME NEW q \in Procs \ live' PROVE id'[q] = 0
  BY <1>1, <1>2 DEF SlotInv
<1>4. ASSUME NEW q \in live', id'[q] # 0 PROVE processes'[id'[q]] = q
  <2>1. q \in live /\ q # p /\ id'[q] = id[q] BY <1>1, <1>2
  <2>2. processes[id[q]] = q BY <1>4, <2>1 DEF SlotInv
  <2>3. id[p] # id[q]
    <3> SUFFICES ASSUME id[p] = id[q] PROVE FALSE OBVIOUS
    <3>1. processes[id[p]] = p BY <1>4, <2>1 DEF SlotInv
    <3> QED BY <2>1, <2>2, <3>1
  <2> QED BY <1>1, <1>2, <2>1, <2>2, <2>3
<1> QED BY <1>3, <1>4 DEF SlotInv

LEMMA SlotsAfterLoad ==
  ASSUME IInv, SlotInv, NEW p \in Procs \ live, NEW l, FreeSlots # {},
         process_load_switch(p, l)
  PROVE  SlotInv'
<1> PICK slot : slot = process_get_free_slot OBVIOUS
<1>1. /\ live' = live \cup {p} /\ id' = [id EXCEPT ![p] = slot]
      /\ processes' = [processes EXCEPT ![slot] = p]
  BY DEF process_load_switch
<1>2. id \in [Procs -> Slots] /\ processes \in [Slots -> ProcOrNull] /\ live \subseteq Procs
  BY DEF IInv, TypeOK
<1>3. slot \in Slots /\ processes[slot] = NULL BY FreeSlotOK DEF FreeSlots
<1>4. ASSUME NEW q \in Procs \ live' PROVE id'[q] = 0
  BY <1>1, <1>2 DEF SlotInv
<1>5. ASSUME NEW q \in live', id'[q] # 0 PROVE processes'[id'[q]] = q
  <2>1. CASE q = p BY <1>1, <1>2, <1>3, <2>1
  <2>2. CASE q # p
    <3>1. q \in live /\ id'[q] = id[q] /\ q \in Procs BY <1>1, <1>2, <2>2
    <3>2. processes[id[q]] = q BY <1>5, <3>1 DEF SlotInv
    <3>3. id[q] # slot BY <1>3, <3>1, <3>2, SchedAssumption
    <3> QED BY <1>1, <1>2, <3>1, <3>2, <3>3
  <2> QED BY <2>1, <2>2
<1> QED BY <1>4, <1>5 DEF SlotInv

LEMMA SlotsAfterFailure ==
  ASSUME IInv, SlotInv, NEW p \in Procs \ live, NEW f, LoadFails(p, f)
  PROVE  SlotInv'
<1>1. live' = live /\ id' = id BY DEF LoadFails
<1>2. id[p] = 0 BY DEF SlotInv
<1>3. processes' = processes \/ processes' = [processes EXCEPT ![0] = NULL]
  BY <1>2 DEF LoadFails, process_unlink
<1>4. id \in [Procs -> Slots] /\ processes \in [Slots -> ProcOrNull] /\ live \subseteq Procs
  BY DEF IInv, TypeOK
<1>5. ASSUME NEW q \in live', id'[q] # 0 PROVE processes'[id'[q]] = q
  BY <1>1, <1>3, <1>4, <1>5 DEF SlotInv
<1> QED BY <1>1, <1>5 DEF SlotInv

LEMMA StepSlots ==
  ASSUME IInv, SlotInv, [Next]_vars
  PROVE  SlotInv'
<1>1. CASE UNCHANGED vars BY <1>1, SlotsKept DEF vars
<1>2. ASSUME NEW p \in Procs, BootOk(p) PROVE SlotInv'
  <2>1. live = {} BY <1>2 DEF BootOk, IInv
  <2>2. 0 \in Slots BY SchedAssumption DEF Slots
  <2>3. processes[0] = NULL BY <2>1, <2>2 DEF IInv, NoDanglingSlot
  <2>4. FreeSlots # {} BY <2>2, <2>3 DEF FreeSlots
  <2> QED BY <1>2, <2>1, <2>4, SlotsAfterLoad DEF BootOk
<1>3. ASSUME NEW p \in Procs, StartProgram(p) PROVE SlotInv'
  BY <1>3, SlotsAfterLoad DEF StartProgram, Loadable
<1>4. ASSUME NEW p \in Procs, StartWild(p) PROVE SlotInv'
  BY <1>4, SlotsKept DEF StartWild
<1>5. ASSUME NEW p \in Procs, NEW f, StartFails(p, f) PROVE SlotInv'
  BY <1>5, SlotsAfterFailure DEF StartFails, Loadable
<1>6. ASSUME NEW p \in Procs, NEW f, BootFails(p, f) PROVE SlotInv'
  <2>1. live = {} BY <1>6 DEF BootFails, IInv
  <2> QED BY <1>6, <2>1, SlotsAfterFailure DEF BootFails
<1>7. CASE isr80h_command9_exit
  BY <1>7, SlotsAfterEnd DEF isr80h_command9_exit, IInv, UserBound
<1>8. CASE idt_handle_exception
  BY <1>8, SlotsAfterEnd DEF idt_handle_exception, IInv, UserBound
<1>9. CASE isr80h_handler BY <1>9, SlotsKept DEF isr80h_handler
<1>10. CASE Halted BY <1>1, <1>10 DEF Halted
<1>11. ASSUME NEW p \in Procs, isr80h_command6_process_load_start(p) PROVE SlotInv'
  BY <1>3, <1>11 DEF isr80h_command6_process_load_start
<1>12. ASSUME NEW p \in Procs, isr80h_command7_invake_system_command(p) PROVE SlotInv'
  BY <1>3, <1>12 DEF isr80h_command7_invake_system_command
<1> QED BY <1>1, <1>2, <1>4, <1>5, <1>6, <1>7, <1>8, <1>9, <1>10, <1>11, <1>12 DEF Next

(* Whichever loads fail, process_unlink of sched.c costs at most slot 0    *)
(* its process: a live process with any other id is in the table.          *)
THEOREM SchedSlotsComplete == Spec => []SlotsComplete
<1>1. Init => IInv /\ SlotInv BY InitIInv DEF Init, SlotInv
<1>2. IInv /\ SlotInv /\ [Next]_vars => IInv' /\ SlotInv' BY StepIInv, StepSlots
<1>3. IInv /\ SlotInv => SlotsComplete BY DEF IInv, SlotInv, SlotsComplete
<1> QED BY <1>1, <1>2, <1>3, PTL DEF Spec

(* No load fails after its task_struct is there.                           *)
NoUnlinkedLoad == Failures \subseteq {"struct", "argv", "paging"}

(* Every task's process is in the table, and the kernel has not given up   *)
(* with one left.                                                          *)
AllListed == PanicOnlyWhenEmpty /\ \A p \in live : processes[id[p]] = p

LEMMA ListedAfterEnd ==
  ASSUME IInv, AllListed, mode = "user", NEW p, p = list.current, EndProcess(p)
  PROVE  AllListed'
<1> DEFINE ps == process_unlink(p)
           l == task_free(list, p)
<1>1. p \in live /\ ListOK(list, live) BY DEF IInv, UserBound
<1>2. live' = live \ {p} /\ id' = [id EXCEPT ![p] = 0] /\ processes' = ps
  BY DEF EndProcess
<1>3. id \in [Procs -> Slots] /\ processes \in [Slots -> ProcOrNull] /\ live \subseteq Procs
  BY DEF IInv, TypeOK
<1>4. ASSUME NEW q \in live' PROVE q # NULL /\ id'[q] \in Slots /\ ps[id'[q]] = q
  <2>1. q \in live /\ q # p /\ id'[q] = id[q] BY <1>1, <1>2, <1>3
  <2>2. processes[id[q]] = q /\ processes[id[p]] = p BY <1>1, <2>1 DEF AllListed
  <2>3. id[p] # id[q] /\ id[q] \in Slots /\ id[p] \in Slots BY <1>1, <1>3, <2>1, <2>2
  <2>4. ps = [processes EXCEPT ![id[p]] = NULL] BY DEF process_unlink
  <2> QED BY <1>3, <2>1, <2>2, <2>3, <2>4, SchedAssumption
<1>5. PanicOnlyWhenEmpty'
  <2> SUFFICES ASSUME mode' = "panic", live' # {} PROVE FALSE BY DEF PanicOnlyWhenEmpty
  <2>1. PICK q : q \in live' OBVIOUS
  <2>2. Occupied(ps) # {}
    <3> HIDE DEF ps
    <3> QED BY <1>4, <2>1 DEF Occupied
  <2>3. ListOK(l, live \ {p}) BY <1>1, FreeOK
  <2>4. l.current # NULL BY <1>2, <2>1, <2>3 DEF ListOK, Linked
  <2>5. mode' = mode BY <2>2, <2>4 DEF EndProcess
  <2> QED BY <2>5
<1> QED BY <1>2, <1>4, <1>5 DEF AllListed

LEMMA ListedAfterLoad ==
  ASSUME IInv, AllListed, NEW p \in Procs \ live, NEW l, FreeSlots # {},
         process_load_switch(p, l), mode' = "user"
  PROVE  AllListed'
<1> PICK slot : slot = process_get_free_slot OBVIOUS
<1>1. /\ live' = live \cup {p} /\ id' = [id EXCEPT ![p] = slot]
      /\ processes' = [processes EXCEPT ![slot] = p]
  BY DEF process_load_switch
<1>2. id \in [Procs -> Slots] /\ processes \in [Slots -> ProcOrNull] /\ live \subseteq Procs
  BY DEF IInv, TypeOK
<1>3. slot \in Slots /\ processes[slot] = NULL BY FreeSlotOK DEF FreeSlots
<1>4. ASSUME NEW q \in live' PROVE processes'[id'[q]] = q
  <2>1. CASE q = p BY <1>1, <1>2, <1>3, <2>1
  <2>2. CASE q # p
    <3>1. q \in live /\ id'[q] = id[q] /\ q \in Procs /\ id[q] \in Slots BY <1>1, <1>2, <2>2
    <3>2. processes[id[q]] = q BY <3>1 DEF AllListed
    <3>3. id[q] # slot BY <1>3, <3>1, <3>2, SchedAssumption
    <3> QED BY <1>1, <1>2, <3>1, <3>2, <3>3
  <2> QED BY <2>1, <2>2
<1> QED BY <1>4 DEF AllListed, PanicOnlyWhenEmpty

LEMMA StepListed ==
  ASSUME NoUnlinkedLoad, IInv, AllListed, [Next]_vars
  PROVE  AllListed'
<1>0. ASSUME live' = live, id' = id, processes' = processes, mode' # "panic" \/ live = {}
      PROVE  AllListed'
  BY <1>0 DEF AllListed, PanicOnlyWhenEmpty
<1>1. CASE UNCHANGED vars BY <1>1 DEF vars, AllListed, PanicOnlyWhenEmpty
<1>2. ASSUME NEW p \in Procs, BootOk(p) PROVE AllListed'
  <2>1. live = {} BY <1>2 DEF BootOk, IInv
  <2>2. 0 \in Slots BY SchedAssumption DEF Slots
  <2>3. processes[0] = NULL BY <2>1, <2>2 DEF IInv, NoDanglingSlot
  <2>4. FreeSlots # {} BY <2>2, <2>3 DEF FreeSlots
  <2> QED BY <1>2, <2>1, <2>4, ListedAfterLoad DEF BootOk
<1>3. ASSUME NEW p \in Procs, StartProgram(p) PROVE AllListed'
  BY <1>3, ListedAfterLoad DEF StartProgram, Loadable
<1>4. ASSUME NEW p \in Procs, StartWild(p) PROVE AllListed' BY <1>0, <1>4 DEF StartWild
<1>5. ASSUME NEW p, NEW f \in (Failures \cap LoadPoints) \ {"paging"}, LoadFails(p, f)
      PROVE  live' = live /\ id' = id /\ processes' = processes
  <2>1. f = "struct" BY <1>5 DEF NoUnlinkedLoad, LoadPoints
  <2> QED BY <1>5, <2>1 DEF LoadFails
<1>6. ASSUME NEW p \in Procs, NEW f, StartFails(p, f) PROVE AllListed'
  <2>1. f \in (Failures \cap LoadPoints) \ {"paging"} /\ LoadFails(p, f) /\ mode' = "user"
    BY <1>6 DEF StartFails
  <2> QED BY <1>0, <1>5, <2>1
<1>7. ASSUME NEW p \in Procs, NEW f, BootFails(p, f) PROVE AllListed'
  <2>1. f \in (Failures \cap LoadPoints) \ {"paging"} /\ LoadFails(p, f) /\ live = {}
    BY <1>7 DEF BootFails, IInv
  <2> QED BY <1>0, <1>5, <2>1
<1>8. CASE isr80h_command9_exit BY <1>8, ListedAfterEnd DEF isr80h_command9_exit
<1>9. CASE idt_handle_exception
  BY <1>9, ListedAfterEnd DEF idt_handle_exception, IInv, UserBound
<1>10. CASE isr80h_handler BY <1>0, <1>10 DEF isr80h_handler
<1>11. CASE Halted BY <1>1, <1>11 DEF Halted
<1>12. ASSUME NEW p \in Procs, isr80h_command6_process_load_start(p) PROVE AllListed'
  BY <1>3, <1>12 DEF isr80h_command6_process_load_start
<1>13. ASSUME NEW p \in Procs, isr80h_command7_invake_system_command(p) PROVE AllListed'
  BY <1>3, <1>13 DEF isr80h_command7_invake_system_command
<1> QED BY <1>1, <1>2, <1>4, <1>6, <1>7, <1>8, <1>9, <1>10, <1>11, <1>12, <1>13 DEF Next

(* The early panic of process_switch_to_any has one cause: as long as no   *)
(* load fails once its task_struct is there, the kernel panics only when   *)
(* no process is left, for any number of processes and slots.              *)
THEOREM SchedPanics ==
  ASSUME NoUnlinkedLoad
  PROVE  Spec => []PanicOnlyWhenEmpty
<1>1. Init => IInv /\ AllListed BY InitIInv DEF Init, AllListed, PanicOnlyWhenEmpty
<1>2. IInv /\ AllListed /\ [Next]_vars => IInv' /\ AllListed' BY StepIInv, StepListed
<1>3. AllListed => PanicOnlyWhenEmpty BY DEF AllListed
<1> QED BY <1>1, <1>2, <1>3, PTL DEF Spec

-----------------------------------------------------------------------------
(* The links as a queue *)

(* q has the tasks ts of l in the order of the links.                      *)
Enumerates(q, l, ts) ==
  /\ q \in Seq(Procs)
  /\ \A m, n \in 1 .. Len(q) : q[m] = q[n] => m = n
  /\ ts = {q[n] : n \in 1 .. Len(q)}
  /\ l.head = IF Len(q) = 0 THEN NULL ELSE q[1]
  /\ \A n \in 1 .. Len(q) : l.next[q[n]] = IF n = Len(q) THEN NULL ELSE q[n + 1]

(* The walk along the links has been as far as n + 1 tasks.                *)
Upto(q, n) == IF n + 1 <= Len(q) THEN n + 1 ELSE Len(q)
Prefix(q, n) == SubSeq(q, 1, Upto(q, n))

WalkStep(l, s) ==
  IF s = <<>> \/ l.next[s[Len(s)]] = NULL THEN s ELSE Append(s, l.next[s[Len(s)]])

WalkFrom(l) == IF l.head = NULL THEN <<>> ELSE <<l.head>>

LEMMA PrefixFacts ==
  ASSUME NEW q \in Seq(Procs), NEW n \in Nat
  PROVE  /\ Upto(q, n) \in Nat /\ Upto(q, n) <= Len(q)
         /\ Prefix(q, n) \in Seq(Procs) /\ Len(Prefix(q, n)) = Upto(q, n)
         /\ \A k \in 1 .. Upto(q, n) : Prefix(q, n)[k] = q[k]
<1> DEFINE u == Upto(q, n)
<1>1. Len(q) \in Nat OBVIOUS
<1>2. u \in Nat /\ u <= Len(q) BY <1>1 DEF Upto
<1> HIDE DEF u
<1>3. \A k \in 1 .. u : k \in 1 .. Len(q) BY <1>1, <1>2
<1>4. SubSeq(q, 1, u) \in Seq(Procs) /\ Len(SubSeq(q, 1, u)) = u
      /\ \A k \in 1 .. u : SubSeq(q, 1, u)[k] = q[k]
  BY <1>1, <1>2, <1>3
<1> QED BY <1>2, <1>4 DEF u, Prefix

(* Where the walk starts, and each of its steps.                           *)
LEMMA PrefixWalks ==
  ASSUME NEW q, NEW l, NEW ts, Enumerates(q, l, ts), NEW n \in Nat
  PROVE  Prefix(q, n) = IF n = 0 THEN WalkFrom(l) ELSE WalkStep(l, Prefix(q, n - 1))
<1>0. NULL \notin Procs BY SchedAssumption
<1>1. q \in Seq(Procs) /\ Len(q) \in Nat BY DEF Enumerates
<1>2. /\ Upto(q, n) \in Nat /\ Upto(q, n) <= Len(q)
      /\ Prefix(q, n) \in Seq(Procs) /\ Len(Prefix(q, n)) = Upto(q, n)
      /\ \A k \in 1 .. Upto(q, n) : Prefix(q, n)[k] = q[k]
  BY <1>1, PrefixFacts
<1>3. CASE n = 0
  <2>1. CASE Len(q) = 0
    <3>1. Len(Prefix(q, n)) = 0 BY <1>2, <2>1
    <3>2. l.head = NULL BY <2>1 DEF Enumerates
    <3> QED BY <1>2, <1>3, <3>1, <3>2 DEF WalkFrom
  <2>2. CASE Len(q) # 0
    <3>1. Upto(q, n) = 1 BY <1>1, <1>3, <2>2 DEF Upto
    <3>2. l.head = q[1] /\ q[1] \in Procs BY <1>1, <2>2 DEF Enumerates
    <3>3. Prefix(q, n)[1] = q[1] /\ Len(Prefix(q, n)) = 1 BY <1>2, <3>1
    <3> HIDE DEF Prefix, Upto
    <3>4. Prefix(q, n) = <<q[1]>> BY <1>2, <3>2, <3>3
    <3> QED BY <1>0, <1>3, <3>2, <3>4 DEF WalkFrom
  <2> QED BY <2>1, <2>2
<1>4. CASE n # 0
  <2> DEFINE s == Prefix(q, n - 1)
             k == Upto(q, n - 1)
  <2>1. n - 1 \in Nat BY <1>4
  <2>2. /\ k \in Nat /\ k <= Len(q) /\ s \in Seq(Procs) /\ Len(s) = k
        /\ \A x \in 1 .. k : s[x] = q[x]
    BY <1>1, <2>1, PrefixFacts
  <2>3. CASE n + 1 <= Len(q)
    <3>1. k = n /\ Upto(q, n) = n + 1 BY <1>1, <1>4, <2>3 DEF Upto
    <3>2. n \in 1 .. Len(q) /\ n + 1 \in 1 .. Len(q) /\ n # Len(q) BY <1>1, <1>4, <2>3
    <3>3. s[Len(s)] = q[n] /\ s # <<>> BY <1>4, <2>2, <3>1
    <3>4. l.next[q[n]] = q[n + 1] /\ q[n + 1] \in Procs BY <1>1, <3>2 DEF Enumerates
    <3>5. WalkStep(l, s) = Append(s, q[n + 1]) BY <1>0, <3>3, <3>4 DEF WalkStep
    <3>6. \A x \in 1 .. n + 1 : Append(s, q[n + 1])[x] = q[x]
      <4> TAKE x \in 1 .. n + 1
      <4>1. CASE x = n + 1 BY <2>2, <3>1, <4>1
      <4>2. CASE x # n + 1
        <5>1. x \in 1 .. k BY <3>1, <4>2
        <5> HIDE DEF s, k
        <5> QED BY <2>2, <3>1, <5>1
      <4> QED BY <4>1, <4>2
    <3>7. Append(s, q[n + 1]) \in Seq(Procs) /\ Len(Append(s, q[n + 1])) = n + 1
      BY <2>2, <3>1, <3>4
    <3> DEFINE t == Append(s, q[n + 1])
               r == Prefix(q, n)
    <3>8. t \in Seq(Procs) /\ r \in Seq(Procs) /\ Len(t) = Len(r) /\ \A x \in 1 .. Len(r) : t[x] = r[x]
      BY <1>2, <3>1, <3>6, <3>7
    <3> HIDE DEF t, r
    <3>9. t = r BY <3>8
    <3> QED BY <1>4, <3>5, <3>9 DEF t, r
  <2>4. CASE ~(n + 1 <= Len(q))
    <3>1. k = Len(q) /\ Upto(q, n) = Len(q) BY <1>1, <1>4, <2>4 DEF Upto
    <3> DEFINE r == Prefix(q, n)
    <3>2. s \in Seq(Procs) /\ r \in Seq(Procs) /\ Len(s) = Len(r) /\ \A x \in 1 .. Len(r) : s[x] = r[x]
      BY <1>2, <2>2, <3>1
    <3>3. s = r
      <4> HIDE DEF s, r
      <4> QED BY <3>2
    <3>4. WalkStep(l, s) = s
      <4>1. CASE Len(q) = 0 BY <2>2, <3>1, <4>1 DEF WalkStep
      <4>2. CASE Len(q) # 0
        <5>1. Len(q) \in 1 .. Len(q) BY <1>1, <4>2
        <5>2. s[Len(s)] = q[Len(q)] BY <2>2, <3>1, <5>1
        <5>3. l.next[q[Len(q)]] = NULL BY <5>1 DEF Enumerates
        <5> QED BY <5>2, <5>3 DEF WalkStep
      <4> QED BY <4>1, <4>2
    <3> QED BY <1>4, <3>3, <3>4
  <2> QED BY <2>3, <2>4
<1> QED BY <1>3, <1>4

(* Distinct tasks are not more than there are names.                       *)
LEMMA QueueFits ==
  ASSUME NEW q, NEW l, NEW ts, Enumerates(q, l, ts)
  PROVE  Cardinality(Procs) \in Nat /\ Len(q) <= Cardinality(Procs)
<1>1. q \in Seq(Procs) /\ Len(q) \in Nat /\ q \in [1 .. Len(q) -> Procs] BY DEF Enumerates
<1>2. Cardinality(Procs) \in Nat BY ProcsFinite, FS_CardinalityType
<1>3. q \in Injection(1 .. Len(q), Procs) BY <1>1 DEF Enumerates, Injection, IsInjective
<1>4. Cardinality(1 .. Len(q)) <= Cardinality(Procs) BY <1>3, ProcsFinite, FS_Injection
<1>5. Cardinality(1 .. Len(q)) = IF 1 > Len(q) THEN 0 ELSE Len(q) - 1 + 1 BY <1>1, FS_Interval
<1> QED BY <1>1, <1>2, <1>4, <1>5

Walks(f, l, N) ==
  \A n \in 0 .. N : f[n] = IF n = 0 THEN WalkFrom(l) ELSE WalkStep(l, f[n - 1])

(* The walk is determined by its steps.                                    *)
LEMMA WalkUnique ==
  ASSUME NEW l, NEW N \in Nat, NEW f, NEW g, Walks(f, l, N), Walks(g, l, N)
  PROVE  f[N] = g[N]
<1> DEFINE W == {n \in 0 .. N : f[n] # g[n]}
<1> SUFFICES ASSUME W # {} PROVE FALSE OBVIOUS
<1>1. W \subseteq Nat OBVIOUS
<1>2. IsWellFoundedOn(OpToRel(<, Nat), Nat) BY NatLessThanWellFounded, Zenon
<1>3. \A x, y \in Nat : x < y => <<x, y>> \in OpToRel(<, Nat) BY DEF OpToRel
<1>4. PICK n \in W : \A m \in W : ~(<<m, n>> \in OpToRel(<, Nat))
  <2> HIDE DEF W
  <2> QED BY <1>1, <1>2, WFMin, Zenon
<1>5. n \in 0 .. N /\ f[n] # g[n] OBVIOUS
<1>6. n # 0 BY <1>5 DEF Walks
<1>7. n - 1 \in 0 .. N /\ n - 1 < n BY <1>5, <1>6
<1>8. f[n - 1] # g[n - 1] BY <1>5, <1>6 DEF Walks
<1>9. n - 1 \in W BY <1>7, <1>8
<1> HIDE DEF W
<1> QED BY <1>1, <1>3, <1>4, <1>7, <1>9

(* Chain finds the tasks in their order.                                   *)
LEMMA ChainIs ==
  ASSUME NEW q, NEW l, NEW ts, Enumerates(q, l, ts)
  PROVE  Chain(l) = q
<1> DEFINE N == Cardinality(Procs)
           Body(f) == [n \in 0 .. N |->
             IF n = 0 THEN IF l.head = NULL THEN <<>> ELSE <<l.head>>
             ELSE LET s == f[n - 1]
                  IN  IF s = <<>> \/ l.next[s[Len(s)]] = NULL THEN s
                      ELSE Append(s, l.next[s[Len(s)]])]
           walk == CHOOSE f : f = Body(f)
           f0 == [n \in 0 .. N |-> Prefix(q, n)]
<1>1. N \in Nat /\ Len(q) <= N BY QueueFits
<1>2. q \in Seq(Procs) /\ Len(q) \in Nat BY DEF Enumerates
<1>3. Chain(l) = walk[N] BY DEF Chain
<1>4. Walks(f0, l, N)
  <2>1. ASSUME NEW n \in 0 .. N PROVE f0[n] = IF n = 0 THEN WalkFrom(l) ELSE WalkStep(l, f0[n - 1])
    <3>1. n \in Nat OBVIOUS
    <3>2. Prefix(q, n) = IF n = 0 THEN WalkFrom(l) ELSE WalkStep(l, Prefix(q, n - 1))
      BY <3>1, PrefixWalks
    <3>3. n # 0 => n - 1 \in 0 .. N BY <1>1
    <3> QED BY <3>2, <3>3
  <2> HIDE DEF f0
  <2> QED BY <2>1 DEF Walks
<1>5. f0 = Body(f0)
  <2>1. ASSUME NEW n \in 0 .. N PROVE f0[n] = Body(f0)[n]
    <3> HIDE DEF f0
    <3> QED BY <1>4 DEF Walks, WalkFrom, WalkStep
  <2> QED BY <2>1
<1> HIDE DEF f0
<1>6. walk = Body(walk) BY <1>5
<1> HIDE DEF walk
<1>7. Walks(walk, l, N)
  <2>1. ASSUME NEW n \in 0 .. N PROVE walk[n] = IF n = 0 THEN WalkFrom(l) ELSE WalkStep(l, walk[n - 1])
    <3>1. walk[n] = Body(walk)[n] BY <1>6
    <3> QED BY <3>1 DEF WalkFrom, WalkStep
  <2> QED BY <2>1 DEF Walks
<1>8. walk[N] = f0[N]
  <2> HIDE DEF N
  <2> QED BY <1>1, <1>4, <1>7, WalkUnique
<1>9. f0[N] = Prefix(q, N) BY <1>1 DEF f0
<1>10. Prefix(q, N) = q
  <2>1. Upto(q, N) = Len(q) BY <1>1, <1>2 DEF Upto
  <2> HIDE DEF N
  <2> QED BY <1>2, <2>1 DEF Prefix
<1> QED BY <1>3, <1>8, <1>9, <1>10

(* A task put on the list is the last of the queue.                        *)
LEMMA InsertEnumerates ==
  ASSUME NEW q, NEW l, NEW ts, Enumerates(q, l, ts), ListOK(l, ts), NEW t \in Procs \ ts,
         NEW j, j = [task_insert(l, t) EXCEPT !.current = t]
  PROVE  Enumerates(Append(q, t), j, ts \cup {t})
<1>0. NULL \notin Procs BY SchedAssumption
<1>1. /\ q \in Seq(Procs) /\ Len(q) \in Nat
      /\ \A m, n \in 1 .. Len(q) : q[m] = q[n] => m = n
      /\ ts = {q[n] : n \in 1 .. Len(q)}
      /\ l.head = IF Len(q) = 0 THEN NULL ELSE q[1]
      /\ \A n \in 1 .. Len(q) : l.next[q[n]] = IF n = Len(q) THEN NULL ELSE q[n + 1]
  BY DEF Enumerates
<1>2. l \in Lists /\ ts \subseteq Procs /\ Linked(l, ts) /\ Fresh(l, ts) BY DEF ListOK
<1>3. l.next[t] = NULL BY <1>2 DEF Fresh
<1>4. l.next \in [Procs -> ProcOrNull] BY <1>2 DEF Lists
<1> DEFINE r == Append(q, t)
           N == Len(q)
<1>5. /\ r \in Seq(Procs) /\ Len(r) = N + 1 /\ r[N + 1] = t
      /\ \A n \in 1 .. N : r[n] = q[n]
  BY <1>1
<1>6. \A n \in 1 .. N : q[n] \in ts /\ q[n] # t BY <1>1
<1>7. /\ j.head = IF N = 0 THEN t ELSE l.head
      /\ \A u \in Procs : j.next[u] = IF N # 0 /\ u = q[N] THEN t ELSE l.next[u]
  <2>1. CASE N = 0
    <3>1. l.head = NULL BY <1>1, <2>1
    <3>2. j.head = t /\ j.next = l.next BY <1>2, <3>1 DEF task_insert, Lists
    <3> QED BY <2>1, <3>2
  <2>2. CASE N # 0
    <3>1. N \in 1 .. N /\ 1 \in 1 .. N BY <1>1, <2>2
    <3>2. l.head # NULL BY <1>0, <1>1, <1>2, <1>6, <2>2, <3>1
    <3>3. l.next[q[N]] = NULL /\ q[N] \in ts BY <1>1, <1>6, <3>1
    <3>4. l.tail = q[N] BY <1>2, <3>3 DEF Linked
    <3>5. j.head = l.head /\ j.next = [l.next EXCEPT ![l.tail] = t]
      BY <1>2, <3>2 DEF task_insert, Lists
    <3>6. \A u \in Procs : j.next[u] = IF u = l.tail THEN t ELSE l.next[u] BY <1>4, <3>5
    <3> HIDE DEF N
    <3> QED BY <2>2, <3>4, <3>5, <3>6
  <2> QED BY <2>1, <2>2
<1> HIDE DEF r, N
<1>8. N \in Nat BY <1>1 DEF N
<1>9. \A m, n \in 1 .. Len(r) : r[m] = r[n] => m = n
  <2> TAKE m, n \in 1 .. Len(r)
  <2>1. /\ m = N + 1 \/ m \in 1 .. N
        /\ n = N + 1 \/ n \in 1 .. N
    BY <1>5, <1>8
  <2> QED BY <1>1, <1>5, <1>6, <2>1 DEF N
<1>10. ts \cup {t} = {r[n] : n \in 1 .. Len(r)}
  <2>1. ASSUME NEW x \in ts \cup {t} PROVE \E n \in 1 .. Len(r) : x = r[n]
    <3>1. CASE x = t
      <4>1. N + 1 \in 1 .. Len(r) BY <1>5, <1>8
      <4> QED BY <1>5, <3>1, <4>1
    <3>2. CASE x \in ts
      <4>1. PICK n \in 1 .. N : x = q[n] BY <1>1, <3>2 DEF N
      <4>2. n \in 1 .. Len(r) BY <1>5, <1>8
      <4> QED BY <1>5, <4>1, <4>2
    <3> QED BY <3>1, <3>2
  <2>2. ASSUME NEW n \in 1 .. Len(r) PROVE r[n] \in ts \cup {t}
    <3>1. n = N + 1 \/ n \in 1 .. N BY <1>5, <1>8
    <3> QED BY <1>5, <1>6, <3>1
  <2> QED BY <2>1, <2>2
<1>11. j.head = IF Len(r) = 0 THEN NULL ELSE r[1]
  <2>1. Len(r) # 0 BY <1>5, <1>8
  <2>2. CASE N = 0 BY <1>5, <1>7, <2>1, <2>2
  <2>3. CASE N # 0
    <3>1. 1 \in 1 .. N BY <1>8, <2>3
    <3>2. r[1] = q[1] BY <1>5, <3>1
    <3>3. l.head = q[1] BY <1>1, <2>3 DEF N
    <3> QED BY <1>7, <2>1, <2>3, <3>2, <3>3
  <2> QED BY <2>2, <2>3
<1>12. ASSUME NEW n \in 1 .. Len(r) PROVE j.next[r[n]] = IF n = Len(r) THEN NULL ELSE r[n + 1]
  <2>1. CASE n = N + 1
    <3>1. N # 0 => t # q[N]
      <4>1. N # 0 => N \in 1 .. N BY <1>8
      <4> QED BY <1>6, <4>1
    <3>2. j.next[t] = NULL BY <1>3, <1>7, <3>1
    <3> QED BY <1>5, <2>1, <3>2
  <2>2. CASE n = N
    <3>1. n \in 1 .. N /\ N # 0 /\ n # Len(r) BY <1>5, <1>8, <2>2
    <3>2. r[n] = q[N] /\ q[N] \in Procs BY <1>2, <1>5, <1>6, <2>2, <3>1
    <3>3. j.next[r[n]] = t BY <1>7, <3>1, <3>2
    <3> QED BY <1>5, <2>2, <3>1, <3>3
  <2>3. CASE n # N /\ n # N + 1
    <3>1. n \in 1 .. N /\ n + 1 \in 1 .. N /\ n # Len(r) /\ N \in 1 .. N BY <1>5, <1>8, <2>3
    <3>2. r[n] = q[n] /\ r[n + 1] = q[n + 1] /\ q[n] \in Procs BY <1>2, <1>5, <1>6, <3>1
    <3>3. q[n] # q[N] BY <1>1, <2>3, <3>1 DEF N
    <3>4. l.next[q[n]] = q[n + 1] BY <1>1, <2>3, <3>1 DEF N
    <3> QED BY <1>7, <3>1, <3>2, <3>3, <3>4
  <2> QED BY <2>1, <2>2, <2>3
<1> QED BY <1>5, <1>9, <1>10, <1>11, <1>12 DEF Enumerates, r

(* r is q without its k-th element.                                        *)
Without(r, q, k) ==
  /\ r \in Seq(Procs) /\ Len(r) = Len(q) - 1
  /\ \A n \in 1 .. Len(q) - 1 : r[n] = IF n < k THEN q[n] ELSE q[n + 1]

LEMMA WithoutAt ==
  ASSUME NEW q \in Seq(Procs), NEW k \in 1 .. Len(q), NEW r, r = Queue!RemoveAt(q, k)
  PROVE  Without(r, q, k)
<1> DEFINE N == Len(q)
           a == SubSeq(q, 1, k - 1)
           b == SubSeq(q, k + 1, N)
<1>1. N \in Nat /\ k \in 1 .. N /\ k - 1 \in Nat /\ k <= N OBVIOUS
<1>2. a \in Seq(Procs) /\ Len(a) = k - 1 /\ \A n \in 1 .. k - 1 : a[n] = q[n]
  <2>1. \A n \in 1 .. k - 1 : n \in 1 .. N BY <1>1
  <2> QED BY <1>1, <2>1
<1>3. b \in Seq(Procs) /\ Len(b) = N - k /\ \A n \in 1 .. N - k : b[n] = q[n + k]
  <2>1. \A n \in k + 1 .. N : n \in 1 .. N BY <1>1
  <2>2. b \in Seq(Procs) BY <1>1, <2>1
  <2>3. Len(b) = N - k BY <1>1, <2>1
  <2>4. ASSUME NEW n \in 1 .. N - k PROVE b[n] = q[n + k]
    <3>1. n + k = (k + 1) + n - 1 BY <1>1
    <3> QED BY <1>1, <2>1, <3>1
  <2> QED BY <2>2, <2>3, <2>4
<1>4. r = a \o b BY DEF Queue!RemoveAt
<1> HIDE DEF N, a, b
<1>5. r \in Seq(Procs) /\ Len(r) = N - 1
  <2>1. a \in Seq(Procs) /\ b \in Seq(Procs) BY <1>2, <1>3
  <2>2. r \in Seq(Procs) /\ Len(r) = Len(a) + Len(b)
    BY <1>4, <2>1, ConcatProperties, Zenon
  <2> QED BY <1>1, <1>2, <1>3, <2>2
<1>6. ASSUME NEW n \in 1 .. N - 1 PROVE r[n] = IF n < k THEN q[n] ELSE q[n + 1]
  <2>1. r[n] = IF n <= Len(a) THEN a[n] ELSE b[n - Len(a)] BY <1>1, <1>2, <1>3, <1>4
  <2>2. CASE n < k
    <3>1. n \in 1 .. k - 1 /\ n <= Len(a) BY <1>1, <1>2, <2>2
    <3> QED BY <1>2, <2>1, <2>2, <3>1
  <2>3. CASE ~(n < k)
    <3>1. n - (k - 1) \in 1 .. N - k /\ ~(n <= Len(a)) /\ n - (k - 1) + k = n + 1
      BY <1>1, <1>2, <2>3
    <3>2. b[n - (k - 1)] = q[n - (k - 1) + k] BY <1>3, <3>1
    <3> QED BY <1>2, <2>1, <2>3, <3>1, <3>2
  <2> QED BY <2>2, <2>3
<1> QED BY <1>5, <1>6 DEF N, Without

(* The task t runs and is the k-th of the queue; it leaves the queue at    *)
(* its place, and its successor runs.                                      *)
RunsAt(q, l, ts, k, t) ==
  Enumerates(q, l, ts) /\ ListOK(l, ts) /\ k \in 1 .. Len(q) /\ t = q[k] /\ l.current = t

Leaves(q, l, ts, k, t) ==
  /\ Enumerates(Queue!RemoveAt(q, k), task_free(l, t), ts \ {t})
  /\ task_free(l, t).current = Queue!Successor(q, k)

LEMMA FreeEnumerates ==
  ASSUME NEW q, NEW l, NEW ts, NEW k, NEW t, RunsAt(q, l, ts, k, t)
  PROVE  Leaves(q, l, ts, k, t)
<1> SUFFICES ASSUME NEW j, j = task_free(l, t), NEW r, r = Queue!RemoveAt(q, k)
             PROVE  Enumerates(r, j, ts \ {t}) /\ j.current = Queue!Successor(q, k)
  BY DEF Leaves
<1> Enumerates(q, l, ts) /\ ListOK(l, ts) /\ k \in 1 .. Len(q) /\ t = q[k] /\ l.current = t
  BY DEF RunsAt
<1>0. NULL \notin Procs BY SchedAssumption
<1> DEFINE N == Len(q)
<1>1. /\ q \in Seq(Procs) /\ N \in Nat
      /\ \A m, n \in 1 .. N : q[m] = q[n] => m = n
      /\ ts = {q[n] : n \in 1 .. N}
      /\ l.head = IF N = 0 THEN NULL ELSE q[1]
      /\ \A n \in 1 .. N : l.next[q[n]] = IF n = N THEN NULL ELSE q[n + 1]
  BY DEF Enumerates
<1>2. l \in Lists /\ ts \subseteq Procs /\ Linked(l, ts) BY DEF ListOK
<1>3. /\ r \in Seq(Procs) /\ Len(r) = N - 1
      /\ \A n \in 1 .. N - 1 : r[n] = IF n < k THEN q[n] ELSE q[n + 1]
  <2>1. Without(r, q, k) BY <1>1, WithoutAt
  <2> QED BY <2>1 DEF Without
<1>4. k \in 1 .. N /\ N # 0 OBVIOUS
<1> HIDE DEF N
<1>5. \A n \in 1 .. N : q[n] \in ts /\ q[n] \in Procs /\ q[n] # NULL BY <1>0, <1>1, <1>2
<1>6. t \in ts BY <1>4, <1>5
<1>7. /\ j.head = (IF l.head = t THEN l.next[t] ELSE l.head)
      /\ j.current = (IF l.next[t] = NULL THEN j.head ELSE l.next[t])
      /\ \A u \in Procs : j.next[u] = (IF u = t THEN NULL
                                       ELSE IF u = l.prev[t] THEN l.next[t] ELSE l.next[u])
  BY <1>6, FreeFields
<1>8. l.next[t] = IF k = N THEN NULL ELSE q[k + 1] BY <1>1, <1>4
<1>9. l.prev[t] = IF k = 1 THEN NULL ELSE q[k - 1]
  <2>1. CASE k = 1
    <3>1. l.head = t BY <1>1, <1>4, <2>1
    <3> QED BY <1>2, <1>6, <2>1, <3>1 DEF Linked
  <2>2. CASE k # 1
    <3>1. k - 1 \in 1 .. N /\ k - 1 # N /\ (k - 1) + 1 = k BY <1>1, <1>4, <2>2
    <3>2. l.next[q[k - 1]] = t /\ q[k - 1] \in ts BY <1>1, <1>5, <3>1
    <3>3. t # NULL BY <1>4, <1>5
    <3>4. l.prev[t] = q[k - 1] BY <1>2, <3>2, <3>3 DEF Linked
    <3> QED BY <2>2, <3>4
  <2> QED BY <2>1, <2>2
<1>10. l.head = t <=> k = 1
  <2>1. 1 \in 1 .. N /\ l.head = q[1] BY <1>1, <1>4
  <2> QED BY <1>1, <1>4, <2>1
<1>11. j.head = IF N = 1 THEN NULL ELSE IF k = 1 THEN q[2] ELSE q[1]
  <2>1. CASE k = 1
    <3>1. N = 1 => j.head = NULL BY <1>7, <1>8, <1>10, <2>1
    <3>2. N # 1 => j.head = q[1 + 1] BY <1>7, <1>8, <1>10, <2>1
    <3> QED BY <2>1, <3>1, <3>2
  <2>2. CASE k # 1
    <3>1. N # 1 BY <1>1, <1>4, <2>2
    <3>2. j.head = q[1] BY <1>1, <1>4, <1>7, <1>10, <2>2
    <3> QED BY <2>2, <3>1, <3>2
  <2> QED BY <2>1, <2>2
<1>12. j.current = Queue!Successor(q, k)
  <2>1. Queue!Successor(q, k) = IF N = 1 THEN NULL ELSE IF k = N THEN q[1] ELSE q[k + 1]
    BY DEF Queue!Successor, N
  <2>2. CASE k = N
    <3>1. j.current = j.head BY <1>7, <1>8, <2>2
    <3>2. N # 1 => k # 1 BY <2>2
    <3> QED BY <1>11, <2>1, <2>2, <3>1, <3>2
  <2>3. CASE k # N
    <3>1. N # 1 /\ k + 1 \in 1 .. N BY <1>1, <1>4, <2>3
    <3>2. l.next[t] = q[k + 1] /\ q[k + 1] # NULL BY <1>5, <1>8, <2>3, <3>1
    <3> QED BY <1>7, <2>1, <2>3, <3>1, <3>2
  <2> QED BY <2>2, <2>3
<1> DEFINE Moved(n) == IF n < k THEN n ELSE n + 1
<1>13. \A n \in 1 .. N - 1 : Moved(n) \in 1 .. N /\ Moved(n) # k /\ r[n] = q[Moved(n)]
  <2> TAKE n \in 1 .. N - 1
  <2>1. Moved(n) \in 1 .. N /\ Moved(n) # k BY <1>1, <1>4
  <2> QED BY <1>3, <2>1
<1>14. \A m, n \in 1 .. N - 1 : Moved(m) = Moved(n) => m = n BY <1>1, <1>4
<1>15. \A m, n \in 1 .. Len(r) : r[m] = r[n] => m = n
  <2> TAKE m, n \in 1 .. Len(r)
  <2>1. m \in 1 .. N - 1 /\ n \in 1 .. N - 1 BY <1>3
  <2>2. /\ Moved(m) \in 1 .. N /\ r[m] = q[Moved(m)]
        /\ Moved(n) \in 1 .. N /\ r[n] = q[Moved(n)]
    BY <1>13, <2>1
  <2>3. Moved(m) = Moved(n) => m = n BY <1>14, <2>1
  <2> HIDE DEF Moved
  <2> QED BY <1>1, <2>2, <2>3
<1>16. ts \ {t} = {r[n] : n \in 1 .. Len(r)}
  <2>1. ASSUME NEW x \in ts \ {t} PROVE \E n \in 1 .. N - 1 : x = r[n]
    <3>1. PICK m \in 1 .. N : x = q[m] BY <1>1
    <3>2. m # k BY <3>1
    <3>3. CASE m < k
      <4>1. m \in 1 .. N - 1 BY <1>1, <1>4, <3>3
      <4> QED BY <1>3, <3>1, <3>3, <4>1
    <3>4. CASE ~(m < k)
      <4>1. m - 1 \in 1 .. N - 1 /\ ~(m - 1 < k) /\ (m - 1) + 1 = m BY <1>1, <1>4, <3>2, <3>4
      <4> QED BY <1>3, <3>1, <4>1
    <3> QED BY <3>3, <3>4
  <2>2. ASSUME NEW n \in 1 .. N - 1 PROVE r[n] \in ts \ {t}
    <3> PICK m : m = Moved(n) OBVIOUS
    <3>1. m \in 1 .. N /\ m # k /\ r[n] = q[m] BY <1>13
    <3>2. q[m] # q[k] /\ q[m] \in ts BY <1>1, <1>4, <1>5, <3>1
    <3> QED BY <3>1, <3>2
  <2> DEFINE M == N - 1
  <2>3. Len(r) = M BY <1>3
  <2>4. \A x : x \in ts \ {t} <=> \E n \in 1 .. M : x = r[n] BY <2>1, <2>2
  <2> HIDE DEF M
  <2> QED BY <2>3, <2>4
<1>17. j.head = IF Len(r) = 0 THEN NULL ELSE r[1]
  <2>1. CASE N = 1 BY <1>3, <1>11, <2>1
  <2>2. CASE N # 1
    <3>1. 1 \in 1 .. N - 1 /\ N - 1 # 0 BY <1>1, <1>4, <2>2
    <3>2. r[1] = IF k = 1 THEN q[2] ELSE q[1] BY <1>3, <1>4, <3>1
    <3> QED BY <1>3, <1>11, <2>2, <3>1, <3>2
  <2> QED BY <2>1, <2>2
<1>18. ASSUME NEW n \in 1 .. Len(r) PROVE j.next[r[n]] = IF n = Len(r) THEN NULL ELSE r[n + 1]
  <2>0. n \in 1 .. N - 1 BY <1>3
  <2> DEFINE m == Moved(n)
  <2>1. m \in 1 .. N /\ m # k /\ r[n] = q[m] BY <1>13, <2>0
  <2>2. q[m] \in Procs /\ q[m] # t BY <1>1, <1>4, <1>5, <2>1
  <2>3. q[m] = l.prev[t] <=> m = k - 1
    <3>1. CASE k = 1
      <4>1. m # k - 1 BY <2>1, <3>1
      <4>2. q[m] # NULL BY <1>5, <2>1
      <4> QED BY <1>9, <3>1, <4>1, <4>2
    <3>2. CASE k # 1
      <4>1. k - 1 \in 1 .. N BY <1>1, <1>4, <3>2
      <4> HIDE DEF m
      <4> QED BY <1>1, <1>9, <2>1, <3>2, <4>1
    <3> QED BY <3>1, <3>2
  <2>4. j.next[r[n]] = IF m = k - 1 THEN l.next[t] ELSE l.next[q[m]]
    <3> HIDE DEF m
    <3> QED BY <1>7, <2>1, <2>2, <2>3
  <2>5. CASE m = k - 1
    <3>1. n = k - 1 /\ n < k BY <1>4, <2>0, <2>5
    <3>2. j.next[r[n]] = l.next[t] BY <2>4, <2>5
    <3>3. CASE k = N
      <4>1. n = Len(r) BY <1>1, <1>3, <3>1, <3>3
      <4> QED BY <1>8, <3>2, <3>3, <4>1
    <3>4. CASE k # N
      <4>1. n # Len(r) /\ n + 1 \in 1 .. N - 1 /\ n + 1 = k BY <1>1, <1>3, <1>4, <3>1, <3>4
      <4>2. r[k] = q[k + 1] BY <1>3, <1>4, <4>1
      <4> HIDE DEF m
      <4> QED BY <1>8, <3>2, <3>4, <4>1, <4>2
    <3> QED BY <3>3, <3>4
  <2>6. CASE m # k - 1
    <3>1. j.next[r[n]] = l.next[q[m]] BY <2>4, <2>6
    <3>2. l.next[q[m]] = IF m = N THEN NULL ELSE q[m + 1]
      <4> HIDE DEF m
      <4> QED BY <1>1, <2>1
    <3>3. m = N <=> n = Len(r) BY <1>1, <1>3, <1>4, <2>0, <2>6
    <3>4. CASE n = Len(r) BY <3>1, <3>2, <3>3, <3>4
    <3>5. CASE n # Len(r)
      <4>1. n + 1 \in 1 .. N - 1 BY <1>1, <1>3, <2>0, <3>5
      <4>2. Moved(n + 1) = m + 1 BY <1>1, <1>4, <2>0, <2>6
      <4>3. r[n + 1] = q[Moved(n + 1)] BY <1>13, <4>1
      <4> HIDE DEF m, Moved
      <4> QED BY <3>1, <3>2, <3>3, <3>5, <4>2, <4>3
    <3> QED BY <3>4, <3>5
  <2> QED BY <2>5, <2>6
<1> QED BY <1>3, <1>12, <1>15, <1>16, <1>17, <1>18 DEF Enumerates

(* The tasks have an order, whatever the links are.                        *)
Ordered == \E q : Enumerates(q, list, live)

LEMMA OrderedChain ==
  ASSUME Ordered
  PROVE  Enumerates(Chain(list), list, live)
BY ChainIs DEF Ordered

(* The end of the running process.                                         *)
LEMMA EndSimulates ==
  ASSUME IInv, Ordered, mode = "user", EndProcess(list.current)
  PROVE  Ordered' /\ Queue!End(list.current)
<1> DEFINE p == list.current
           q == Chain(list)
<1>1. ListOK(list, live) /\ p \in live /\ Enumerates(q, list, live)
  BY OrderedChain DEF IInv, UserBound
<1>2. list' = task_free(list, p) /\ live' = live \ {p} BY DEF EndProcess
<1>3. PICK k \in 1 .. Len(q) : p = q[k] BY <1>1 DEF Enumerates
<1>4. DOMAIN q = 1 .. Len(q) BY <1>1 DEF Enumerates
<1> DEFINE r == Queue!RemoveAt(q, k)
<1>5. Enumerates(r, list', live \ {p}) /\ list'.current = Queue!Successor(q, k)
  <2>1. RunsAt(q, list, live, k, p) BY <1>1, <1>3 DEF RunsAt
  <2>2. Leaves(q, list, live, k, p)
    <3> HIDE DEF q, p
    <3> QED BY <2>1, FreeEnumerates
  <2>3. /\ Enumerates(r, task_free(list, p), live \ {p})
        /\ task_free(list, p).current = Queue!Successor(q, k)
    BY <2>2 DEF Leaves
  <2> HIDE DEF q, p, r
  <2> QED BY <1>2, <2>3
<1>6. Enumerates(r, list', live') BY <1>2, <1>5
<1>7. Chain(list') = r
  <2> HIDE DEF r
  <2> QED BY <1>6, ChainIs
<1>8. Ordered' BY <1>6 DEF Ordered
<1>9. Queue!End(p)
  BY <1>3, <1>4, <1>5, <1>7 DEF Queue!End
<1> QED BY <1>8, <1>9

(* A load that succeeds.                                                   *)
LEMMA LoadSimulates ==
  ASSUME IInv, Ordered, NEW p \in Procs \ live, process_load_switch(p, task_insert(list, p))
  PROVE  Ordered' /\ Queue!Start(p)
<1> DEFINE q == Chain(list)
           r == Append(q, p)
<1>1. ListOK(list, live) /\ Enumerates(q, list, live) BY OrderedChain DEF IInv
<1>2. list' = [task_insert(list, p) EXCEPT !.current = p] /\ live' = live \cup {p}
  BY DEF process_load_switch
<1>3. Enumerates(r, list', live \cup {p})
  <2> HIDE DEF q
  <2> QED BY <1>1, <1>2, InsertEnumerates
<1>4. Enumerates(r, list', live') BY <1>2, <1>3
<1>5. Chain(list') = r
  <2> HIDE DEF r
  <2> QED BY <1>4, ChainIs
<1>6. Ordered' BY <1>4 DEF Ordered
<1>7. p \notin Queue!ToSet(q)
  <2>1. Queue!ToSet(q) = live
    <3>1. DOMAIN q = 1 .. Len(q) /\ live = {q[n] : n \in 1 .. Len(q)} BY <1>1 DEF Enumerates
    <3> HIDE DEF q
    <3> QED BY <3>1 DEF Queue!ToSet
  <2> QED BY <2>1
<1>8. list'.current = p
  <2>1. ListOK(task_insert(list, p), live \cup {p}) BY <1>1, InsertOK
  <2>2. task_insert(list, p) \in Lists BY <2>1 DEF ListOK
  <2> QED BY <1>2, <2>2 DEF Lists
<1> QED BY <1>5, <1>6, <1>7, <1>8 DEF Queue!Start

(* Every step is a step of the queue, or leaves it as it is.               *)
LEMMA StepSimulates ==
  ASSUME IInv, Ordered, [Next]_vars
  PROVE  Ordered' /\ [Queue!Next]_<<Chain(list), list.current>>
<1>1. ASSUME list' = list, live' = live
      PROVE  Ordered' /\ [Queue!Next]_<<Chain(list), list.current>>
  BY <1>1 DEF Ordered
<1>2. ASSUME NEW p \in Procs, Queue!Start(p) \/ Queue!End(p) PROVE Queue!Next
  BY <1>2 DEF Queue!Next
<1>3. CASE UNCHANGED vars BY <1>1, <1>3 DEF vars
<1>4. ASSUME NEW p \in Procs, BootOk(p) PROVE Ordered' /\ Queue!Next
  <2>1. live = {} /\ process_load_switch(p, task_insert(list, p)) BY <1>4 DEF BootOk, IInv
  <2> QED BY <1>2, <2>1, LoadSimulates
<1>5. ASSUME NEW p \in Procs, StartProgram(p) PROVE Ordered' /\ Queue!Next
  <2>1. p \notin live /\ process_load_switch(p, task_insert(list, p))
    BY <1>5 DEF StartProgram, Loadable
  <2> QED BY <1>2, <2>1, LoadSimulates
<1>6. ASSUME NEW p \in Procs, StartWild(p) PROVE list' = list /\ live' = live
  BY <1>6 DEF StartWild
<1>7. ASSUME NEW p \in Procs, NEW f, StartFails(p, f) PROVE list' = list /\ live' = live
  <2>1. p \notin live /\ LoadFails(p, f) BY <1>7 DEF StartFails, Loadable
  <2> QED BY <2>1, LoadFailsOK
<1>8. ASSUME NEW p \in Procs, NEW f, BootFails(p, f) PROVE list' = list /\ live' = live
  <2>1. p \notin live /\ LoadFails(p, f) BY <1>8 DEF BootFails, IInv
  <2> QED BY <2>1, LoadFailsOK
<1>9. ASSUME mode = "user", EndProcess(list.current) PROVE Ordered' /\ Queue!Next
  <2>1. list.current \in Procs BY <1>9 DEF IInv, UserBound, TypeOK
  <2> QED BY <1>2, <1>9, <2>1, EndSimulates
<1>10. CASE isr80h_command9_exit BY <1>9, <1>10 DEF isr80h_command9_exit
<1>11. CASE idt_handle_exception
  <2>1. current_process = list.current BY <1>11 DEF idt_handle_exception, IInv, UserBound
  <2> QED BY <1>9, <1>11, <2>1 DEF idt_handle_exception
<1>12. CASE isr80h_handler BY <1>1, <1>12 DEF isr80h_handler
<1>13. CASE Halted BY <1>3, <1>13 DEF Halted
<1>14. ASSUME NEW p \in Procs, isr80h_command6_process_load_start(p) PROVE Ordered' /\ Queue!Next
  BY <1>5, <1>14 DEF isr80h_command6_process_load_start
<1>15. ASSUME NEW p \in Procs, isr80h_command7_invake_system_command(p) PROVE Ordered' /\ Queue!Next
  BY <1>5, <1>15 DEF isr80h_command7_invake_system_command
<1> QED BY <1>1, <1>3, <1>4, <1>6, <1>7, <1>8, <1>10, <1>11, <1>12, <1>13, <1>14, <1>15 DEF Next

(* The empty list is the empty queue.                                      *)
LEMMA InitSimulates == Init => Ordered /\ Queue!Init
<1> SUFFICES ASSUME Init PROVE Ordered /\ Queue!Init OBVIOUS
<1>1. Enumerates(<<>>, list, live)
  <2>1. list.head = NULL /\ live = {} BY DEF Init
  <2> QED BY <2>1 DEF Enumerates
<1> DEFINE none == <<>>
<1>2. Chain(list) = none
  <2>1. Enumerates(none, list, live) BY <1>1
  <2> HIDE DEF none
  <2> QED BY <2>1, ChainIs
<1>3. list.current = NULL BY DEF Init
<1> QED BY <1>1, <1>2, <1>3 DEF Ordered, Queue!Init

(* For every number of processes and slots, and whatever loads fail, the   *)
(* links of task.c are a queue in the order of the loads: task_insert      *)
(* appends and the new task runs, task_free takes the running task out     *)
(* where it stands and the next one runs, the first after the last, and    *)
(* everything else leaves the order and the running task as they are.      *)
THEOREM SchedImplements == Spec => ImplementsRunQueue
<1>1. Init => Ordered /\ Queue!Init BY InitSimulates
<1>2. IInv /\ [Next]_vars => IInv' BY StepIInv
<1>3. IInv /\ Ordered /\ [Next]_vars => Ordered' /\ [Queue!Next]_<<Chain(list), list.current>>
  BY StepSimulates
<1> QED BY <1>1, <1>2, <1>3, InitIInv, PTL DEF Spec, ImplementsRunQueue, Queue!Spec

-----------------------------------------------------------------------------
(* The registers a program may rely on *)

Preserved == {"edi", "esi", "ebx"}

Words == (Procs \X GeneralRegisters) \cup {Junk, Kernel, Result}

(* Every process has its own values of these registers where they are      *)
(* kept: in its task, and in the processor while it runs.                  *)
RegisterInv ==
  /\ saved \in [Procs -> [GeneralRegisters -> Words]]
  /\ general \in [GeneralRegisters -> Words]
  /\ \A p \in Procs, r \in Preserved : saved[p][r] = Own(p)[r]
  /\ CalleeSaved

(* What a process finds in these registers when task_return resumes it.    *)
LEMMA RestoreOK ==
  ASSUME NEW regs \in [GeneralRegisters -> Words]
  PROVE  /\ \A r \in Preserved : restore_general_purpose_registers(regs)[r] = regs[r]
         /\ restore_general_purpose_registers(regs) \in [GeneralRegisters -> Words]
<1>1. Place("edi") = 1 /\ Place("esi") = 2 /\ Place("ebx") = 4
  <2>1. 1 \in 1 .. Len(LoadOrder) /\ 2 \in 1 .. Len(LoadOrder) /\ 4 \in 1 .. Len(LoadOrder)
        /\ Len(LoadOrder) = 7
    BY DEF LoadOrder
  <2>2. \A n \in 1 .. 7 : /\ LoadOrder[n] = "edi" <=> n = 1
                          /\ LoadOrder[n] = "esi" <=> n = 2
                          /\ LoadOrder[n] = "ebx" <=> n = 4
    BY DEF LoadOrder
  <2> QED BY <2>1, <2>2 DEF Place
<1>2. \A r \in Preserved : r \in GeneralRegisters /\ r # "ebp" /\ Place(r) <= Place("ebx")
  BY <1>1 DEF Preserved, GeneralRegisters
<1>3. Junk \in Words /\ Kernel \in Words BY DEF Words
<1> QED BY <1>2, <1>3 DEF restore_general_purpose_registers

(* The registers kept in the tasks after an entry, once the task of q is   *)
(* that of a new process: nobody else's have changed.                      *)
LEMMA SaveOK ==
  ASSUME RegisterInv, mode = "user", list.current \in Procs
  PROVE  /\ task_save_state \in [Procs -> [GeneralRegisters -> Words]]
         /\ \A p \in Procs, r \in Preserved : task_save_state[p][r] = Own(p)[r]
         /\ \A q \in Procs :
              LET s == [task_save_state EXCEPT ![q] = Own(q)]
              IN  /\ s \in [Procs -> [GeneralRegisters -> Words]]
                  /\ \A p \in Procs, r \in Preserved : s[p][r] = Own(p)[r]
<1>1. saved \in [Procs -> [GeneralRegisters -> Words]] /\ general \in [GeneralRegisters -> Words]
  BY DEF RegisterInv
<1>2. /\ \A p \in Procs, r \in Preserved : saved[p][r] = Own(p)[r]
      /\ \A r \in Preserved : general[r] = Own(list.current)[r]
  BY DEF RegisterInv, CalleeSaved, Preserved
<1>3. \A p \in Procs : task_save_state[p] = IF p = list.current THEN general ELSE saved[p]
  BY <1>1 DEF task_save_state
<1>4. task_save_state \in [Procs -> [GeneralRegisters -> Words]]
  BY <1>1 DEF task_save_state
<1>5. \A p \in Procs, r \in Preserved : task_save_state[p][r] = Own(p)[r]
  BY <1>2, <1>3
<1>6. \A q \in Procs : Own(q) \in [GeneralRegisters -> Words] BY DEF Own, Words
<1>7. ASSUME NEW q \in Procs, NEW s, s = [task_save_state EXCEPT ![q] = Own(q)]
      PROVE  /\ s \in [Procs -> [GeneralRegisters -> Words]]
             /\ \A p \in Procs, r \in Preserved : s[p][r] = Own(p)[r]
  BY <1>4, <1>5, <1>6, <1>7
<1> QED BY <1>4, <1>5, <1>7

(* task_return to the process that is current after the step.              *)
LEMMA ResumeOK ==
  ASSUME RegisterInv, saved' \in [Procs -> [GeneralRegisters -> Words]],
         \A p \in Procs, r \in Preserved : saved'[p][r] = Own(p)[r],
         mode' = "user" => list'.current \in Procs, Resume
  PROVE  RegisterInv'
<1>1. CASE mode' = "user"
  <2>1. PICK q \in Procs : q = list'.current BY <1>1
  <2>2. saved'[q] \in [GeneralRegisters -> Words] /\ general' = restore_general_purpose_registers(saved'[q])
    BY <1>1, <2>1 DEF Resume
  <2>3. general' \in [GeneralRegisters -> Words] /\ \A r \in Preserved : general'[r] = saved'[q][r]
    BY <2>2, RestoreOK
  <2>4. \A r \in Preserved : general'[r] = Own(list'.current)[r] BY <2>1, <2>3
  <2> QED BY <2>3, <2>4 DEF RegisterInv, CalleeSaved, Preserved
<1>2. CASE mode' # "user" BY <1>2 DEF Resume, RegisterInv, CalleeSaved
<1> QED BY <1>1, <1>2

(* A return through the wrapper to the process that entered.               *)
LEMMA PopOK ==
  ASSUME RegisterInv, saved' \in [Procs -> [GeneralRegisters -> Words]],
         \A p \in Procs, r \in Preserved : saved'[p][r] = Own(p)[r],
         mode = "user", list'.current = list.current, PopAll \/ PopResult
  PROVE  RegisterInv'
<1>1. general \in [GeneralRegisters -> Words] /\ Result \in Words BY DEF RegisterInv, Words
<1>2. /\ general' \in [GeneralRegisters -> Words]
      /\ \A r \in Preserved : general'[r] = general[r]
  BY <1>1 DEF PopAll, PopResult, Preserved, GeneralRegisters
<1>3. \A r \in Preserved : general'[r] = Own(list'.current)[r]
  BY <1>2 DEF RegisterInv, CalleeSaved, Preserved
<1> QED BY <1>2, <1>3 DEF RegisterInv, CalleeSaved, Preserved

(* The registers' steps are steps of the scheduler.                        *)
LEMMA RNextIsNext == [RNext]_rvars => [Next]_vars
BY DEF RNext, RBoot, RStart, REnd, RStartFails, RSystemCall, RInterrupt, RHalt, Next, rvars

LEMMA StepRegisters ==
  ASSUME "argv" \notin Failures, IInv, RegisterInv, [RNext]_rvars
  PROVE  RegisterInv'
<1>0. IInv' BY RNextIsNext, StepIInv
<1>1. /\ mode = "user" => list.current \in Procs
      /\ mode' = "user" => list'.current \in Procs
  BY <1>0 DEF IInv, UserBound, TypeOK
<1>2. CASE UNCHANGED rvars BY <1>2 DEF rvars, vars, RegisterInv, CalleeSaved
<1>3. CASE RBoot
  <2>1. saved' = saved /\ Resume BY <1>3 DEF RBoot
  <2> QED BY <1>1, <2>1, ResumeOK DEF RegisterInv
<1>4. CASE RStart
  <2>1. PICK p \in Procs :
          /\ \/ isr80h_command6_process_load_start(p)
             \/ isr80h_command7_invake_system_command(p)
          /\ saved' = [task_save_state EXCEPT ![p] = Own(p)]
          /\ IF task_return(p, registers') THEN Resume ELSE PopResult
    BY <1>4 DEF RStart
  <2>2. StartProgram(p) /\ task_return(p, registers')
    BY <2>1 DEF isr80h_command6_process_load_start, isr80h_command7_invake_system_command
  <2>3. Resume BY <2>1, <2>2
  <2>4. mode = "user" BY <2>2 DEF StartProgram
  <2>5. /\ saved' \in [Procs -> [GeneralRegisters -> Words]]
        /\ \A q \in Procs, r \in Preserved : saved'[q][r] = Own(q)[r]
    BY <1>1, <2>1, <2>4, SaveOK
  <2> QED BY <1>1, <2>3, <2>5, ResumeOK
<1>5. CASE REnd
  <2>1. mode = "user" /\ Resume /\ saved' = [task_save_state EXCEPT ![list.current] = Own(list.current)]
    BY <1>5 DEF REnd, isr80h_command9_exit, idt_handle_exception
  <2>2. /\ saved' \in [Procs -> [GeneralRegisters -> Words]]
        /\ \A q \in Procs, r \in Preserved : saved'[q][r] = Own(q)[r]
    BY <1>1, <2>1, SaveOK
  <2> QED BY <1>1, <2>1, <2>2, ResumeOK
<1>6. CASE RStartFails
  <2>1. PICK p \in Procs, f \in Failures : StartFails(p, f) BY <1>6 DEF RStartFails
  <2>2. mode = "user" /\ p \in Procs \ live /\ LoadFails(p, f) BY <2>1 DEF StartFails, Loadable
  <2>3. list' = list BY <2>2, LoadFailsOK
  <2>4. saved' = task_save_state /\ PopResult BY <1>6 DEF RStartFails
  <2> QED BY <1>1, <2>2, <2>3, <2>4, SaveOK, PopOK
<1>7. CASE RSystemCall \/ RInterrupt
  <2>1. /\ mode = "user" /\ list' = list /\ saved' = task_save_state /\ (PopAll \/ PopResult)
    BY <1>7 DEF RSystemCall, RInterrupt, isr80h_handler
  <2> QED BY <1>1, <2>1, SaveOK, PopOK
<1>8. CASE RHalt
  <2>1. saved' = saved /\ general' = general BY <1>8 DEF RHalt
  <2>2. mode' = "user" => FALSE
    BY <1>8 DEF RHalt, StartWild, BootFails, Halted, vars
  <2> QED BY <2>1, <2>2 DEF RegisterInv, CalleeSaved
<1> QED BY <1>2, <1>3, <1>4, <1>5, <1>6, <1>7, <1>8 DEF RNext

(* As long as process_inject_argument does not fail, edi, esi and ebx of a *)
(* program survive its system calls, interrupts and the programs that run  *)
(* in between: pushad, task_save_state and the restoring of task.asm, with *)
(* its load through ebx, lose none of the three.                           *)
THEOREM RegistersCalleeSaved ==
  ASSUME "argv" \notin Failures
  PROVE  RSpec => []CalleeSaved
<1>1. RInit => IInv /\ RegisterInv
  <2> SUFFICES ASSUME RInit PROVE IInv /\ RegisterInv OBVIOUS
  <2>1. IInv /\ mode = "boot" BY InitIInv DEF RInit, Init
  <2>2. saved = [p \in Procs |-> Own(p)] /\ general = [r \in GeneralRegisters |-> Kernel]
    BY DEF RInit
  <2>3. \A p \in Procs : Own(p) \in [GeneralRegisters -> Words] BY DEF Own, Words
  <2>4. Kernel \in Words BY DEF Words
  <2> QED BY <2>1, <2>2, <2>3, <2>4 DEF RegisterInv, CalleeSaved
<1>2. IInv /\ RegisterInv /\ [RNext]_rvars => IInv' /\ RegisterInv'
  BY RNextIsNext, StepIInv, StepRegisters
<1>3. RegisterInv => CalleeSaved BY DEF RegisterInv
<1> QED BY <1>1, <1>2, <1>3, PTL DEF RSpec
=============================================================================
