------------------------- MODULE ProgramLoadProofs --------------------------
(***************************************************************************)
(* The releases of the program loader (fs/file.c, fs/elfloader.c,          *)
(* kernel/sched.c), for every size of the heap and of the descriptor       *)
(* table.                                                                  *)
(*                                                                         *)
(* OwnedOnce does not say which locals are set at which step, and the      *)
(* error paths free whatever the locals hold.  The invariant adds that     *)
(* (LoadAt), and that a descriptor is open for each ELF file loaded and    *)
(* for no other file than the one being loaded (Counted).  The holders are *)
(* also apart from what fopen forgot, which stays allocated.               *)
(***************************************************************************)
EXTENDS ProgramLoad, FiniteSetTheorems, NaturalsInduction, WellFoundedInduction, TLAPS

ObjectOrNull == Objects \cup {NULL}

Types ==
  /\ live \subseteq Objects /\ forgotten \subseteq live
  /\ file_descriptors \in [Fds -> [desc : Objects, private : Objects] \cup {Empty}]
  /\ \A p \in programs : p.data \subseteq Objects
  /\ loc \in [elf_file : ObjectOrNull, memory : ObjectOrNull, kept : ObjectOrNull,
              fd : {0} \cup Fds]
  /\ elf_loads \in Nat

(* Which locals are set at which step.                                     *)
LoadAt ==
  /\ pc \in {"idle", "elf_open", "elf_close", "elf_stat", "elf_alloc", "elf_read", "elf_process",
             "bin_open", "bin_close", "bin_stat", "bin_alloc", "bin_read"}
  /\ loc.elf_file # NULL <=>
       pc \in {"elf_open", "elf_close", "elf_stat", "elf_alloc", "elf_read", "elf_process"}
  /\ loc.memory # NULL <=> pc \in {"elf_read", "elf_process", "bin_read"}
  /\ loc.kept = IF pc = "elf_process" THEN loc.memory ELSE NULL
  /\ loc.fd = 0 <=> pc \in {"idle", "elf_open", "elf_close", "bin_open", "bin_close"}
  /\ pc \in {"elf_alloc", "elf_read", "elf_process", "bin_alloc", "bin_read"} =>
       loc.fd \in OpenFds
  /\ loc.memory # NULL => loc.memory # loc.elf_file

(* What a slot of the table holds; nothing when it is empty.               *)
Hold(table, fd) == {table[fd].desc, table[fd].private} \ {NULL}

(* The slots, the processes and the load hold different allocated objects. *)
Apart(table, progs, load, used) ==
  /\ load \subseteq used
  /\ \A fd \in Fds : Hold(table, fd) \subseteq used /\ Hold(table, fd) \cap load = {}
  /\ \A fd, other \in Fds : fd # other => Hold(table, fd) \cap Hold(table, other) = {}
  /\ \A p \in progs : p.data \subseteq used /\ p.data \cap load = {}
  /\ \A p, other \in progs : p # other => p.data \cap other.data = {}
  /\ \A fd \in Fds, p \in progs : Hold(table, fd) \cap p.data = {}

Separate(table) ==
  \A fd \in Fds : table[fd] # Empty => table[fd].desc # table[fd].private

Counted == Cardinality(OpenFds \ {loc.fd}) = elf_loads

LInv ==
  /\ Types /\ LoadAt
  /\ Apart(file_descriptors, programs, LoadData, live \ forgotten)
  /\ Separate(file_descriptors)
  /\ Counted
  /\ ~ stray
-----------------------------------------------------------------------------
(* What is allocated, and ownership as it changes hands *)

LEMMA LowestOK ==
  ASSUME NEW S, S \subseteq Nat, S # {}
  PROVE  Lowest(S) \in S
<1> DEFINE R == OpToRel(<, Nat)
<1>1. IsWellFoundedOn(R, Nat) BY NatLessThanWellFounded, Zenon
<1>2. \A x, y \in Nat : x < y => <<x, y>> \in R BY DEF OpToRel
<1> HIDE DEF R
<1>3. PICK m \in S : \A n \in S : ~(<<n, m>> \in R) BY <1>1, WFMin, Zenon
<1>4. \A n \in S : m <= n
  <2> TAKE n \in S
  <2>1. m \in Nat /\ n \in Nat OBVIOUS
  <2>2. ~(n < m) BY <1>2, <1>3, <2>1
  <2> QED BY <2>1, <2>2
<1> QED BY <1>3, <1>4 DEF Lowest

LEMMA kzallocOK ==
  ASSUME NEW used, NEW o \in kzalloc(used)
  PROVE  o = NULL \/ o \in Objects \ used
<1>1. CASE Objects \subseteq used BY <1>1 DEF kzalloc
<1>2. CASE ~(Objects \subseteq used)
  <2>1. Objects \ used \subseteq Nat /\ Objects \ used # {} BY <1>2, LoadAssumption DEF Objects
  <2>2. Lowest(Objects \ used) \in Objects \ used BY <2>1, LowestOK
  <2> QED BY <1>2, <2>2 DEF kzalloc
<1> QED BY <1>1, <1>2

LEMMA NullOK == NULL \notin Objects /\ 0 \notin Fds
BY LoadAssumption DEF NULL, Objects, Fds

(* What fopen returns when it does not fail.                               *)
LEMMA fopenOK ==
  ASSUME NEW r \in fopen, r.fd # 0
  PROVE  /\ r.fd \in FreeFds
         /\ r.left \in Objects \ live
         /\ r.private \in Objects \ (live \cup {r.left})
         /\ r.desc = NULL \/ r.desc \in Objects \ (live \cup {r.left, r.private})
<1>1. /\ r.fd \in {Lowest(fd) : fd \in {FreeFds} \ {{}}} /\ r.left \in kzalloc(live)
      /\ r.left # NULL
      /\ r.private \in Objects /\ r.private \in kzalloc(live \cup {r.left})
      /\ r.desc \in kzalloc(live \cup {r.left, r.private})
  BY DEF fopen
<1>2. FreeFds # {} /\ r.fd = Lowest(FreeFds) BY <1>1
<1>3. FreeFds \subseteq Nat BY LoadAssumption DEF FreeFds, Fds
<1>4. r.fd \in FreeFds BY <1>2, <1>3, LowestOK
<1> QED BY <1>1, <1>4, kzallocOK, NullOK

(* What a failed fopen leaves.                                             *)
LEMMA fopenFails ==
  ASSUME NEW r \in fopen, r.fd = 0
  PROVE  r.left = NULL \/ r.left \in Objects \ live
<1>1. r.left \in kzalloc(live) BY DEF fopen
<1> QED BY <1>1, kzallocOK

(* Holders that give things up stay apart, when what they keep stays       *)
(* allocated.                                                              *)
LEMMA ApartLess ==
  ASSUME NEW table, NEW progs, NEW load, NEW used, Apart(table, progs, load, used),
         NEW t2, NEW p2, NEW l2, NEW u2,
         \A fd \in Fds : Hold(t2, fd) \subseteq Hold(table, fd) /\ Hold(t2, fd) \subseteq u2,
         p2 \subseteq progs, \A p \in p2 : p.data \subseteq u2,
         l2 \subseteq load, l2 \subseteq u2
  PROVE  Apart(t2, p2, l2, u2)
BY DEF Apart

(* The load takes a new object.                                            *)
LEMMA ApartTake ==
  ASSUME NEW table, NEW progs, NEW load, NEW used, Apart(table, progs, load, used),
         NEW o, o \notin used
  PROVE  Apart(table, progs, load \cup {o}, used \cup {o})
BY DEF Apart

(* The load hands all that it holds to a process.                          *)
LEMMA ApartHandOver ==
  ASSUME NEW table, NEW progs, NEW load, NEW used, Apart(table, progs, load, used),
         NEW q, q.data = load
  PROVE  Apart(table, progs \cup {q}, {}, used)
BY DEF Apart

(* A slot is taken for objects nobody has.                                 *)
LEMMA ApartOpen ==
  ASSUME NEW table \in [Fds -> [desc : Objects, private : Objects] \cup {Empty}],
         NEW progs, NEW load, NEW used, Apart(table, progs, load, used),
         NEW fd \in Fds, NEW d, NEW e, d \notin used, e \notin used,
         NEW u2, used \subseteq u2, {d, e} \subseteq u2
  PROVE  Apart([table EXCEPT ![fd] = [desc |-> d, private |-> e]], progs, load, u2)
<1> DEFINE t2 == [table EXCEPT ![fd] = [desc |-> d, private |-> e]]
<1>1. Hold(t2, fd) \subseteq {d, e} BY DEF Hold
<1>2. \A other \in Fds \ {fd} : Hold(t2, other) = Hold(table, other) BY DEF Hold
<1> HIDE DEF t2
<1>3. \A other \in Fds : \/ other = fd /\ Hold(t2, other) \subseteq {d, e}
                         \/ other # fd /\ Hold(t2, other) = Hold(table, other)
  BY <1>1, <1>2
<1>4. /\ load \subseteq u2
      /\ \A o \in Fds : Hold(t2, o) \subseteq u2 /\ Hold(t2, o) \cap load = {}
      /\ \A p \in progs : p.data \subseteq u2 /\ p.data \cap load = {}
      /\ \A p, other \in progs : p # other => p.data \cap other.data = {}
  BY <1>3 DEF Apart
<1>5. \A o, other \in Fds : o # other => Hold(t2, o) \cap Hold(t2, other) = {}
  BY <1>3 DEF Apart
<1>6. \A o \in Fds, p \in progs : Hold(t2, o) \cap p.data = {}
  BY <1>3 DEF Apart
<1> QED BY <1>4, <1>5, <1>6 DEF Apart, t2

(* OwnedOnce is what the invariant says of the objects.                    *)
LEMMA LInvOwnedOnce == LInv => OwnedOnce
<1> SUFFICES ASSUME LInv PROVE OwnedOnce OBVIOUS
<1>1. Types /\ Apart(file_descriptors, programs, LoadData, live \ forgotten) /\ Separate(file_descriptors)
  BY DEF LInv
<1>2. ASSUME NEW fd \in OpenFds
      PROVE  /\ fd \in Fds /\ SlotData(fd) = Hold(file_descriptors, fd)
             /\ file_descriptors[fd].desc \in Objects /\ file_descriptors[fd].private \in Objects
             /\ file_descriptors[fd].desc # file_descriptors[fd].private
  <2>1. fd \in Fds /\ file_descriptors[fd] # Empty BY <1>2 DEF OpenFds, FreeFds
  <2>2. file_descriptors[fd] \in [desc : Objects, private : Objects] BY <1>1, <2>1 DEF Types
  <2> QED BY <1>1, <2>1, <2>2, NullOK DEF SlotData, Hold, Separate
<1>3. TypeOK BY <1>1, <1>2 DEF Types, TypeOK
<1>4. Owned \subseteq live \ forgotten
  <2>1. UNION {SlotData(fd) : fd \in OpenFds} \subseteq live \ forgotten BY <1>1, <1>2 DEF Apart
  <2>2. UNION {p.data : p \in programs} \subseteq live \ forgotten BY <1>1 DEF Apart
  <2>3. LoadData \subseteq live \ forgotten BY <1>1 DEF Apart
  <2> QED BY <2>1, <2>2, <2>3 DEF Owned
<1>5. forgotten \subseteq live BY <1>1 DEF Types
<1> HIDE DEF LInv
<1> QED BY <1>1, <1>2, <1>3, <1>4, <1>5 DEF OwnedOnce, Apart
-----------------------------------------------------------------------------
(* The steps *)

LEMMA InitLInv == Init => LInv
<1> SUFFICES ASSUME Init PROVE LInv OBVIOUS
<1>1. Types BY NullOK DEF Init, Types, NoLocals, Empty, ObjectOrNull
<1>2. OpenFds = {} BY DEF Init, OpenFds, FreeFds
<1>3. Counted BY <1>2, FS_EmptySet DEF Init, Counted
<1>4. LoadData = {} BY DEF Init, LoadData, NoLocals
<1>5. \A fd \in Fds : Hold(file_descriptors, fd) = {} BY DEF Init, Hold, Empty
<1>6. Apart(file_descriptors, programs, LoadData, live \ forgotten) BY <1>4, <1>5 DEF Init, Apart
<1>7. Separate(file_descriptors) BY DEF Init, Separate
<1>8. LoadAt BY DEF Init, LoadAt, NoLocals
<1> QED BY <1>1, <1>3, <1>6, <1>7, <1>8 DEF LInv, Init

(* fclose of the file of the load: its slot is emptied and what it held is *)
(* freed, and no other slot changes.                                       *)
LEMMA fcloseOK ==
  ASSUME LInv, NEW table, table = fclose(loc.fd).table
  PROVE  /\ table \in [Fds -> [desc : Objects, private : Objects] \cup {Empty}]
         /\ Separate(table)
         /\ \A fd \in Fds : /\ fd = loc.fd => table[fd] = Empty /\ Hold(table, fd) = {}
                            /\ fd # loc.fd => table[fd] = file_descriptors[fd]
                                              /\ Hold(table, fd) = Hold(file_descriptors, fd)
         /\ \/ loc.fd \notin Fds /\ fclose(loc.fd).freed = {}
            \/ loc.fd \in Fds /\ fclose(loc.fd).freed \ {NULL} = Hold(file_descriptors, loc.fd)
<1>1. Types /\ Separate(file_descriptors) BY DEF LInv
<1>2. file_descriptors \in [Fds -> [desc : Objects, private : Objects] \cup {Empty}] BY <1>1 DEF Types
<1>3. Empty.desc = NULL /\ Empty.private = NULL BY DEF Empty
<1>4. CASE file_get_descriptor(loc.fd) = Empty
  <2>1. fclose(loc.fd) = [table |-> file_descriptors, freed |-> {}] BY <1>4 DEF fclose
  <2>2. loc.fd \in Fds => file_descriptors[loc.fd] = Empty BY <1>4 DEF file_get_descriptor
  <2>3. table = file_descriptors /\ fclose(loc.fd).freed = {} BY <2>1
  <2> QED BY <1>1, <1>2, <1>3, <2>2, <2>3 DEF Hold
<1>5. CASE file_get_descriptor(loc.fd) # Empty
  <2>1. loc.fd \in Fds BY <1>5 DEF file_get_descriptor
  <2>2. table = [file_descriptors EXCEPT ![loc.fd] = Empty]
        /\ fclose(loc.fd).freed = {file_descriptors[loc.fd].desc, file_descriptors[loc.fd].private}
    BY <1>5 DEF fclose
  <2> QED BY <1>1, <1>2, <1>3, <2>1, <2>2 DEF Hold, Separate
<1> QED BY <1>4, <1>5

(* The load ends, or starts over as a flat binary: the file is closed and  *)
(* some of what the load holds is freed.                                   *)
LEMMA GiveUpOK ==
  ASSUME LInv, NEW mine, mine \ {NULL} \subseteq LoadData,
         file_descriptors' = fclose(loc.fd).table,
         Frees(fclose(loc.fd).freed, mine) \/ Frees(mine, fclose(loc.fd).freed),
         pc' \in {"idle", "bin_open"}, loc' = NoLocals,
         UNCHANGED <<programs, forgotten, elf_loads>>
  PROVE  LInv'
<1> DEFINE a == fclose(loc.fd).freed \ {NULL}
           b == mine \ {NULL}
           t == file_descriptors'
<1>1. /\ Types /\ Apart(file_descriptors, programs, LoadData, live \ forgotten) /\ Counted /\ ~ stray
  BY DEF LInv
<1>2. /\ t \in [Fds -> [desc : Objects, private : Objects] \cup {Empty}]
      /\ Separate(t)
      /\ \A fd \in Fds : /\ fd = loc.fd => t[fd] = Empty /\ Hold(t, fd) = {}
                         /\ fd # loc.fd => t[fd] = file_descriptors[fd]
                                           /\ Hold(t, fd) = Hold(file_descriptors, fd)
      /\ \/ loc.fd \notin Fds /\ a = {}
         \/ loc.fd \in Fds /\ a = Hold(file_descriptors, loc.fd)
  BY fcloseOK
<1>3. a \subseteq live \ forgotten /\ b \subseteq live \ forgotten /\ a \cap b = {}
  BY <1>1, <1>2 DEF Apart
<1>4. live' = live \ (a \cup b) /\ ~ stray' BY <1>1, <1>3 DEF Frees
<1> HIDE DEF a, b, t
<1>5. Types'
  <2>1. NoLocals \in [elf_file : ObjectOrNull, memory : ObjectOrNull, kept : ObjectOrNull,
                      fd : {0} \cup Fds]
    BY DEF NoLocals, ObjectOrNull
  <2> QED BY <1>1, <1>2, <1>3, <1>4, <2>1 DEF Types, t
<1>6. LoadAt' BY DEF LoadAt, NoLocals
<1>7. LoadData' = {} BY DEF LoadData, NoLocals
<1>8. Apart(t, programs, {}, live' \ forgotten)
  <2>1. \A fd \in Fds : Hold(t, fd) \subseteq live' \ forgotten
    <3> TAKE fd \in Fds
    <3>1. CASE fd = loc.fd BY <1>2, <3>1
    <3>2. CASE fd # loc.fd
      <4>1. Hold(t, fd) = Hold(file_descriptors, fd) /\ Hold(t, fd) \subseteq live \ forgotten
        BY <1>1, <1>2, <3>2 DEF Apart
      <4>2. Hold(file_descriptors, fd) \cap a = {} BY <1>1, <1>2, <3>2 DEF Apart
      <4>3. Hold(file_descriptors, fd) \cap b = {} BY <1>1 DEF Apart, b
      <4> QED BY <1>4, <4>1, <4>2, <4>3
    <3> QED BY <3>1, <3>2
  <2>2. \A p \in programs : p.data \subseteq live' \ forgotten
    <3> TAKE p \in programs
    <3>1. p.data \subseteq live \ forgotten /\ p.data \cap b = {} BY <1>1 DEF Apart, b
    <3>2. p.data \cap a = {} BY <1>1, <1>2 DEF Apart
    <3> QED BY <1>4, <3>1, <3>2
  <2>3. \A fd \in Fds : Hold(t, fd) \subseteq Hold(file_descriptors, fd) BY <1>2
  <2> QED BY <1>1, <2>1, <2>2, <2>3, ApartLess
<1>9. Counted'
  <2>1. OpenFds' = OpenFds \ {loc.fd} BY <1>2 DEF OpenFds, FreeFds, t
  <2>2. loc'.fd = 0 /\ 0 \notin OpenFds' BY NullOK DEF NoLocals, OpenFds
  <2>3. OpenFds' \ {loc'.fd} = OpenFds \ {loc.fd} BY <2>1, <2>2
  <2> QED BY <1>1, <2>3 DEF Counted
<1> QED BY <1>2, <1>4, <1>5, <1>6, <1>7, <1>8, <1>9 DEF LInv, t

LEMMA CloseOutOK ==
  ASSUME LInv, NEW label \in {"idle", "bin_open"}, CloseOut(label)
  PROVE  LInv'
<1>1. {loc.elf_file, loc.kept} \ {NULL} \subseteq LoadData BY DEF LoadData
<1> QED BY <1>1, GiveUpOK DEF CloseOut, Goto

LEMMA BinFailsOK ==
  ASSUME LInv, BinFails
  PROVE  LInv'
<1>1. {loc.memory} \ {NULL} \subseteq LoadData BY DEF LoadData
<1> QED BY <1>1, GiveUpOK DEF BinFails, Goto

(* The file of the load is open.                                           *)
LEMMA OpenedOK ==
  ASSUME LInv, NEW r \in fopen, r.fd # 0, Opened(r),
         \/ pc = "elf_open" /\ pc' = "elf_stat"
         \/ pc = "bin_open" /\ pc' = "bin_stat",
         loc' = [loc EXCEPT !.fd = r.fd], UNCHANGED <<programs, elf_loads>>
  PROVE  LInv'
<1>1. /\ Types /\ LoadAt /\ Apart(file_descriptors, programs, LoadData, live \ forgotten)
      /\ Separate(file_descriptors) /\ Counted /\ ~ stray
  BY DEF LInv
<1>2. /\ r.fd \in Fds /\ file_descriptors[r.fd] = Empty
      /\ r.left \in Objects \ live
      /\ r.private \in Objects \ (live \cup {r.left})
      /\ r.desc = NULL \/ r.desc \in Objects \ (live \cup {r.left, r.private})
  BY fopenOK DEF FreeFds
<1>3. /\ live' = live \cup ({r.left, r.private, r.desc} \ {NULL})
      /\ file_descriptors' =
           IF r.desc = NULL THEN file_descriptors
           ELSE [file_descriptors EXCEPT ![r.fd] = [desc |-> r.desc, private |-> r.private]]
      /\ forgotten' = forgotten \cup {r.left}
      /\ stray' = stray
  BY DEF Opened
<1>4. loc.fd = 0 BY <1>1 DEF LoadAt
<1>5. /\ loc' \in [elf_file : ObjectOrNull, memory : ObjectOrNull, kept : ObjectOrNull,
                   fd : {0} \cup Fds]
      /\ loc'.elf_file = loc.elf_file /\ loc'.memory = loc.memory /\ loc'.kept = loc.kept
      /\ loc'.fd = r.fd
  BY <1>1, <1>2 DEF Types
<1>6. /\ file_descriptors \in [Fds -> [desc : Objects, private : Objects] \cup {Empty}]
      /\ file_descriptors' \in [Fds -> [desc : Objects, private : Objects] \cup {Empty}]
  BY <1>1, <1>2, <1>3 DEF Types
<1>7. Types'
  <2>1. live' \subseteq Objects /\ forgotten' \subseteq live' BY <1>1, <1>2, <1>3, NullOK DEF Types
  <2> QED BY <1>1, <1>5, <1>6, <2>1 DEF Types
<1>8. LoadData' = LoadData BY <1>5 DEF LoadData
<1>9. LoadAt' BY <1>1, <1>2, <1>5, NullOK DEF LoadAt
<1>10. Apart(file_descriptors', programs, LoadData, live' \ forgotten')
  <2>0. live \ forgotten \subseteq live' \ forgotten' BY <1>2, <1>3
  <2>1. CASE r.desc = NULL
    BY <1>1, <1>3, <2>0, <2>1, ApartLess DEF Apart
  <2>2. CASE r.desc # NULL
    <3>0. forgotten \subseteq live BY <1>1 DEF Types
    <3>1. {r.desc, r.private} \subseteq live' \ forgotten' BY <1>2, <1>3, <2>2, <3>0, NullOK
    <3>2. r.desc \notin live \ forgotten /\ r.private \notin live \ forgotten BY <1>2, <2>2
    <3> QED BY <1>1, <1>2, <1>3, <1>6, <2>0, <2>2, <3>1, <3>2, ApartOpen
  <2> QED BY <2>1, <2>2
<1>11. Separate(file_descriptors') BY <1>1, <1>2, <1>3, <1>6 DEF Separate
<1>12. Counted'
  <2>1. \A fd \in Fds \ {r.fd} : file_descriptors'[fd] = file_descriptors[fd] BY <1>3, <1>6
  <2>2. OpenFds' \ {r.fd} = OpenFds BY <1>2, <2>1 DEF OpenFds, FreeFds
  <2>3. OpenFds \ {loc.fd} = OpenFds BY <1>4, NullOK DEF OpenFds
  <2> QED BY <1>1, <1>3, <1>5, <2>2, <2>3 DEF Counted
<1> QED BY <1>1, <1>3, <1>7, <1>8, <1>9, <1>10, <1>11, <1>12 DEF LInv

(* The file could not be opened: the load holds what it held.              *)
LEMMA OpenFailedOK ==
  ASSUME LInv, NEW r \in fopen, r.fd = 0, OpenFailed(r),
         \/ pc = "elf_open" /\ pc' = "elf_close"
         \/ pc = "bin_open" /\ pc' = "bin_close",
         loc' = loc, UNCHANGED <<programs, elf_loads>>
  PROVE  LInv'
<1>1. /\ Types /\ LoadAt /\ Apart(file_descriptors, programs, LoadData, live \ forgotten)
      /\ Separate(file_descriptors) /\ Counted /\ ~ stray
  BY DEF LInv
<1>2. r.left = NULL \/ r.left \in Objects \ live BY fopenFails
<1>3. /\ live' = live \cup ({r.left} \ {NULL}) /\ forgotten' = forgotten \cup ({r.left} \ {NULL})
      /\ file_descriptors' = file_descriptors /\ stray' = stray
  BY DEF OpenFailed
<1>4. forgotten \subseteq live BY <1>1 DEF Types
<1>5. live' \ forgotten' = live \ forgotten /\ forgotten' \subseteq live' /\ live' \subseteq Objects
  BY <1>1, <1>2, <1>3, <1>4 DEF Types
<1>6. Types' BY <1>1, <1>3, <1>5 DEF Types
<1>7. LoadData' = LoadData /\ OpenFds' = OpenFds BY <1>3 DEF LoadData, OpenFds, FreeFds
<1>8. LoadAt' BY <1>1, <1>7 DEF LoadAt
<1>9. Counted' BY <1>1, <1>7 DEF Counted
<1> QED BY <1>1, <1>3, <1>5, <1>6, <1>7, <1>8, <1>9 DEF LInv

(* The load takes memory: the elf_file, or the buffer read into.           *)
LEMMA TakeOK ==
  ASSUME LInv, NEW o \in Objects \ live, live' = live \cup {o},
         \/ pc = "idle" /\ pc' = "elf_open" /\ loc' = [NoLocals EXCEPT !.elf_file = o]
         \/ pc = "elf_alloc" /\ pc' = "elf_read" /\ loc' = [loc EXCEPT !.memory = o]
         \/ pc = "bin_alloc" /\ pc' = "bin_read" /\ loc' = [loc EXCEPT !.memory = o],
         UNCHANGED <<file_descriptors, programs, forgotten, elf_loads, stray>>
  PROVE  LInv'
<1>1. /\ Types /\ LoadAt /\ Apart(file_descriptors, programs, LoadData, live \ forgotten)
      /\ Separate(file_descriptors) /\ Counted /\ ~ stray
  BY DEF LInv
<1>2. o # NULL BY NullOK
<1>3. /\ loc \in [elf_file : ObjectOrNull, memory : ObjectOrNull, kept : ObjectOrNull,
                  fd : {0} \cup Fds]
      /\ o \in ObjectOrNull /\ NULL \in ObjectOrNull
  BY <1>1 DEF Types, ObjectOrNull
<1>4. /\ loc' \in [elf_file : ObjectOrNull, memory : ObjectOrNull, kept : ObjectOrNull,
                   fd : {0} \cup Fds]
      /\ loc'.fd = loc.fd
  BY <1>1, <1>3 DEF LoadAt, NoLocals
<1>5. LoadData' = LoadData \cup {o} BY <1>1, <1>2, <1>3 DEF LoadAt, LoadData, NoLocals
<1>6. OpenFds' = OpenFds BY DEF OpenFds, FreeFds
<1>7. loc.elf_file # o
  <2>1. loc.elf_file # NULL => loc.elf_file \in live BY <1>1 DEF Apart, LoadData
  <2> QED BY <1>2, <2>1
<1>8. LoadAt'
  BY <1>1, <1>2, <1>3, <1>4, <1>6, <1>7 DEF LoadAt, NoLocals
<1>9. Types' BY <1>1, <1>4 DEF Types
<1>10. Apart(file_descriptors, programs, LoadData \cup {o}, live' \ forgotten)
  <2>1. forgotten \subseteq live BY <1>1 DEF Types
  <2>2. live' \ forgotten = (live \ forgotten) \cup {o} BY <2>1
  <2> QED BY <1>1, <2>2, ApartTake
<1>11. Counted' BY <1>1, <1>4, <1>6 DEF Counted
<1> QED BY <1>1, <1>5, <1>8, <1>9, <1>10, <1>11 DEF LInv

(* A step of the load that takes and gives nothing.                        *)
LEMMA GoOnOK ==
  ASSUME LInv, UNCHANGED <<live, file_descriptors, programs, forgotten, elf_loads, stray>>,
         loc' \in [elf_file : ObjectOrNull, memory : ObjectOrNull, kept : ObjectOrNull,
                   fd : {0} \cup Fds],
         loc'.fd = loc.fd, LoadData' = LoadData, LoadAt'
  PROVE  LInv'
<1>1. Types' BY DEF LInv, Types
<1>2. Counted' BY DEF LInv, Counted, OpenFds, FreeFds
<1> QED BY <1>1, <1>2 DEF LInv

LEMMA StatOK ==
  ASSUME LInv, file_get_descriptor(loc.fd) # Empty, loc' = loc,
         UNCHANGED <<live, file_descriptors, programs, forgotten, elf_loads, stray>>,
         \/ pc = "elf_stat" /\ pc' = "elf_alloc"
         \/ pc = "bin_stat" /\ pc' = "bin_alloc"
  PROVE  LInv'
<1>1. loc.fd \in OpenFds' BY DEF file_get_descriptor, OpenFds, FreeFds
<1>2. LoadAt' BY <1>1 DEF LInv, LoadAt
<1> QED BY <1>2, GoOnOK DEF LInv, Types, LoadData

LEMMA ReadOK ==
  ASSUME LInv, pc = "elf_read", pc' = "elf_process", loc' = [loc EXCEPT !.kept = loc.memory],
         UNCHANGED <<live, file_descriptors, programs, forgotten, elf_loads, stray>>
  PROVE  LInv'
<1>1. loc \in [elf_file : ObjectOrNull, memory : ObjectOrNull, kept : ObjectOrNull,
               fd : {0} \cup Fds]
  BY DEF LInv, Types
<1>2. /\ loc' \in [elf_file : ObjectOrNull, memory : ObjectOrNull, kept : ObjectOrNull,
                   fd : {0} \cup Fds]
      /\ loc'.fd = loc.fd /\ loc'.elf_file = loc.elf_file /\ loc'.memory = loc.memory
      /\ loc'.kept = loc.memory
  BY <1>1
<1>3. LoadData' = LoadData BY <1>2 DEF LInv, LoadAt, LoadData
<1>4. OpenFds' = OpenFds BY DEF OpenFds, FreeFds
<1>5. LoadAt' BY <1>2, <1>4 DEF LInv, LoadAt
<1> QED BY <1>2, <1>3, <1>5, GoOnOK

(* elf_load hands the elf_file and its memory to the process, and leaves   *)
(* the file open.                                                          *)
LEMMA ElfLoadedOK ==
  ASSUME LInv, pc = "elf_process", pc' = "idle", loc' = NoLocals,
         programs' = programs \cup {[filetype |-> "ELF", data |-> {loc.elf_file, loc.kept}]},
         elf_loads' = elf_loads + 1,
         UNCHANGED <<live, file_descriptors, forgotten, stray>>
  PROVE  LInv'
<1>1. /\ Types /\ LoadAt /\ Apart(file_descriptors, programs, LoadData, live \ forgotten)
      /\ Separate(file_descriptors) /\ Counted /\ ~ stray
  BY DEF LInv
<1>2. {loc.elf_file, loc.kept} = LoadData BY <1>1 DEF LoadAt, LoadData
<1>3. LoadData \subseteq Objects BY <1>1 DEF Types, LoadData, ObjectOrNull
<1>4. LoadData' = {} BY DEF LoadData, NoLocals
<1>5. Apart(file_descriptors, programs', {}, live \ forgotten)
  BY <1>1, <1>2, ApartHandOver
<1>6. LoadAt' BY DEF LoadAt, NoLocals
<1>7. Types'
  <2>1. NoLocals \in [elf_file : ObjectOrNull, memory : ObjectOrNull, kept : ObjectOrNull,
                      fd : {0} \cup Fds]
    BY DEF NoLocals, ObjectOrNull
  <2> QED BY <1>1, <1>2, <1>3, <2>1 DEF Types
<1>8. Counted'
  <2>1. loc.fd \in OpenFds BY <1>1 DEF LoadAt
  <2>2. IsFiniteSet(OpenFds)
    <3>1. IsFiniteSet(Fds) BY LoadAssumption, FS_Interval DEF Fds
    <3>2. OpenFds \subseteq Fds BY DEF OpenFds
    <3> QED BY <3>1, <3>2, FS_Subset
  <2>3. Cardinality(OpenFds \ {loc.fd}) = Cardinality(OpenFds) - 1 /\ Cardinality(OpenFds) \in Nat
    BY <2>1, <2>2, FS_RemoveElement, FS_CardinalityType
  <2>4. OpenFds' = OpenFds BY DEF OpenFds, FreeFds
  <2>5. loc'.fd = 0 /\ 0 \notin OpenFds BY NullOK DEF NoLocals, OpenFds
  <2>6. OpenFds' \ {loc'.fd} = OpenFds BY <2>4, <2>5
  <2>7. Cardinality(OpenFds' \ {loc'.fd}) = Cardinality(OpenFds) BY <2>6
  <2>8. Cardinality(OpenFds) - 1 = elf_loads BY <1>1, <2>3 DEF Counted
  <2>9. Cardinality(OpenFds) = elf_loads' BY <2>3, <2>8
  <2> QED BY <2>7, <2>9 DEF Counted
<1> QED BY <1>1, <1>4, <1>5, <1>6, <1>7, <1>8 DEF LInv

(* process_load_bin hands the memory to the process and closes the file.   *)
LEMMA BinDoneOK ==
  ASSUME LInv, pc = "bin_read", BinDone
  PROVE  LInv'
<1> DEFINE a == fclose(loc.fd).freed \ {NULL}
           t == file_descriptors'
<1>1. /\ Types /\ LoadAt /\ Apart(file_descriptors, programs, LoadData, live \ forgotten) /\ Counted /\ ~ stray
  BY DEF LInv
<1>2. /\ file_descriptors' = fclose(loc.fd).table /\ Frees(fclose(loc.fd).freed, {})
      /\ programs' = programs \cup {[filetype |-> "BINARY", data |-> {loc.memory}]}
      /\ pc' = "idle" /\ loc' = NoLocals /\ UNCHANGED <<forgotten, elf_loads>>
  BY DEF BinDone
<1>3. /\ t \in [Fds -> [desc : Objects, private : Objects] \cup {Empty}]
      /\ Separate(t)
      /\ \A fd \in Fds : /\ fd = loc.fd => t[fd] = Empty /\ Hold(t, fd) = {}
                         /\ fd # loc.fd => t[fd] = file_descriptors[fd]
                                           /\ Hold(t, fd) = Hold(file_descriptors, fd)
      /\ \/ loc.fd \notin Fds /\ a = {}
         \/ loc.fd \in Fds /\ a = Hold(file_descriptors, loc.fd)
  BY <1>2, fcloseOK
<1>4. a \subseteq live \ forgotten BY <1>1, <1>3 DEF Apart
<1>5. live' = live \ a /\ ~ stray' BY <1>1, <1>2, <1>4 DEF Frees
<1>6. LoadData = {loc.memory} BY <1>1 DEF LoadAt, LoadData
<1>7. LoadData \subseteq Objects BY <1>1 DEF Types, LoadData, ObjectOrNull
<1> HIDE DEF a, t
<1>8. Apart(t, programs, LoadData, live' \ forgotten)
  <2>1. \A fd \in Fds : Hold(t, fd) \subseteq live' \ forgotten
    <3> TAKE fd \in Fds
    <3>1. CASE fd = loc.fd BY <1>3, <3>1
    <3>2. CASE fd # loc.fd
      <4>1. Hold(t, fd) = Hold(file_descriptors, fd) /\ Hold(t, fd) \subseteq live \ forgotten
        BY <1>1, <1>3, <3>2 DEF Apart
      <4>2. Hold(file_descriptors, fd) \cap a = {} BY <1>1, <1>3, <3>2 DEF Apart
      <4> QED BY <1>5, <4>1, <4>2
    <3> QED BY <3>1, <3>2
  <2>2. \A p \in programs : p.data \subseteq live' \ forgotten BY <1>1, <1>3, <1>5 DEF Apart
  <2>3. \A fd \in Fds : Hold(t, fd) \subseteq Hold(file_descriptors, fd) BY <1>3
  <2>4. LoadData \subseteq live' \ forgotten BY <1>1, <1>3, <1>5 DEF Apart
  <2> QED BY <1>1, <2>1, <2>2, <2>3, <2>4, ApartLess
<1>9. LoadData' = {} BY <1>2 DEF LoadData, NoLocals
<1>10. Apart(t, programs', {}, live' \ forgotten) BY <1>2, <1>6, <1>8, ApartHandOver
<1>11. LoadAt' BY <1>2 DEF LoadAt, NoLocals
<1>12. Types'
  <2>1. NoLocals \in [elf_file : ObjectOrNull, memory : ObjectOrNull, kept : ObjectOrNull,
                      fd : {0} \cup Fds]
    BY DEF NoLocals, ObjectOrNull
  <2> QED BY <1>1, <1>2, <1>3, <1>4, <1>5, <1>6, <1>7, <2>1 DEF Types, t
<1>13. Counted'
  <2>1. OpenFds' = OpenFds \ {loc.fd} BY <1>3 DEF OpenFds, FreeFds, t
  <2>2. loc'.fd = 0 /\ 0 \notin OpenFds' BY <1>2, NullOK DEF NoLocals, OpenFds
  <2>3. OpenFds' \ {loc'.fd} = OpenFds \ {loc.fd} BY <2>1, <2>2
  <2> QED BY <1>1, <1>2, <2>3 DEF Counted
<1> QED BY <1>2, <1>3, <1>5, <1>9, <1>10, <1>11, <1>12, <1>13 DEF LInv, t

LEMMA TerminateOK ==
  ASSUME LInv, NEW q \in programs, process_terminate_program_data(q)
  PROVE  LInv'
<1>1. /\ Types /\ LoadAt /\ Apart(file_descriptors, programs, LoadData, live \ forgotten)
      /\ Separate(file_descriptors) /\ Counted /\ ~ stray
  BY DEF LInv
<1>2. /\ Frees(q.data, {}) /\ programs' = programs \ {q}
      /\ UNCHANGED <<file_descriptors, forgotten, pc, loc, elf_loads>>
  BY DEF process_terminate_program_data
<1>3. q.data \subseteq live \ forgotten /\ NULL \notin q.data BY <1>1, NullOK DEF Apart, Types
<1>4. live' = live \ q.data /\ ~ stray' BY <1>1, <1>2, <1>3 DEF Frees
<1>5. LoadData' = LoadData BY <1>2 DEF LoadData
<1>6. OpenFds' = OpenFds BY <1>2 DEF OpenFds, FreeFds
<1>7. Apart(file_descriptors, programs', LoadData, live' \ forgotten)
  BY <1>1, <1>2, <1>4 DEF Apart
<1>8. Types' /\ LoadAt' /\ Counted'
  BY <1>1, <1>2, <1>3, <1>4, <1>6 DEF Types, LoadAt, Counted
<1> QED BY <1>1, <1>2, <1>4, <1>5, <1>7, <1>8 DEF LInv

(* Every step keeps the invariant.                                         *)
LEMMA StepLInv ==
  ASSUME LInv, [Next]_vars
  PROVE  LInv'
<1>1. CASE UNCHANGED vars
  BY <1>1 DEF vars, LInv, Types, LoadAt, Counted, OpenFds, FreeFds, LoadData
<1>2. CASE ElfNew
  <2>1. PICK o \in kzalloc(live) :
          /\ live' = live \cup ({o} \ {NULL})
          /\ IF o = NULL THEN Goto("idle", NoLocals)
                         ELSE Goto("elf_open", [NoLocals EXCEPT !.elf_file = o])
    BY <1>2 DEF ElfNew
  <2>2. pc = "idle" /\ UNCHANGED <<file_descriptors, forgotten, stray>> BY <1>2 DEF ElfNew
  <2>3. CASE o = NULL
    <3>1. live' = live /\ pc' = "idle" /\ loc' = NoLocals /\ UNCHANGED <<programs, elf_loads>>
      BY <2>1, <2>3 DEF Goto
    <3>2. loc = NoLocals
      BY <2>2 DEF LInv, LoadAt, Types, NoLocals, NULL
    <3> QED BY <2>2, <3>1, <3>2 DEF LInv, Types, LoadAt, Counted, OpenFds, FreeFds, LoadData
  <2>4. CASE o # NULL
    <3>1. o \in Objects \ live BY <2>4, kzallocOK
    <3> QED BY <2>1, <2>2, <2>4, <3>1, TakeOK DEF Goto
  <2> QED BY <2>3, <2>4
<1>3. CASE ElfOpen
  <2>1. PICK r \in fopen : IF r.fd = 0 THEN OpenFailed(r) /\ Goto("elf_close", loc)
                           ELSE Opened(r) /\ Goto("elf_stat", [loc EXCEPT !.fd = r.fd])
    BY <1>3 DEF ElfOpen
  <2>2. CASE r.fd = 0 BY <1>3, <2>1, <2>2, OpenFailedOK DEF ElfOpen, Goto
  <2>3. CASE r.fd # 0 BY <1>3, <2>1, <2>3, OpenedOK DEF ElfOpen, Goto
  <2> QED BY <2>2, <2>3
<1>4. CASE ElfStat
  <2>1. CASE CloseOut("idle") BY <2>1, CloseOutOK
  <2>2. CASE ~ CloseOut("idle") BY <1>4, <2>2, StatOK DEF ElfStat, Goto
  <2> QED BY <2>1, <2>2
<1>5. CASE ElfAlloc
  <2>1. PICK o \in kzalloc(live) :
          IF o = NULL THEN CloseOut("idle")
          ELSE /\ live' = live \cup {o}
               /\ Goto("elf_read", [loc EXCEPT !.memory = o])
               /\ UNCHANGED <<file_descriptors, forgotten, stray>>
    BY <1>5 DEF ElfAlloc
  <2>2. CASE o = NULL BY <2>1, <2>2, CloseOutOK
  <2>3. CASE o # NULL
    <3>1. o \in Objects \ live BY <2>3, kzallocOK
    <3> QED BY <1>5, <2>1, <2>3, <3>1, TakeOK DEF ElfAlloc, Goto
  <2> QED BY <2>2, <2>3
<1>6. CASE ElfRead
  <2>1. CASE CloseOut("idle") BY <2>1, CloseOutOK
  <2>2. CASE ~ CloseOut("idle") BY <1>6, <2>2, ReadOK DEF ElfRead, Goto
  <2> QED BY <2>1, <2>2
<1>7. CASE ElfProcess
  <2>1. CASE CloseOut("idle") \/ CloseOut("bin_open") BY <2>1, CloseOutOK
  <2>2. CASE ~(CloseOut("idle") \/ CloseOut("bin_open")) BY <1>7, <2>2, ElfLoadedOK DEF ElfProcess
  <2> QED BY <2>1, <2>2
<1>8. CASE BinOpen
  <2>1. PICK r \in fopen : IF r.fd = 0 THEN OpenFailed(r) /\ Goto("bin_close", loc)
                           ELSE Opened(r) /\ Goto("bin_stat", [loc EXCEPT !.fd = r.fd])
    BY <1>8 DEF BinOpen
  <2>2. CASE r.fd = 0 BY <1>8, <2>1, <2>2, OpenFailedOK DEF BinOpen, Goto
  <2>3. CASE r.fd # 0 BY <1>8, <2>1, <2>3, OpenedOK DEF BinOpen, Goto
  <2> QED BY <2>2, <2>3
<1>9. CASE BinStat
  <2>1. CASE BinFails BY <2>1, BinFailsOK
  <2>2. CASE ~ BinFails BY <1>9, <2>2, StatOK DEF BinStat, Goto
  <2> QED BY <2>1, <2>2
<1>10. CASE BinAlloc
  <2>1. PICK o \in kzalloc(live) :
          IF o = NULL THEN BinFails
          ELSE /\ live' = live \cup {o}
               /\ Goto("bin_read", [loc EXCEPT !.memory = o])
               /\ UNCHANGED <<file_descriptors, forgotten, stray>>
    BY <1>10 DEF BinAlloc
  <2>2. CASE o = NULL BY <2>1, <2>2, BinFailsOK
  <2>3. CASE o # NULL
    <3>1. o \in Objects \ live BY <2>3, kzallocOK
    <3> QED BY <1>10, <2>1, <2>3, <3>1, TakeOK DEF BinAlloc, Goto
  <2> QED BY <2>2, <2>3
<1>11. CASE BinRead BY <1>11, BinDoneOK, BinFailsOK DEF BinRead
<1>12. ASSUME NEW q \in programs, process_terminate_program_data(q) PROVE LInv'
  BY <1>12, TerminateOK
<1>13. CASE ElfClose BY <1>13, CloseOutOK DEF ElfClose
<1>14. CASE BinClose BY <1>14, BinFailsOK DEF BinClose
<1> QED BY <1>1, <1>2, <1>3, <1>4, <1>5, <1>6, <1>7, <1>8, <1>9, <1>10, <1>11, <1>12,
           <1>13, <1>14 DEF Next

(* What the table, the processes and the load hold is allocated and held   *)
(* once, whatever step of fopen, elf_load or process_load_bin fails and    *)
(* however full the heap and the table are.                                *)
THEOREM LoadOwnedOnce == Spec => []OwnedOnce
<1>1. LInv /\ [Next]_vars => LInv' BY StepLInv
<1>2. LInv => OwnedOnce BY LInvOwnedOnce
<1> QED BY <1>1, <1>2, InitLInv, PTL DEF Spec

(* No error path frees what is not allocated, and no process that ends     *)
(* frees what another one holds.                                           *)
THEOREM LoadNoStrayFree == Spec => []NoStrayFree
<1>1. LInv /\ [Next]_vars => LInv' BY StepLInv
<1>2. LInv => NoStrayFree BY DEF LInv, NoStrayFree
<1> QED BY <1>1, <1>2, InitLInv, PTL DEF Spec

(* Between loads a descriptor is open for each ELF file that was ever      *)
(* loaded, and for no other: so elf_load, which does not close its file,   *)
(* uses up the table, and nothing else does.                               *)
THEOREM LoadOpenPerElfLoad == Spec => []OpenPerElfLoad
<1>1. LInv /\ [Next]_vars => LInv' BY StepLInv
<1>2. LInv => OpenPerElfLoad
  <2> SUFFICES ASSUME LInv, pc = "idle" PROVE Cardinality(OpenFds) = elf_loads
    BY DEF OpenPerElfLoad
  <2>1. OpenFds \ {loc.fd} = OpenFds BY NullOK DEF LInv, LoadAt, OpenFds
  <2> QED BY <2>1 DEF LInv, Counted
<1> QED BY <1>1, <1>2, InitLInv, PTL DEF Spec

(* No more than MaxDescriptors ELF files are loaded between two boots.     *)
THEOREM LoadsBounded == Spec => [](elf_loads <= MaxDescriptors)
<1>1. LInv /\ [Next]_vars => LInv' BY StepLInv
<1>2. LInv => elf_loads <= MaxDescriptors
  <2> SUFFICES ASSUME LInv PROVE elf_loads <= MaxDescriptors OBVIOUS
  <2>1. IsFiniteSet(Fds) /\ Cardinality(Fds) = MaxDescriptors
    <3>1. 1 \in Int /\ MaxDescriptors \in Int /\ ~(1 > MaxDescriptors) BY LoadAssumption
    <3>2. IsFiniteSet(1 .. MaxDescriptors)
          /\ Cardinality(1 .. MaxDescriptors) = MaxDescriptors - 1 + 1
      BY <3>1, FS_Interval
    <3> QED BY <3>1, <3>2 DEF Fds
  <2>2. OpenFds \ {loc.fd} \in SUBSET Fds BY DEF OpenFds
  <2>3. Cardinality(OpenFds \ {loc.fd}) <= MaxDescriptors BY <2>1, <2>2, FS_Subset
  <2> QED BY <2>3 DEF LInv, Counted
<1> QED BY <1>1, <1>2, InitLInv, PTL DEF Spec

-----------------------------------------------------------------------------
(* What is lost *)

Held(table, progs, load) ==
  (UNION {Hold(table, fd) : fd \in Fds}) \cup (UNION {p.data : p \in progs}) \cup load

LEMMA OwnedHeld == LInv => Owned = Held(file_descriptors, programs, LoadData)
<1> SUFFICES ASSUME LInv PROVE Owned = Held(file_descriptors, programs, LoadData) OBVIOUS
<1>1. \A fd \in Fds : \/ fd \in OpenFds /\ SlotData(fd) = Hold(file_descriptors, fd)
                      \/ fd \notin OpenFds /\ Hold(file_descriptors, fd) = {}
  <2> TAKE fd \in Fds
  <2>1. file_descriptors[fd] \in [desc : Objects, private : Objects] \cup {Empty} BY DEF LInv, Types
  <2>2. CASE file_descriptors[fd] = Empty BY <2>2 DEF OpenFds, FreeFds, Hold, Empty
  <2>3. CASE file_descriptors[fd] # Empty
    <3>1. file_descriptors[fd] \in [desc : Objects, private : Objects] BY <2>1, <2>3
    <3>2. file_descriptors[fd].desc # NULL /\ file_descriptors[fd].private # NULL
      BY <3>1, NullOK
    <3> QED BY <2>3, <3>2 DEF OpenFds, FreeFds, Hold, SlotData
  <2> QED BY <2>2, <2>3
<1>2. OpenFds \subseteq Fds BY DEF OpenFds
<1>3. UNION {SlotData(fd) : fd \in OpenFds} = UNION {Hold(file_descriptors, fd) : fd \in Fds}
  BY <1>1, <1>2
<1> QED BY <1>3 DEF Owned, Held

LEMMA OwnedHeldNext == LInv' => Owned' = Held(file_descriptors', programs', LoadData')
<1>1. (LInv => Owned = Held(file_descriptors, programs, LoadData))' BY OwnedHeld, PTL
<1> QED BY <1>1

(* A step that frees what is given up, and keeps hold of what it takes.    *)
LEMMA NothingLostOK ==
  ASSUME forgotten \subseteq forgotten', live' \ live \subseteq Owned' \cup forgotten',
         Owned \cap live' \subseteq Owned'
  PROVE  Lost' \subseteq Lost
BY DEF Lost

Excused(o) ==
  \/ pc = "elf_read" /\ o = loc.memory
  \/ pc \in {"elf_open", "bin_open"} /\ loc'.fd \in FreeFds'

(* Giving up: only the memory of an ELF file that could not be read stays. *)
LEMMA GiveUpLoses ==
  ASSUME LInv, LInv', NEW mine, mine \ {NULL} \subseteq LoadData,
         pc = "elf_read" \/ mine \ {NULL} = LoadData,
         LoadData \ mine \subseteq {loc.memory},
         file_descriptors' = fclose(loc.fd).table,
         Frees(fclose(loc.fd).freed, mine) \/ Frees(mine, fclose(loc.fd).freed),
         loc' = NoLocals, UNCHANGED <<programs, forgotten>>,
         NEW o \in Lost' \ Lost
  PROVE  Excused(o)
<1> DEFINE a == fclose(loc.fd).freed \ {NULL}
           b == mine \ {NULL}
           t == file_descriptors'
<1>1. /\ \A fd \in Fds : fd # loc.fd => Hold(t, fd) = Hold(file_descriptors, fd)
      /\ \/ loc.fd \notin Fds /\ a = {}
         \/ loc.fd \in Fds /\ a = Hold(file_descriptors, loc.fd)
  BY fcloseOK
<1>2. live' = live \ (a \cup b) BY DEF Frees
<1>3. Owned = Held(file_descriptors, programs, LoadData) BY OwnedHeld
<1>4. Owned' = Held(t, programs, {})
  <2>1. LoadData' = {} BY DEF LoadData, NoLocals
  <2> QED BY OwnedHeld, OwnedHeldNext, <2>1
<1> HIDE DEF a, b, t
<1>5. o \in live' /\ o \notin Owned' /\ o \notin forgotten /\ o \in live /\ o \in Owned BY <1>2 DEF Lost
<1>6. \A fd \in Fds : o \notin Hold(t, fd) BY <1>4, <1>5 DEF Held
<1>7. \A p \in programs : o \notin p.data BY <1>4, <1>5 DEF Held
<1>8. \A fd \in Fds : o \notin Hold(file_descriptors, fd)
  BY <1>1, <1>2, <1>5, <1>6
<1>9. o \in LoadData BY <1>3, <1>5, <1>7, <1>8 DEF Held
<1>10. o \notin b BY <1>2, <1>5
<1>11. NULL \notin LoadData BY DEF LoadData
<1> QED BY <1>9, <1>10, <1>11 DEF Excused, b

LEMMA CloseOutLoses ==
  ASSUME LInv, LInv', NEW label, CloseOut(label), NEW o \in Lost' \ Lost,
         pc \in {"elf_close", "elf_stat", "elf_alloc", "elf_read", "elf_process"}
  PROVE  Excused(o)
<1> DEFINE mine == {loc.elf_file, loc.kept}
<1>1. mine \ {NULL} \subseteq LoadData BY DEF LoadData
<1>2. LoadData \ mine \subseteq {loc.memory} BY DEF LoadData
<1>3. pc = "elf_read" \/ mine \ {NULL} = LoadData BY DEF LInv, LoadAt, LoadData
<1>4. /\ file_descriptors' = fclose(loc.fd).table /\ Frees(fclose(loc.fd).freed, mine)
      /\ loc' = NoLocals /\ UNCHANGED <<programs, forgotten>>
  BY DEF CloseOut, Goto
<1> HIDE DEF mine
<1> QED BY <1>1, <1>2, <1>3, <1>4, GiveUpLoses

LEMMA BinFailsLoses ==
  ASSUME LInv, LInv', BinFails, NEW o \in Lost' \ Lost,
         pc \in {"bin_close", "bin_stat", "bin_alloc", "bin_read"}
  PROVE  Excused(o)
<1> DEFINE mine == {loc.memory}
<1>1. mine \ {NULL} = LoadData BY DEF LInv, LoadAt, LoadData
<1>2. LoadData \ mine \subseteq {loc.memory} BY <1>1
<1>3. /\ file_descriptors' = fclose(loc.fd).table /\ Frees(mine, fclose(loc.fd).freed)
      /\ loc' = NoLocals /\ UNCHANGED <<programs, forgotten>>
  BY DEF BinFails, Goto
<1> HIDE DEF mine
<1> QED BY <1>1, <1>2, <1>3, GiveUpLoses

LEMMA OpenedLoses ==
  ASSUME LInv, LInv', NEW r \in fopen, r.fd # 0, Opened(r), pc \in {"elf_open", "bin_open"},
         loc' = [loc EXCEPT !.fd = r.fd], UNCHANGED programs,
         NEW o \in Lost' \ Lost
  PROVE  Excused(o)
<1>1. CASE r.desc = NULL
  <2>1. r.fd \in FreeFds /\ file_descriptors' = file_descriptors BY <1>1, fopenOK DEF Opened
  <2>2. loc'.fd = r.fd BY DEF LInv, Types
  <2> QED BY <2>1, <2>2 DEF Excused, FreeFds
<1>2. CASE r.desc # NULL
  <2>1. /\ r.fd \in Fds /\ file_descriptors[r.fd] = Empty
        /\ r.private \in Objects /\ r.left \in Objects /\ r.desc \in Objects
    BY <1>2, fopenOK DEF FreeFds
  <2>2. /\ live' = live \cup {r.left, r.private, r.desc}
        /\ file_descriptors' = [file_descriptors EXCEPT ![r.fd] = [desc |-> r.desc, private |-> r.private]]
        /\ forgotten' = forgotten \cup {r.left}
    BY <1>2, <2>1, NullOK DEF Opened
  <2>3. file_descriptors \in [Fds -> [desc : Objects, private : Objects] \cup {Empty}]
    BY DEF LInv, Types
  <2>4. /\ Hold(file_descriptors', r.fd) = {r.desc, r.private}
        /\ Hold(file_descriptors, r.fd) = {}
        /\ \A fd \in Fds \ {r.fd} : Hold(file_descriptors', fd) = Hold(file_descriptors, fd)
    BY <2>1, <2>2, <2>3, NullOK DEF Hold, Empty
  <2>5. LoadData' = LoadData BY DEF LInv, Types, LoadData
  <2>6. Owned = Held(file_descriptors, programs, LoadData)
        /\ Owned' = Held(file_descriptors', programs, LoadData)
    BY <2>5, OwnedHeld, OwnedHeldNext
  <2>7. {r.desc, r.private} \subseteq Owned' BY <2>1, <2>4, <2>6 DEF Held
  <2>8. Owned \subseteq Owned'
    <3>1. \A fd \in Fds : Hold(file_descriptors, fd) \subseteq Hold(file_descriptors', fd) BY <2>4
    <3> HIDE DEF Hold
    <3> QED BY <2>6, <3>1 DEF Held
  <2> QED BY <2>2, <2>7, <2>8, NothingLostOK
<1> QED BY <1>1, <1>2

(* What a failed fopen leaves is not lost by the load.                     *)
LEMMA OpenFailedLoses ==
  ASSUME LInv, LInv', NEW r \in fopen, OpenFailed(r), loc' = loc, UNCHANGED programs
  PROVE  Lost' \subseteq Lost
<1>1. /\ live' = live \cup ({r.left} \ {NULL}) /\ forgotten' = forgotten \cup ({r.left} \ {NULL})
      /\ file_descriptors' = file_descriptors
  BY DEF OpenFailed
<1>2. LoadData' = LoadData BY DEF LoadData
<1>3. Owned' = Owned BY <1>1, <1>2, OwnedHeld, OwnedHeldNext
<1> QED BY <1>1, <1>3, NothingLostOK

(* Steps of a load that only take.                                         *)
LEMMA TakeLoses ==
  ASSUME LInv, LInv', UNCHANGED <<file_descriptors, forgotten>>, programs \subseteq programs',
         live' \ live \subseteq LoadData',
         LoadData \subseteq LoadData' \cup UNION {p.data : p \in programs'}
  PROVE  Lost' \subseteq Lost
<1>1. Owned = Held(file_descriptors, programs, LoadData)
      /\ Owned' = Held(file_descriptors, programs', LoadData')
  BY OwnedHeld, OwnedHeldNext
<1>2. Owned \subseteq Owned' /\ LoadData' \subseteq Owned' BY <1>1 DEF Held
<1> QED BY <1>2, NothingLostOK

(* A step loses an object only at the two places.                          *)
LEMMA StepLoses ==
  ASSUME LInv, [Next]_vars, NEW o \in Lost' \ Lost
  PROVE  Excused(o)
<1>0. LInv' BY StepLInv
<1>L. loc \in [elf_file : ObjectOrNull, memory : ObjectOrNull, kept : ObjectOrNull,
               fd : {0} \cup Fds] /\ LoadAt
  BY DEF LInv, Types
<1>1. CASE UNCHANGED vars BY <1>1 DEF vars, Lost, Owned, SlotData, OpenFds, FreeFds, LoadData
<1>2. CASE ElfNew
  <2>1. PICK u \in kzalloc(live) :
          /\ live' = live \cup ({u} \ {NULL})
          /\ loc' = IF u = NULL THEN NoLocals ELSE [NoLocals EXCEPT !.elf_file = u]
    BY <1>2 DEF ElfNew, Goto
  <2>2. LoadData = {} BY <1>2, <1>L DEF ElfNew, LoadAt, LoadData
  <2>3. live' \ live \subseteq LoadData' BY <2>1 DEF LoadData, NoLocals
  <2>4. UNCHANGED <<file_descriptors, forgotten, programs>> BY <1>2 DEF ElfNew, Goto
  <2> QED BY <1>0, <2>2, <2>3, <2>4, TakeLoses
<1>3. CASE ElfOpen
  <2>1. PICK r \in fopen : IF r.fd = 0 THEN OpenFailed(r) /\ Goto("elf_close", loc)
                           ELSE Opened(r) /\ Goto("elf_stat", [loc EXCEPT !.fd = r.fd])
    BY <1>3 DEF ElfOpen
  <2>2. CASE r.fd = 0 BY <1>0, <2>1, <2>2, OpenFailedLoses DEF Goto
  <2>3. CASE r.fd # 0 BY <1>0, <1>3, <2>1, <2>3, OpenedLoses DEF ElfOpen, Goto
  <2> QED BY <2>2, <2>3
<1>4. CASE ElfStat
  <2>1. CASE CloseOut("idle") BY <1>0, <1>4, <2>1, CloseOutLoses DEF ElfStat
  <2>2. CASE ~ CloseOut("idle")
    <3>1. loc' = loc /\ UNCHANGED <<live, file_descriptors, forgotten, programs>>
      BY <1>4, <2>2 DEF ElfStat, Goto
    <3> QED BY <1>0, <3>1, TakeLoses DEF LoadData
  <2> QED BY <2>1, <2>2
<1>5. CASE ElfAlloc
  <2>1. PICK u \in kzalloc(live) :
          IF u = NULL THEN CloseOut("idle")
          ELSE /\ live' = live \cup {u}
               /\ Goto("elf_read", [loc EXCEPT !.memory = u])
               /\ UNCHANGED <<file_descriptors, forgotten, stray>>
    BY <1>5 DEF ElfAlloc
  <2>2. CASE u = NULL BY <1>0, <1>5, <2>1, <2>2, CloseOutLoses DEF ElfAlloc
  <2>3. CASE u # NULL
    <3>1. /\ loc' = [loc EXCEPT !.memory = u] /\ live' = live \cup {u} /\ loc.memory = NULL
          /\ UNCHANGED <<file_descriptors, forgotten, programs>>
      BY <1>5, <1>L, <2>1, <2>3 DEF ElfAlloc, Goto, LoadAt
    <3>2. u \in LoadData' /\ LoadData \subseteq LoadData' BY <1>L, <2>3, <3>1 DEF LoadData
    <3> QED BY <1>0, <3>1, <3>2, TakeLoses
  <2> QED BY <2>2, <2>3
<1>6. CASE ElfRead
  <2>1. CASE CloseOut("idle") BY <1>0, <1>6, <2>1, CloseOutLoses DEF ElfRead
  <2>2. CASE ~ CloseOut("idle")
    <3>1. /\ loc' = [loc EXCEPT !.kept = loc.memory] /\ loc.kept = NULL
          /\ UNCHANGED <<live, file_descriptors, forgotten, programs>>
      BY <1>6, <1>L, <2>2 DEF ElfRead, Goto, LoadAt
    <3>2. LoadData \subseteq LoadData' BY <1>L, <3>1 DEF LoadData
    <3> QED BY <1>0, <3>1, <3>2, TakeLoses
  <2> QED BY <2>1, <2>2
<1>7. CASE ElfProcess
  <2>1. CASE CloseOut("idle") \/ CloseOut("bin_open")
    BY <1>0, <1>7, <2>1, CloseOutLoses DEF ElfProcess
  <2>2. CASE ~(CloseOut("idle") \/ CloseOut("bin_open"))
    <3> DEFINE q == [filetype |-> "ELF", data |-> {loc.elf_file, loc.kept}]
    <3>1. programs' = programs \cup {q} /\ UNCHANGED <<live, file_descriptors, forgotten>>
      BY <1>7, <2>2 DEF ElfProcess
    <3>2. LoadData \subseteq q.data BY <1>7, <1>L DEF ElfProcess, LoadData, LoadAt
    <3>3. q \in programs' BY <3>1
    <3> HIDE DEF q
    <3>4. LoadData \subseteq UNION {p.data : p \in programs'} BY <3>2, <3>3
    <3> QED BY <1>0, <3>1, <3>4, TakeLoses
  <2> QED BY <2>1, <2>2
<1>8. CASE BinOpen
  <2>1. PICK r \in fopen : IF r.fd = 0 THEN OpenFailed(r) /\ Goto("bin_close", loc)
                           ELSE Opened(r) /\ Goto("bin_stat", [loc EXCEPT !.fd = r.fd])
    BY <1>8 DEF BinOpen
  <2>2. CASE r.fd = 0 BY <1>0, <2>1, <2>2, OpenFailedLoses DEF Goto
  <2>3. CASE r.fd # 0 BY <1>0, <1>8, <2>1, <2>3, OpenedLoses DEF BinOpen, Goto
  <2> QED BY <2>2, <2>3
<1>9. CASE BinStat
  <2>1. CASE BinFails BY <1>0, <1>9, <2>1, BinFailsLoses DEF BinStat
  <2>2. CASE ~ BinFails
    <3>1. loc' = loc /\ UNCHANGED <<live, file_descriptors, forgotten, programs>>
      BY <1>9, <2>2 DEF BinStat, Goto
    <3> QED BY <1>0, <3>1, TakeLoses DEF LoadData
  <2> QED BY <2>1, <2>2
<1>10. CASE BinAlloc
  <2>1. PICK u \in kzalloc(live) :
          IF u = NULL THEN BinFails
          ELSE /\ live' = live \cup {u}
               /\ Goto("bin_read", [loc EXCEPT !.memory = u])
               /\ UNCHANGED <<file_descriptors, forgotten, stray>>
    BY <1>10 DEF BinAlloc
  <2>2. CASE u = NULL BY <1>0, <1>10, <2>1, <2>2, BinFailsLoses DEF BinAlloc
  <2>3. CASE u # NULL
    <3>1. /\ loc' = [loc EXCEPT !.memory = u] /\ live' = live \cup {u} /\ loc.memory = NULL
          /\ UNCHANGED <<file_descriptors, forgotten, programs>>
      BY <1>10, <1>L, <2>1, <2>3 DEF BinAlloc, Goto, LoadAt
    <3>2. u \in LoadData' /\ LoadData \subseteq LoadData' BY <1>L, <2>3, <3>1 DEF LoadData
    <3> QED BY <1>0, <3>1, <3>2, TakeLoses
  <2> QED BY <2>2, <2>3
<1>11. CASE BinRead
  <2>1. CASE BinFails BY <1>0, <1>11, <2>1, BinFailsLoses DEF BinRead
  <2>2. CASE BinDone
    <3> DEFINE q == [filetype |-> "BINARY", data |-> {loc.memory}]
               a == fclose(loc.fd).freed \ {NULL}
               t == file_descriptors'
    <3>1. /\ t = fclose(loc.fd).table /\ Frees(fclose(loc.fd).freed, {})
          /\ programs' = programs \cup {q} /\ loc' = NoLocals /\ forgotten' = forgotten
      BY <2>2 DEF BinDone
    <3>2. /\ \A fd \in Fds : fd # loc.fd => Hold(t, fd) = Hold(file_descriptors, fd)
          /\ \/ loc.fd \notin Fds /\ a = {}
             \/ loc.fd \in Fds /\ a = Hold(file_descriptors, loc.fd)
      BY <3>1, fcloseOK
    <3>3. live' = live \ a BY <3>1 DEF Frees
    <3>4. LoadData \subseteq q.data BY <1>11, <1>L DEF BinRead, LoadData, LoadAt
    <3>5. q \in programs' BY <3>1
    <3>6. Owned = Held(file_descriptors, programs, LoadData)
          /\ Owned' = Held(t, programs', LoadData')
      BY <1>0, OwnedHeld, OwnedHeldNext
    <3>7. programs \subseteq programs' BY <3>1
    <3> HIDE DEF q, a, t
    <3>8. Owned \cap live' \subseteq Owned'
      <4> SUFFICES ASSUME NEW x \in Owned, x \in live' PROVE x \in Owned' OBVIOUS
      <4>1. CASE \E fd \in Fds : x \in Hold(file_descriptors, fd)
        <5>1. PICK fd \in Fds : x \in Hold(file_descriptors, fd) BY <4>1
        <5>2. fd # loc.fd BY <3>2, <3>3, <5>1
        <5>3. x \in Hold(t, fd) BY <3>2, <5>1, <5>2
        <5> QED BY <3>6, <5>3 DEF Held
      <4>2. CASE \E p \in programs : x \in p.data BY <3>6, <3>7, <4>2 DEF Held
      <4>3. CASE x \in LoadData BY <3>4, <3>5, <3>6, <4>3 DEF Held
      <4> QED BY <3>6, <4>1, <4>2, <4>3 DEF Held
    <3> QED BY <3>1, <3>3, <3>8, NothingLostOK
  <2> QED BY <1>11, <2>1, <2>2 DEF BinRead
<1>12. ASSUME NEW q \in programs, process_terminate_program_data(q) PROVE Excused(o)
  <2>1. /\ live' = live \ (q.data \ {NULL}) /\ programs' = programs \ {q}
        /\ UNCHANGED <<file_descriptors, forgotten, loc>>
    BY <1>12 DEF process_terminate_program_data, Frees
  <2>2. LoadData' = LoadData BY <2>1 DEF LoadData
  <2>3. Owned = Held(file_descriptors, programs, LoadData)
        /\ Owned' = Held(file_descriptors, programs', LoadData)
    BY <1>0, <2>1, <2>2, OwnedHeld, OwnedHeldNext
  <2>4. NULL \notin q.data BY NullOK DEF LInv, Types
  <2>5. Owned \cap live' \subseteq Owned'
    <3> SUFFICES ASSUME NEW x \in Owned, x \in live' PROVE x \in Owned' OBVIOUS
    <3>1. CASE \E p \in programs : x \in p.data
      <4>1. PICK p \in programs : x \in p.data BY <3>1
      <4>2. p # q BY <2>1, <2>4, <4>1
      <4> QED BY <2>1, <2>3, <4>1, <4>2 DEF Held
    <3>2. CASE x \in LoadData \/ \E fd \in Fds : x \in Hold(file_descriptors, fd)
      BY <2>3, <3>2 DEF Held
    <3> QED BY <2>3, <3>1, <3>2 DEF Held
  <2> QED BY <2>1, <2>5, NothingLostOK
<1>13. CASE ElfClose BY <1>0, <1>13, CloseOutLoses DEF ElfClose
<1>14. CASE BinClose BY <1>0, <1>14, BinFailsLoses DEF BinClose
<1> QED BY <1>1, <1>2, <1>3, <1>4, <1>5, <1>6, <1>7, <1>8, <1>9, <1>10, <1>11, <1>12,
           <1>13, <1>14 DEF Next

(* Besides what fopen forgets, a load that fails at any step, and a        *)
(* process that ends, give back all that elf_load and process_load_bin     *)
(* took, but for the memory of an ELF file whose read failed and the       *)
(* private data of a file for which fopen returned an empty slot.          *)
THEOREM LoadLosesOnlyAt == Spec => LosesOnlyAt
<1>1. LInv /\ [Next]_vars => LInv' BY StepLInv
<1>2. LInv /\ [Next]_vars =>
        [\A o \in Lost' \ Lost :
           \/ pc = "elf_read" /\ o = loc.memory
           \/ pc \in {"elf_open", "bin_open"} /\ loc'.fd \in FreeFds']_vars
  BY StepLoses DEF Excused
<1> QED BY <1>1, <1>2, InitLInv, PTL DEF Spec, LosesOnlyAt

=============================================================================
