------------------------ MODULE ProcessMemoryProofs -------------------------
(***************************************************************************)
(* Proofs about ProcessMemory.tla, for every number of processes, pages,   *)
(* allocations and arguments.                                              *)
(*                                                                         *)
(* The invariant has a part for the memory (MemoryOK) that every operation *)
(* on it keeps, also half way through a system call; a part for each       *)
(* process that is not about to end (ImageOK, Guarded); and one for each   *)
(* loop of the kernel, which says what the iterations before have done     *)
(* (AtInject, AtAllocations, AtArguments).                                 *)
(***************************************************************************)
EXTENDS ProcessMemory, WellFoundedInduction, TLAPS

Kinds == {"struct", "image", "data", "tmp"}
BlockType == [at : Pages, n : Nat \ {0}, who : Procs, what : Kinds]
EntryType == [phys : Virtual, w : BOOLEAN, p : BOOLEAN]
AllocationType == [ptr : Pages \cup {NULL}, size : Nat]
Memory == [heap : SUBSET BlockType, dir : [Procs -> [Virtual -> EntryType]],
           allocations : [Procs -> [Indexes -> AllocationType]]]

-----------------------------------------------------------------------------
(* The invariant *)

(* Blocks lie in the heap, and apart.                                      *)
HeapOK(m) ==
  /\ m \in Memory
  /\ \A b \in m.heap : b.at + b.n - 1 <= NumPages
  /\ \A b, c \in m.heap : b # c => PagesOf(b) \cap PagesOf(c) = {}

Span(a) == a.ptr .. a.ptr + a.size - 1

(* The entries of a table in use: blocks of the process, each mapped to    *)
(* itself.  Page 0 is never mapped.                                        *)
TableOK(m, p) ==
  /\ \A i \in Indexes : LET a == m.allocations[p][i] IN
       /\ a.ptr = NULL => a = Unused
       /\ a.ptr # NULL => /\ Block(a.ptr, a.size, p, "data") \in m.heap
                          /\ \A v \in Span(a) : m.dir[p][v] = Entry(v, TRUE, TRUE)
  /\ \A i, j \in Indexes : i # j /\ m.allocations[p][i].ptr # NULL =>
       m.allocations[p][i].ptr # m.allocations[p][j].ptr
  /\ m.dir[p][0] = Entry(0, FALSE, TRUE)

(* What is held by a process that exists: data it has in its table, and    *)
(* one image.  One that has ended holds neither.                           *)
OwnersOK(m, ps) ==
  \A b \in m.heap :
    /\ b.what \in {"data", "image"} => b.who \in ps
    /\ b.what = "data" => \E i \in Indexes : m.allocations[b.who][i] = [ptr |-> b.at, size |-> b.n]
    /\ b.what = "image" => /\ b.n = 1
                           /\ \A c \in m.heap : c.what = "image" /\ c.who = b.who => c = b

MemoryOK(m, ps) == HeapOK(m) /\ OwnersOK(m, ps) /\ \A p \in ps : TableOK(m, p)

ImageOK(m, p) ==
  \E b \in m.heap : b.who = p /\ b.what = "image" /\ m.dir[p][Image] = Entry(b.at, TRUE, TRUE)

(* Whatever page the process can write to at its own address is its data.  *)
Guarded(m, p) ==
  \A v \in Pages : m.dir[p][v] = Entry(v, TRUE, TRUE) =>
    \E i \in Indexes : m.allocations[p][i].ptr # NULL /\ v \in Span(m.allocations[p][i])

ArgumentType == [argv : Pages \cup {NULL}, strings : Seq(Pages)]

(* A page that is an allocation of its own.                                *)
Single(m, p, a) == \E i \in Indexes : m.allocations[p][i] = [ptr |-> a, size |-> 1]

Strings(p) == Range(argument[p].strings)

Types ==
  /\ live \subseteq Procs
  /\ copies \in 0 .. MaxCopies
  /\ argument \in [Procs -> ArgumentType]
  /\ stray = FALSE /\ garbled = FALSE
  /\ pc \in {"user", "inject", "undo", "allocations", "arguments"}
  /\ pc = "user" => loc = NoLocals
  /\ pc # "user" => /\ loc \in [p : Procs, i : Nat \ {0}, argc : Nat, args : ArgumentType]
                    /\ loc.p \in live

Dying(p) == pc \in {"allocations", "arguments"} /\ p = loc.p

(* The pages that a table has entries for.                                 *)
Held(m, p) == {m.allocations[p][i].ptr : i \in Indexes} \ {NULL}

(* The pages of an argument list from string i on, and of its argv.        *)
PagesFrom(i, args) == ({args.argv} \cup {args.strings[j] : j \in i .. Len(args.strings)}) \ {NULL}

Distinct(args) ==
  /\ \A j \in 1 .. Len(args.strings) : args.strings[j] # args.argv
  /\ \A j, h \in 1 .. Len(args.strings) : j # h => args.strings[j] # args.strings[h]

AtInject ==
  /\ argument[loc.p] = NoArgument
  /\ Held(mem, loc.p) = PagesFrom(loc.i, loc.args)
  /\ \A i \in Indexes : mem.allocations[loc.p][i].size \in {0, 1}
  /\ Distinct(loc.args)
  /\ pc = "inject" => loc.i = 1

AtAllocations ==
  /\ \A i \in Indexes : i < loc.i => mem.allocations[loc.p][i].ptr = NULL
  /\ \A s \in Strings(loc.p) : Single(mem, loc.p, s) \/ s \notin Taken(mem.heap)

AtArguments ==
  /\ \A i \in Indexes : mem.allocations[loc.p][i].ptr = NULL
  /\ \A b \in mem.heap : b.who = loc.p => b.what # "image"
  /\ \A s \in Strings(loc.p) : s \notin Taken(mem.heap)

IInv ==
  /\ Types
  /\ MemoryOK(mem, live)
  /\ \A p \in live : ~(pc = "arguments" /\ p = loc.p) => ImageOK(mem, p)
  /\ \A p \in live : ~ Dying(p) => /\ Guarded(mem, p)
                                   /\ \A a \in Arguments(p) : Single(mem, p, a)
  /\ pc \in {"inject", "undo"} => AtInject
  /\ pc = "allocations" => AtAllocations
  /\ pc = "arguments" => AtArguments

-----------------------------------------------------------------------------
(* The heap *)

LEMMA PagesFacts ==
  /\ NumPages \in Nat /\ MaxAllocations \in Nat \ {0}
  /\ Pages \subseteq Nat /\ Pages \subseteq Virtual /\ 0 \in Virtual /\ Image \in Virtual
  /\ NULL = 0 /\ NULL \notin Pages /\ Image \notin Pages /\ Image # 0
  /\ \A v \in Virtual : v \in Nat /\ (v \in Pages \/ v = 0 \/ v = Image)
BY MemoryAssumption DEF Pages, Virtual, Image, NULL

LEMMA TakenFacts ==
  ASSUME NEW heap, NEW x
  PROVE  x \in Taken(heap) <=> \E b \in heap : x \in PagesOf(b)
BY DEF Taken

(* The lowest of some numbers.                                             *)
LEMMA LowestOf ==
  ASSUME NEW S, S \subseteq Nat, S # {}
  PROVE  (CHOOSE a \in S : \A b \in S : a <= b) \in S
<1> DEFINE R == OpToRel(<, Nat)
<1>1. IsWellFoundedOn(R, Nat) BY NatLessThanWellFounded, Zenon
<1>2. \A x, y \in Nat : x < y => <<x, y>> \in R BY DEF OpToRel
<1> HIDE DEF R
<1>3. PICK k \in S : \A n \in S : ~(<<n, k>> \in R) BY <1>1, WFMin, Zenon
<1>4. \A n \in S : k <= n
  <2> TAKE n \in S
  <2>1. k \in Nat /\ n \in Nat OBVIOUS
  <2>2. ~(n < k) BY <1>2, <1>3, <2>1
  <2> QED BY <2>1, <2>2
<1> QED BY <1>3, <1>4

LEMMA kzallocOK ==
  ASSUME NEW m, NEW n \in Nat
  PROVE  /\ kzalloc(m, n) # NULL =>
              /\ n # 0 /\ kzalloc(m, n) \in Pages /\ kzalloc(m, n) + n - 1 <= NumPages
              /\ \A x \in kzalloc(m, n) .. kzalloc(m, n) + n - 1 : x \notin Taken(m.heap)
         /\ n = 1 /\ Pages \ Taken(m.heap) # {} => kzalloc(m, n) # NULL
<1> DEFINE fits == {a \in Pages : /\ a + n - 1 <= NumPages
                                  /\ \A x \in a .. a + n - 1 : x \notin Taken(m.heap)}
           low == CHOOSE a \in fits : \A b \in fits : a <= b
<1>1. kzalloc(m, n) = IF n = 0 \/ fits = {} THEN NULL ELSE low BY DEF kzalloc
<1>2. fits # {} => low \in fits BY PagesFacts, LowestOf
<1>3. ASSUME n = 1, NEW a \in Pages \ Taken(m.heap) PROVE a \in fits
  <2>1. a + n - 1 = a /\ a <= NumPages BY <1>3, PagesFacts DEF Pages
  <2>2. \A x \in a .. a : x = a BY PagesFacts
  <2> QED BY <2>1, <2>2
<1>4. fits # {} => low # NULL BY <1>2, PagesFacts
<1> HIDE DEF low
<1> QED BY <1>1, <1>2, <1>3, <1>4

LEMMA MemoryFields ==
  ASSUME NEW m \in Memory
  PROVE  /\ m.heap \subseteq BlockType
         /\ m.dir \in [Procs -> [Virtual -> EntryType]]
         /\ m.allocations \in [Procs -> [Indexes -> AllocationType]]
BY DEF Memory

LEMMA BlockFacts ==
  ASSUME NEW b \in BlockType
  PROVE  b.at \in PagesOf(b) /\ b.at \in Nat /\ b.n \in Nat /\ b.n >= 1 /\ b.at \in Pages
<1>1. b.at \in Pages /\ b.n \in Nat \ {0} BY DEF BlockType
<1>2. b.at \in Nat /\ b.n \in Nat /\ b.n >= 1
  <2>1. \A n \in Nat \ {0} : n \in Nat /\ n >= 1 OBVIOUS
  <2>2. \A a \in Pages : a \in Nat BY PagesFacts
  <2> QED BY <1>1, <2>1, <2>2
<1>3. b.at \in b.at .. b.at + b.n - 1 BY <1>2
<1> QED BY <1>1, <1>2, <1>3 DEF PagesOf

(* Blocks begin at different pages.                                        *)
LEMMA SameStart ==
  ASSUME NEW m, HeapOK(m), NEW b \in m.heap, NEW c \in m.heap, b.at = c.at
  PROVE  b = c
<1>1. b \in BlockType /\ c \in BlockType BY MemoryFields DEF HeapOK
<1>2. b.at \in PagesOf(b) /\ c.at \in PagesOf(c) BY <1>1, BlockFacts
<1> QED BY <1>2 DEF HeapOK

(* One more block, in free pages.                                          *)
LEMMA TakeOK ==
  ASSUME NEW m, HeapOK(m), NEW b \in BlockType, b.at + b.n - 1 <= NumPages,
         \A x \in PagesOf(b) : x \notin Taken(m.heap)
  PROVE  /\ HeapOK(Take(m, b))
         /\ Take(m, b).heap = m.heap \cup {b}
         /\ Take(m, b).dir = m.dir /\ Take(m, b).allocations = m.allocations
<1>1. m \in Memory BY DEF HeapOK
<1>2. /\ Take(m, b).heap = m.heap \cup {b} /\ Take(m, b) \in Memory
      /\ Take(m, b).dir = m.dir /\ Take(m, b).allocations = m.allocations
  BY <1>1 DEF Take, Memory
<1>3. \A c \in m.heap : PagesOf(b) \cap PagesOf(c) = {} BY TakenFacts
<1> QED BY <1>2, <1>3 DEF HeapOK

LEMMA FewerBlocks ==
  ASSUME NEW m, HeapOK(m), NEW k \in Memory, k.heap \subseteq m.heap
  PROVE  HeapOK(k)
BY DEF HeapOK

-----------------------------------------------------------------------------
(* What process_malloc and process_free do to the memory *)

(* k is m with an allocation of n pages at a, in entry i of p's table.     *)
Grown(m, k, p, i, a, n) ==
  /\ k \in Memory
  /\ k.heap = m.heap \cup {Block(a, n, p, "data")}
  /\ \A q \in Procs \ {p} : k.dir[q] = m.dir[q] /\ k.allocations[q] = m.allocations[q]
  /\ \A v \in Virtual : k.dir[p][v] = IF v \in a .. a + n - 1 THEN Entry(v, TRUE, TRUE)
                                                               ELSE m.dir[p][v]
  /\ \A j \in Indexes : k.allocations[p][j] = IF j = i THEN [ptr |-> a, size |-> n]
                                                       ELSE m.allocations[p][j]

(* k is m without the allocation in entry i of p's table.                  *)
Shrunk(m, k, p, i) ==
  /\ k \in Memory
  /\ k.heap = {b \in m.heap : b.at # m.allocations[p][i].ptr}
  /\ \A q \in Procs \ {p} : k.dir[q] = m.dir[q] /\ k.allocations[q] = m.allocations[q]
  /\ \A v \in Virtual : k.dir[p][v] = IF v \in Span(m.allocations[p][i])
                                      THEN Entry(v, FALSE, FALSE) ELSE m.dir[p][v]
  /\ \A j \in Indexes : k.allocations[p][j] = IF j = i THEN Unused ELSE m.allocations[p][j]

(* n pages at a are free.                                                  *)
Room(m, a, n) ==
  /\ a \in Pages /\ n \in Nat \ {0} /\ a + n - 1 <= NumPages
  /\ \A x \in a .. a + n - 1 : x \notin Taken(m.heap)

LEMMA EntryOK ==
  ASSUME NEW v \in Virtual, NEW w \in BOOLEAN, NEW p \in BOOLEAN
  PROVE  /\ Entry(v, w, p) \in EntryType
         /\ Entry(v, w, p).phys = v /\ Entry(v, w, p).w = w /\ Entry(v, w, p).p = p
BY DEF Entry, EntryType

(* d is dir with n pages from a mapped to themselves, with the flags w.    *)
Mapped(dir, d, a, n, w) ==
  /\ d \in [Virtual -> EntryType]
  /\ \A v \in Virtual : d[v] = IF v \in a .. a + n - 1 THEN Entry(v, w, w) ELSE dir[v]

LEMMA AndBack ==
  ASSUME NEW a \in Nat
  PROVE  \A v \in Virtual : a + (v - a) = v
<1>1. \A v \in Nat : a + (v - a) = v OBVIOUS
<1> QED BY <1>1, PagesFacts

LEMMA MapsIn ==
  ASSUME NEW dir \in [Virtual -> EntryType], NEW a \in Nat, NEW n \in Nat
  PROVE  Mapped(dir, paging_map_to(dir, a, a, n, TRUE, TRUE), a, n, TRUE)
<1> DEFINE d == paging_map_to(dir, a, a, n, TRUE, TRUE)
<1>1. \A v \in Virtual : a + (v - a) = v BY AndBack
<1>2. \A v \in Virtual : d[v] = IF v \in a .. a + n - 1 THEN Entry(v, TRUE, TRUE) ELSE dir[v]
  BY <1>1 DEF paging_map_to
<1>3. \A v \in Virtual : Entry(v, TRUE, TRUE) \in EntryType BY EntryOK
<1>4. d = [v \in Virtual |-> d[v]] BY DEF paging_map_to
<1> HIDE DEF d
<1>5. \A v \in Virtual : d[v] \in EntryType BY <1>2, <1>3
<1>6. d \in [Virtual -> EntryType] BY <1>4, <1>5
<1> QED BY <1>2, <1>6 DEF d, Mapped

LEMMA MapsOut ==
  ASSUME NEW dir \in [Virtual -> EntryType], NEW a \in Nat, NEW n \in Nat
  PROVE  Mapped(dir, paging_map_to(dir, a, a, n, FALSE, FALSE), a, n, FALSE)
<1> DEFINE d == paging_map_to(dir, a, a, n, FALSE, FALSE)
<1>1. \A v \in Virtual : a + (v - a) = v BY AndBack
<1>2. \A v \in Virtual : d[v] = IF v \in a .. a + n - 1 THEN Entry(v, FALSE, FALSE) ELSE dir[v]
  BY <1>1 DEF paging_map_to
<1>3. \A v \in Virtual : Entry(v, FALSE, FALSE) \in EntryType BY EntryOK
<1>4. d = [v \in Virtual |-> d[v]] BY DEF paging_map_to
<1> HIDE DEF d
<1>5. \A v \in Virtual : d[v] \in EntryType BY <1>2, <1>3
<1>6. d \in [Virtual -> EntryType] BY <1>4, <1>5
<1> QED BY <1>2, <1>6 DEF d, Mapped

LEMMA MallocResult ==
  ASSUME NEW m, HeapOK(m), NEW p \in Procs, NEW n \in Nat
  PROVE  \/ process_malloc(m, p, n).ptr = NULL /\ process_malloc(m, p, n).m = m
         \/ \E i \in Indexes :
              /\ m.allocations[p][i].ptr = NULL
              /\ Room(m, process_malloc(m, p, n).ptr, n)
              /\ Grown(m, process_malloc(m, p, n).m, p, i, process_malloc(m, p, n).ptr, n)
<1> DEFINE a == kzalloc(m, n)
           i == process_find_free_allocations_index(m, p)
           b == Block(a, n, p, "data")
           k == [Take(m, b) EXCEPT !.dir[p] = paging_map_to(@, a, a, n, TRUE, TRUE),
                                   !.allocations[p][i] = [ptr |-> a, size |-> n]]
<1>1. CASE a = NULL \/ FreeIndexes(m, p) = {}
  BY <1>1 DEF process_malloc
<1>2. CASE ~(a = NULL \/ FreeIndexes(m, p) = {})
  <2>1. process_malloc(m, p, n).ptr = a /\ process_malloc(m, p, n).m = k
    BY <1>2 DEF process_malloc
  <2>2. Room(m, a, n)
    <3>1. /\ n # 0 /\ a \in Pages /\ a + n - 1 <= NumPages
          /\ \A x \in a .. a + n - 1 : x \notin Taken(m.heap)
      BY <1>2, kzallocOK
    <3> HIDE DEF a
    <3> QED BY <3>1 DEF Room
  <2>3. i \in Indexes /\ m.allocations[p][i].ptr = NULL
    <3>1. FreeIndexes(m, p) \subseteq Nat BY MemoryAssumption DEF FreeIndexes, Indexes
    <3>2. i \in FreeIndexes(m, p)
      BY <1>2, <3>1, LowestOf DEF process_find_free_allocations_index
    <3> QED BY <3>2 DEF FreeIndexes
  <2> HIDE DEF a, i
  <2>4. a \in Nat /\ a \in Pages /\ n \in Nat \ {0} BY <2>2, PagesFacts DEF Room
  <2>5. b \in BlockType /\ b.at = a /\ b.n = n BY <2>4 DEF Block, BlockType, Kinds
  <2>6. /\ HeapOK(Take(m, b)) /\ Take(m, b).heap = m.heap \cup {b}
        /\ Take(m, b).dir = m.dir /\ Take(m, b).allocations = m.allocations
    BY <2>2, <2>5, TakeOK DEF Room, PagesOf
  <2> HIDE DEF b
  <2> DEFINE t == Take(m, b)
             d == paging_map_to(m.dir[p], a, a, n, TRUE, TRUE)
  <2>7. t \in Memory /\ m \in Memory BY <2>6 DEF HeapOK
  <2>8. m.dir[p] \in [Virtual -> EntryType] /\ m.allocations[p] \in [Indexes -> AllocationType]
    BY <2>7, MemoryFields
  <2>9. /\ d \in [Virtual -> EntryType]
        /\ \A v \in Virtual : d[v] = IF v \in a .. a + n - 1 THEN Entry(v, TRUE, TRUE) ELSE m.dir[p][v]
    <3>1. n \in Nat OBVIOUS
    <3>2. Mapped(m.dir[p], d, a, n, TRUE) BY <2>4, <2>8, <3>1, MapsIn
    <3> HIDE DEF d
    <3> QED BY <3>2 DEF Mapped
  <2>10. [ptr |-> a, size |-> n] \in AllocationType BY <2>4 DEF AllocationType
  <2>11. k = [t EXCEPT !.dir[p] = d, !.allocations[p][i] = [ptr |-> a, size |-> n]]
    BY <2>6
  <2> HIDE DEF k, d, t
  <2>12. /\ k.heap = t.heap /\ k.dir = [t.dir EXCEPT ![p] = d]
         /\ k.allocations = [t.allocations EXCEPT ![p][i] = [ptr |-> a, size |-> n]]
         /\ k \in Memory
    BY <2>3, <2>7, <2>9, <2>10, <2>11 DEF Memory
  <2>13. Grown(m, k, p, i, a, n)
    <3>1. k.heap = m.heap \cup {b} /\ t.dir = m.dir /\ t.allocations = m.allocations
      BY <2>6, <2>12 DEF t
    <3>2. \A q \in Procs \ {p} : k.dir[q] = m.dir[q] /\ k.allocations[q] = m.allocations[q]
      BY <2>7, <2>12, <3>1, MemoryFields
    <3>3. k.dir[p] = d BY <2>7, <2>12, <3>1, MemoryFields
    <3>4. \A j \in Indexes : k.allocations[p][j] = IF j = i THEN [ptr |-> a, size |-> n]
                                                   ELSE m.allocations[p][j]
      BY <2>7, <2>8, <2>12, <3>1, MemoryFields
    <3> QED BY <2>9, <2>12, <3>1, <3>2, <3>3, <3>4 DEF Grown, b
  <2> QED BY <2>1, <2>2, <2>3, <2>13
<1> QED BY <1>1, <1>2

LEMMA FreeResult ==
  ASSUME NEW m, HeapOK(m), NEW p \in Procs, NEW ptr
  PROVE  \/ /\ process_free(m, p, ptr) = m
            /\ ptr = NULL \/ \A i \in Indexes : m.allocations[p][i].ptr # ptr
         \/ /\ ptr # NULL
            /\ \E i \in Indexes : /\ m.allocations[p][i].ptr = ptr
                                  /\ Shrunk(m, process_free(m, p, ptr), p, i)
<1> DEFINE i == process_get_allocation_index_by_addr(m, p, ptr)
           a == m.allocations[p][i]
           d == paging_map_to(m.dir[p], ptr, ptr, a.size, FALSE, FALSE)
           e == [m EXCEPT !.dir[p] = d, !.allocations[p][i] = Unused]
           k == kfree(e, ptr)
<1>1. CASE ptr = NULL \/ IndexesOf(m, p, ptr) = {}
  BY <1>1 DEF process_free, IndexesOf
<1>2. CASE ~(ptr = NULL \/ IndexesOf(m, p, ptr) = {})
  <2>1. process_free(m, p, ptr) = k
    BY <1>2 DEF process_free
  <2>2. i \in Indexes /\ a.ptr = ptr
    <3>1. IndexesOf(m, p, ptr) \subseteq Nat BY MemoryAssumption DEF IndexesOf, Indexes
    <3>2. i \in IndexesOf(m, p, ptr)
      BY <1>2, <3>1, LowestOf DEF process_get_allocation_index_by_addr
    <3> QED BY <3>2 DEF IndexesOf
  <2> HIDE DEF i
  <2>3. /\ m \in Memory /\ m.dir[p] \in [Virtual -> EntryType]
        /\ m.allocations[p] \in [Indexes -> AllocationType]
    BY MemoryFields DEF HeapOK
  <2>4. a \in AllocationType /\ a.size \in Nat /\ ptr \in Nat
    <3>1. a \in AllocationType BY <2>2, <2>3
    <3> HIDE DEF a
    <3>2. a.ptr \in Pages \cup {NULL} /\ a.size \in Nat BY <3>1 DEF AllocationType
    <3>3. ptr \in Pages BY <1>2, <2>2, <3>2
    <3>4. ptr \in Nat BY <3>3, PagesFacts
    <3> QED BY <3>1, <3>2, <3>4
  <2> HIDE DEF a
  <2>5. /\ d \in [Virtual -> EntryType]
        /\ \A v \in Virtual : d[v] = IF v \in Span(a) THEN Entry(v, FALSE, FALSE) ELSE m.dir[p][v]
    <3>1. /\ d \in [Virtual -> EntryType]
          /\ \A v \in Virtual : d[v] = IF v \in ptr .. ptr + a.size - 1
                                       THEN Entry(v, FALSE, FALSE) ELSE m.dir[p][v]
      <4>1. Mapped(m.dir[p], d, ptr, a.size, FALSE) BY <2>3, <2>4, MapsOut
      <4> HIDE DEF d
      <4> QED BY <4>1 DEF Mapped
    <3>2. Span(a) = ptr .. ptr + a.size - 1 BY <2>2 DEF Span
    <3> QED BY <3>1, <3>2
  <2> HIDE DEF d
  <2>6. Unused \in AllocationType BY DEF Unused, AllocationType
  <2>7. /\ e.heap = m.heap /\ e.dir = [m.dir EXCEPT ![p] = d]
        /\ e.allocations = [m.allocations EXCEPT ![p][i] = Unused] /\ e \in Memory
    BY <2>2, <2>3, <2>5, <2>6 DEF Memory
  <2> HIDE DEF e
  <2>8. /\ k.heap = {b \in m.heap : b.at # ptr} /\ k.dir = e.dir /\ k.allocations = e.allocations
        /\ k \in Memory
    BY <2>7 DEF kfree, Memory
  <2> HIDE DEF k
  <2>9. Shrunk(m, k, p, i)
    <3>1. \A q \in Procs \ {p} : k.dir[q] = m.dir[q] /\ k.allocations[q] = m.allocations[q]
      BY <2>3, <2>7, <2>8, MemoryFields
    <3>2. k.dir[p] = d BY <2>3, <2>7, <2>8, MemoryFields
    <3>3. \A j \in Indexes : k.allocations[p][j] = IF j = i THEN Unused ELSE m.allocations[p][j]
      BY <2>3, <2>7, <2>8, MemoryFields
    <3> QED BY <2>2, <2>5, <2>8, <3>1, <3>2, <3>3 DEF Shrunk, a
  <2> QED BY <1>2, <2>1, <2>2, <2>9 DEF a
<1> QED BY <1>1, <1>2

-----------------------------------------------------------------------------
(* What changes of the memory keep *)

(* What processes have in m they still have in k.                          *)
Keeps(m, k, p) ==
  /\ ImageOK(m, p) => ImageOK(k, p)
  /\ Guarded(m, p) => Guarded(k, p)
  /\ \A a \in Pages : Single(m, p, a) => Single(k, p, a)

LEMMA PagesInHeap ==
  ASSUME NEW m, HeapOK(m), NEW b \in m.heap
  PROVE  b \in BlockType /\ PagesOf(b) \subseteq Pages /\ PagesOf(b) \subseteq Taken(m.heap)
<1>1. b \in BlockType BY MemoryFields DEF HeapOK
<1>2. b.at \in Pages /\ b.at \in Nat /\ b.n \in Nat BY <1>1, BlockFacts
<1>3. b.at >= 1 BY <1>2, PagesFacts DEF Pages
<1>4. b.at + b.n - 1 <= NumPages BY DEF HeapOK
<1>5. PagesOf(b) \subseteq Pages BY <1>2, <1>3, <1>4, PagesFacts DEF PagesOf, Pages
<1> QED BY <1>1, <1>5, TakenFacts

(* An entry of a table in use.                                             *)
LEMMA TableFacts ==
  ASSUME NEW m, HeapOK(m), NEW p \in Procs, TableOK(m, p), NEW i \in Indexes,
         m.allocations[p][i].ptr # NULL
  PROVE  LET a == m.allocations[p][i]
             b == Block(a.ptr, a.size, p, "data")
         IN  /\ b \in m.heap /\ b \in BlockType
             /\ b.at = a.ptr /\ b.n = a.size /\ b.who = p /\ b.what = "data"
             /\ Span(a) = PagesOf(b) /\ Span(a) \subseteq Pages /\ Span(a) \subseteq Taken(m.heap)
             /\ a.ptr \in Span(a) /\ a.ptr \in Pages /\ a \in AllocationType
<1> DEFINE a == m.allocations[p][i]
           b == Block(a.ptr, a.size, p, "data")
<1>1. b \in m.heap BY DEF TableOK
<1>2. b.at = a.ptr /\ b.n = a.size /\ b.who = p /\ b.what = "data" BY DEF Block
<1>3. Span(a) = PagesOf(b) BY <1>2 DEF Span, PagesOf
<1>4. a \in AllocationType BY MemoryFields DEF HeapOK
<1> HIDE DEF a, b
<1>5. b \in BlockType /\ PagesOf(b) \subseteq Pages /\ PagesOf(b) \subseteq Taken(m.heap)
  BY <1>1, PagesInHeap
<1>6. b.at \in PagesOf(b) BY <1>5, BlockFacts
<1>7. a.ptr \in Span(a) /\ a.ptr \in Pages BY <1>2, <1>3, <1>5, <1>6
<1> QED BY <1>1, <1>2, <1>3, <1>4, <1>5, <1>7 DEF a, b

(* An allocation more.                                                     *)
LEMMA GrownOK ==
  ASSUME NEW L, L \subseteq Procs, NEW m, MemoryOK(m, L), NEW k, NEW p \in L,
         NEW i \in Indexes, m.allocations[p][i].ptr = NULL,
         NEW a, NEW n, Room(m, a, n), Grown(m, k, p, i, a, n)
  PROVE  MemoryOK(k, L) /\ \A q \in L : Keeps(m, k, q)
<1> DEFINE b == Block(a, n, p, "data")
           new == [ptr |-> a, size |-> n]
<1>1. HeapOK(m) /\ OwnersOK(m, L) /\ \A q \in L : TableOK(m, q) BY DEF MemoryOK
<1>2. p \in Procs OBVIOUS
<1>3. a \in Pages /\ a \in Nat /\ n \in Nat \ {0}
  BY PagesFacts DEF Room
<1>4. b \in BlockType BY <1>2, <1>3 DEF Block, BlockType, Kinds
<1>5. b.at = a /\ b.n = n /\ b.who = p /\ b.what = "data" BY DEF Block
<1>6. PagesOf(b) = a .. a + n - 1 BY <1>5 DEF PagesOf
<1>7. new.ptr = a /\ new.size = n OBVIOUS
<1>8. /\ k \in Memory /\ k.heap = m.heap \cup {b}
      /\ \A q \in Procs \ {p} : k.dir[q] = m.dir[q] /\ k.allocations[q] = m.allocations[q]
      /\ \A v \in Virtual : k.dir[p][v] = IF v \in PagesOf(b) THEN Entry(v, TRUE, TRUE)
                                                                ELSE m.dir[p][v]
      /\ k.allocations[p][i] = new
      /\ \A j \in Indexes : j # i => k.allocations[p][j] = m.allocations[p][j]
  BY <1>6 DEF Grown
<1>9. Span(new) = PagesOf(b) BY <1>5, <1>7 DEF Span, PagesOf
<1>10. \A x \in PagesOf(b) : x \notin Taken(m.heap) BY <1>6 DEF Room
<1>11. b.at + b.n - 1 <= NumPages BY <1>5 DEF Room
<1> HIDE DEF b, new
<1>12. HeapOK(k)
  <2>1. HeapOK(Take(m, b)) /\ Take(m, b).heap = m.heap \cup {b}
    BY <1>1, <1>4, <1>10, <1>11, TakeOK
  <2> QED BY <1>8, <2>1, FewerBlocks
<1>13. PagesOf(b) \subseteq Pages /\ a \in PagesOf(b)
  BY <1>4, <1>5, <1>8, <1>12, PagesInHeap, BlockFacts
<1>14. m.heap \subseteq k.heap /\ b \in k.heap BY <1>8
<1>15. \A q \in L, j \in Indexes : q # p \/ j # i =>
         k.allocations[q][j] = m.allocations[q][j]
  BY <1>8
<1>16. \A q \in L, v \in Virtual : q # p => k.dir[q][v] = m.dir[q][v]
  BY <1>8
<1>17. OwnersOK(k, L)
  <2> SUFFICES ASSUME NEW c \in k.heap
               PROVE  /\ c.what \in {"data", "image"} => c.who \in L
                      /\ c.what = "data" =>
                           \E j \in Indexes : k.allocations[c.who][j] = [ptr |-> c.at, size |-> c.n]
                      /\ c.what = "image" =>
                           /\ c.n = 1
                           /\ \A d \in k.heap : d.what = "image" /\ d.who = c.who => d = c
    BY DEF OwnersOK
  <2>1. CASE c = b
    BY <1>5, <1>8, <2>1 DEF new
  <2>2. CASE c \in m.heap
    <3>1. c.what \in {"data", "image"} => c.who \in L BY <1>1, <2>2 DEF OwnersOK
    <3>2. ASSUME c.what = "data"
          PROVE  \E j \in Indexes : k.allocations[c.who][j] = [ptr |-> c.at, size |-> c.n]
      <4>1. PICK j \in Indexes : m.allocations[c.who][j] = [ptr |-> c.at, size |-> c.n]
        BY <1>1, <2>2, <3>2 DEF OwnersOK
      <4>2. m.allocations[c.who][j].ptr = c.at BY <4>1
      <4>3. c.at # NULL BY <1>1, <2>2, PagesInHeap, BlockFacts, PagesFacts
      <4>4. c.who # p \/ j # i BY <4>2, <4>3
      <4> QED BY <1>15, <3>1, <3>2, <4>1, <4>4
    <3>3. ASSUME c.what = "image"
          PROVE  c.n = 1 /\ \A d \in k.heap : d.what = "image" /\ d.who = c.who => d = c
      BY <1>1, <1>5, <1>8, <2>2, <3>3 DEF OwnersOK
    <3> QED BY <3>1, <3>2, <3>3
  <2> QED BY <1>8, <2>1, <2>2
<1>18. ASSUME NEW q \in L, NEW j \in Indexes, q # p \/ j # i
       PROVE  /\ k.allocations[q][j].ptr = NULL => k.allocations[q][j] = Unused
              /\ k.allocations[q][j].ptr # NULL =>
                   /\ Block(k.allocations[q][j].ptr, k.allocations[q][j].size, q, "data") \in k.heap
                   /\ \A v \in Span(k.allocations[q][j]) : k.dir[q][v] = Entry(v, TRUE, TRUE)
  <2>1. k.allocations[q][j] = m.allocations[q][j] BY <1>15, <1>18
  <2>2. TableOK(m, q) /\ q \in Procs BY <1>1
  <2> DEFINE e == m.allocations[q][j]
  <2>3. e.ptr = NULL => e = Unused BY <2>2 DEF TableOK
  <2>4. ASSUME e.ptr # NULL
        PROVE  /\ Block(e.ptr, e.size, q, "data") \in k.heap
               /\ \A v \in Span(e) : k.dir[q][v] = Entry(v, TRUE, TRUE)
    <3>1. Block(e.ptr, e.size, q, "data") \in m.heap /\ Span(e) \subseteq Pages
      BY <1>1, <2>2, <2>4, TableFacts
    <3>2. \A v \in Span(e) : m.dir[q][v] = Entry(v, TRUE, TRUE) BY <2>2, <2>4 DEF TableOK
    <3>3. \A v \in Span(e) : v \in Virtual BY <3>1, PagesFacts
    <3>4. \A v \in Span(e) : k.dir[q][v] = Entry(v, TRUE, TRUE)
      BY <1>8, <1>16, <3>2, <3>3
    <3> QED BY <1>14, <3>1, <3>4
  <2> QED BY <2>1, <2>3, <2>4
<1>19. ASSUME NEW j \in Indexes, j # i PROVE k.allocations[p][j].ptr # a
  <2>1. k.allocations[p][j] = m.allocations[p][j] BY <1>8, <1>19
  <2>2. m.allocations[p][j].ptr # NULL => m.allocations[p][j].ptr \in Taken(m.heap)
    BY <1>1, <1>2, TableFacts
  <2> QED BY <1>3, <1>10, <1>13, <2>1, <2>2, PagesFacts
<1>20. ASSUME NEW q \in L PROVE TableOK(k, q)
  <2>1. TableOK(m, q) BY <1>1
  <2>2. ASSUME NEW j \in Indexes
        PROVE  /\ k.allocations[q][j].ptr = NULL => k.allocations[q][j] = Unused
               /\ k.allocations[q][j].ptr # NULL =>
                    /\ Block(k.allocations[q][j].ptr, k.allocations[q][j].size, q, "data") \in k.heap
                    /\ \A v \in Span(k.allocations[q][j]) : k.dir[q][v] = Entry(v, TRUE, TRUE)
    <3>1. CASE q # p \/ j # i BY <1>18, <3>1
    <3>2. CASE q = p /\ j = i
      <4>1. k.allocations[q][j] = new BY <1>8, <3>2
      <4>2. new.ptr # NULL BY <1>3, <1>7, PagesFacts
      <4>3. Block(new.ptr, new.size, q, "data") = b BY <1>7, <3>2 DEF b
      <4>4. \A v \in Span(new) : k.dir[q][v] = Entry(v, TRUE, TRUE)
        BY <1>8, <1>9, <1>13, <3>2, PagesFacts
      <4> QED BY <1>14, <4>1, <4>2, <4>3, <4>4
    <3> QED BY <3>1, <3>2
  <2>3. ASSUME NEW j \in Indexes, NEW h \in Indexes, j # h, k.allocations[q][j].ptr # NULL
        PROVE  k.allocations[q][j].ptr # k.allocations[q][h].ptr
    <3>1. CASE q # p
      BY <1>15, <2>1, <2>3, <3>1 DEF TableOK
    <3>2. CASE q = p /\ j # i /\ h # i
      BY <1>15, <2>1, <2>3, <3>2 DEF TableOK
    <3>3. CASE q = p /\ j = i
      BY <1>7, <1>8, <1>19, <2>3, <3>3
    <3>4. CASE q = p /\ h = i
      BY <1>7, <1>8, <1>19, <2>3, <3>4
    <3> QED BY <3>1, <3>2, <3>3, <3>4
  <2>4. k.dir[q][0] = Entry(0, FALSE, TRUE)
    BY <1>8, <1>13, <1>16, <2>1, PagesFacts DEF TableOK
  <2> QED BY <2>2, <2>3, <2>4 DEF TableOK
<1>21. ASSUME NEW q \in L PROVE Keeps(m, k, q)
  <2>1. TableOK(m, q) BY <1>1
  <2>2. ImageOK(m, q) => ImageOK(k, q)
    <3>1. k.dir[q][Image] = m.dir[q][Image]
      BY <1>8, <1>13, <1>16, PagesFacts
    <3> QED BY <1>14, <3>1 DEF ImageOK
  <2>3. ASSUME NEW j \in Indexes, m.allocations[q][j].ptr # NULL
        PROVE  k.allocations[q][j] = m.allocations[q][j]
    BY <1>15, <2>3
  <2>4. ASSUME Guarded(m, q), NEW v \in Pages, k.dir[q][v] = Entry(v, TRUE, TRUE)
        PROVE  \E j \in Indexes : k.allocations[q][j].ptr # NULL /\ v \in Span(k.allocations[q][j])
    <3>1. CASE q = p /\ v \in PagesOf(b)
      <4>1. k.allocations[q][i] = new BY <1>8, <3>1
      <4>2. new.ptr # NULL BY <1>3, <1>7, PagesFacts
      <4> QED BY <1>9, <3>1, <4>1, <4>2
    <3>2. CASE ~(q = p /\ v \in PagesOf(b))
      <4>1. m.dir[q][v] = Entry(v, TRUE, TRUE) BY <1>8, <1>16, <2>4, <3>2, PagesFacts
      <4>2. PICK j \in Indexes : m.allocations[q][j].ptr # NULL /\ v \in Span(m.allocations[q][j])
        BY <2>4, <4>1 DEF Guarded
      <4> QED BY <2>3, <4>2
    <3> QED BY <3>1, <3>2
  <2>5. ASSUME NEW s \in Pages, Single(m, q, s) PROVE Single(k, q, s)
    <3>1. PICK j \in Indexes : m.allocations[q][j] = [ptr |-> s, size |-> 1] BY <2>5 DEF Single
    <3>2. m.allocations[q][j].ptr # NULL BY <3>1, PagesFacts
    <3> QED BY <2>3, <3>1, <3>2 DEF Single
  <2> QED BY <2>2, <2>4, <2>5 DEF Keeps, Guarded
<1> QED BY <1>12, <1>17, <1>20, <1>21 DEF MemoryOK

(* k is m without the allocation of p at x: every other one is kept.       *)
Released(L, m, k, p, x) ==
  /\ MemoryOK(k, L)
  /\ \A q \in L : /\ ImageOK(m, q) => ImageOK(k, q)
                  /\ Guarded(m, q) => Guarded(k, q)
                  /\ \A s \in Pages : (q # p \/ s # x) /\ Single(m, q, s) => Single(k, q, s)
  /\ x \notin Taken(k.heap)
  /\ \A s : s \notin Taken(m.heap) => s \notin Taken(k.heap)

LEMMA ShrunkOK ==
  ASSUME NEW L, L \subseteq Procs, NEW m, MemoryOK(m, L), NEW k, NEW p \in L,
         NEW i \in Indexes, m.allocations[p][i].ptr # NULL, Shrunk(m, k, p, i)
  PROVE  Released(L, m, k, p, m.allocations[p][i].ptr)
<1> DEFINE a == m.allocations[p][i]
           b == Block(a.ptr, a.size, p, "data")
<1>1. HeapOK(m) /\ OwnersOK(m, L) /\ \A q \in L : TableOK(m, q) BY DEF MemoryOK
<1>2. p \in Procs OBVIOUS
<1>3. /\ b \in m.heap /\ b \in BlockType
      /\ b.at = a.ptr /\ b.n = a.size /\ b.who = p /\ b.what = "data"
      /\ Span(a) = PagesOf(b) /\ Span(a) \subseteq Pages
      /\ a.ptr \in Span(a) /\ a.ptr \in Pages
  BY <1>1, <1>2, TableFacts
<1>4. /\ k \in Memory /\ k.heap = {c \in m.heap : c.at # a.ptr}
      /\ \A q \in Procs \ {p} : k.dir[q] = m.dir[q] /\ k.allocations[q] = m.allocations[q]
      /\ \A v \in Virtual : k.dir[p][v] = IF v \in Span(a) THEN Entry(v, FALSE, FALSE)
                                                            ELSE m.dir[p][v]
      /\ k.allocations[p][i] = Unused
      /\ \A j \in Indexes : j # i => k.allocations[p][j] = m.allocations[p][j]
  BY DEF Shrunk
<1> HIDE DEF a, b
<1>5. k.heap = m.heap \ {b}
  <2>1. \A c \in m.heap : c.at = a.ptr => c = b BY <1>1, <1>3, SameStart
  <2> QED BY <1>3, <1>4, <2>1
<1>6. HeapOK(k) BY <1>1, <1>4, <1>5, FewerBlocks
<1>7. \A q \in L, j \in Indexes : q # p \/ j # i =>
        k.allocations[q][j] = m.allocations[q][j]
  BY <1>4
<1>8. \A q \in L, v \in Virtual : q # p \/ v \notin Span(a) => k.dir[q][v] = m.dir[q][v]
  BY <1>4
<1>9. ASSUME NEW c \in k.heap PROVE PagesOf(c) \cap PagesOf(b) = {}
  BY <1>1, <1>3, <1>5 DEF HeapOK
<1>10. OwnersOK(k, L)
  <2> SUFFICES ASSUME NEW c \in k.heap
               PROVE  /\ c.what \in {"data", "image"} => c.who \in L
                      /\ c.what = "data" =>
                           \E j \in Indexes : k.allocations[c.who][j] = [ptr |-> c.at, size |-> c.n]
                      /\ c.what = "image" =>
                           /\ c.n = 1
                           /\ \A d \in k.heap : d.what = "image" /\ d.who = c.who => d = c
    BY DEF OwnersOK
  <2>1. c \in m.heap /\ c.at # a.ptr BY <1>4
  <2>2. c.what \in {"data", "image"} => c.who \in L BY <1>1, <2>1 DEF OwnersOK
  <2>3. ASSUME c.what = "data"
        PROVE  \E j \in Indexes : k.allocations[c.who][j] = [ptr |-> c.at, size |-> c.n]
    <3>1. PICK j \in Indexes : m.allocations[c.who][j] = [ptr |-> c.at, size |-> c.n]
      BY <1>1, <2>1, <2>3 DEF OwnersOK
    <3>2. m.allocations[c.who][j].ptr = c.at BY <3>1
    <3>3. c.who # p \/ j # i BY <2>1, <3>2 DEF a
    <3> QED BY <1>7, <2>2, <2>3, <3>1, <3>3
  <2>4. ASSUME c.what = "image"
        PROVE  c.n = 1 /\ \A d \in k.heap : d.what = "image" /\ d.who = c.who => d = c
    BY <1>1, <1>5, <2>1, <2>4 DEF OwnersOK
  <2> QED BY <2>2, <2>3, <2>4
<1>11. ASSUME NEW q \in L, NEW j \in Indexes, q # p \/ j # i, m.allocations[q][j].ptr # NULL
       PROVE  /\ Block(m.allocations[q][j].ptr, m.allocations[q][j].size, q, "data") \in k.heap
              /\ \A v \in Span(m.allocations[q][j]) : k.dir[q][v] = Entry(v, TRUE, TRUE)
  <2> DEFINE e == m.allocations[q][j]
             c == Block(e.ptr, e.size, q, "data")
  <2>1. TableOK(m, q) /\ q \in Procs BY <1>1
  <2>2. /\ c \in m.heap /\ c.at = e.ptr /\ c.who = q
        /\ Span(e) = PagesOf(c) /\ Span(e) \subseteq Pages
    BY <1>1, <1>11, <2>1, TableFacts
  <2>3. \A v \in Span(e) : m.dir[q][v] = Entry(v, TRUE, TRUE) BY <1>11, <2>1 DEF TableOK
  <2>4. q = p => e.ptr # a.ptr BY <1>11, <2>1 DEF TableOK, a
  <2> HIDE DEF e, c
  <2>5. c # b BY <1>3, <2>2, <2>4
  <2>6. c \in k.heap BY <1>5, <2>2, <2>5
  <2>7. \A v \in Span(e) : v \notin Span(a) BY <1>3, <1>9, <2>2, <2>6
  <2>8. \A v \in Span(e) : k.dir[q][v] = Entry(v, TRUE, TRUE)
    BY <1>8, <2>2, <2>3, <2>7, PagesFacts
  <2> QED BY <2>6, <2>8 DEF e, c
<1>12. ASSUME NEW q \in L PROVE TableOK(k, q)
  <2>1. TableOK(m, q) BY <1>1
  <2>2. ASSUME NEW j \in Indexes
        PROVE  /\ k.allocations[q][j].ptr = NULL => k.allocations[q][j] = Unused
               /\ k.allocations[q][j].ptr # NULL =>
                    /\ Block(k.allocations[q][j].ptr, k.allocations[q][j].size, q, "data") \in k.heap
                    /\ \A v \in Span(k.allocations[q][j]) : k.dir[q][v] = Entry(v, TRUE, TRUE)
    <3>1. CASE q # p \/ j # i
      <4>1. k.allocations[q][j] = m.allocations[q][j] BY <1>7, <3>1
      <4>2. m.allocations[q][j].ptr = NULL => m.allocations[q][j] = Unused
        BY <2>1 DEF TableOK
      <4> QED BY <1>11, <3>1, <4>1, <4>2
    <3>2. CASE q = p /\ j = i
      <4>1. k.allocations[q][j] = Unused BY <1>4, <3>2
      <4>2. Unused.ptr = NULL BY DEF Unused
      <4> QED BY <4>1, <4>2
    <3> QED BY <3>1, <3>2
  <2>3. ASSUME NEW j \in Indexes, NEW h \in Indexes, j # h, k.allocations[q][j].ptr # NULL
        PROVE  k.allocations[q][j].ptr # k.allocations[q][h].ptr
    <3>1. Unused.ptr = NULL BY DEF Unused
    <3>2. q # p \/ j # i BY <1>4, <2>3, <3>1
    <3>3. k.allocations[q][j] = m.allocations[q][j] BY <1>7, <3>2
    <3>4. CASE q = p /\ h = i BY <1>4, <2>3, <3>1, <3>4
    <3>5. CASE q # p \/ h # i
      <4>1. k.allocations[q][h] = m.allocations[q][h] BY <1>7, <3>5
      <4> QED BY <2>1, <2>3, <3>3, <4>1 DEF TableOK
    <3> QED BY <3>4, <3>5
  <2>4. k.dir[q][0] = Entry(0, FALSE, TRUE)
    BY <1>3, <1>8, <2>1, PagesFacts DEF TableOK
  <2> QED BY <2>2, <2>3, <2>4 DEF TableOK
<1>13. ASSUME NEW q \in L, ImageOK(m, q) PROVE ImageOK(k, q)
  <2>1. k.dir[q][Image] = m.dir[q][Image] BY <1>3, <1>8, PagesFacts
  <2>2. PICK c \in m.heap : /\ c.who = q /\ c.what = "image"
                            /\ m.dir[q][Image] = Entry(c.at, TRUE, TRUE)
    BY <1>13 DEF ImageOK
  <2>3. c \in k.heap BY <1>3, <1>5, <2>2
  <2> QED BY <2>1, <2>2, <2>3 DEF ImageOK
<1>14. ASSUME NEW q \in L, Guarded(m, q) PROVE Guarded(k, q)
  <2> SUFFICES ASSUME NEW v \in Pages, k.dir[q][v] = Entry(v, TRUE, TRUE)
               PROVE  \E j \in Indexes : /\ k.allocations[q][j].ptr # NULL
                                         /\ v \in Span(k.allocations[q][j])
    BY DEF Guarded
  <2>1. q # p \/ v \notin Span(a)
    <3>1. Entry(v, FALSE, FALSE) # Entry(v, TRUE, TRUE) BY PagesFacts DEF Entry
    <3> QED BY <1>4, <3>1, PagesFacts
  <2>2. m.dir[q][v] = Entry(v, TRUE, TRUE) BY <1>8, <2>1, PagesFacts
  <2>3. PICK j \in Indexes : m.allocations[q][j].ptr # NULL /\ v \in Span(m.allocations[q][j])
    BY <1>14, <2>2 DEF Guarded
  <2>4. q # p \/ j # i BY <2>1, <2>3 DEF a
  <2> QED BY <1>7, <2>3, <2>4
<1>15. ASSUME NEW q \in L, NEW s \in Pages, q # p \/ s # a.ptr, Single(m, q, s)
       PROVE  Single(k, q, s)
  <2>1. PICK j \in Indexes : m.allocations[q][j] = [ptr |-> s, size |-> 1] BY <1>15 DEF Single
  <2>2. m.allocations[q][j].ptr = s BY <2>1
  <2>3. q # p \/ j # i BY <1>15, <2>2 DEF a
  <2> QED BY <1>7, <2>1, <2>3 DEF Single
<1>16. a.ptr \notin Taken(k.heap)
  BY <1>3, <1>9, TakenFacts
<1>17. \A s : s \notin Taken(m.heap) => s \notin Taken(k.heap)
  BY <1>5, TakenFacts
<1>18. MemoryOK(k, L) BY <1>6, <1>10, <1>12 DEF MemoryOK
<1>19. Released(L, m, k, p, a.ptr) BY <1>13, <1>14, <1>15, <1>16, <1>17, <1>18 DEF Released
<1> QED BY <1>19 DEF a

(* process_free of an allocation.                                          *)
LEMMA FreeOK ==
  ASSUME NEW L, L \subseteq Procs, NEW m, MemoryOK(m, L), NEW p \in L, NEW i \in Indexes,
         m.allocations[p][i].ptr # NULL,
         NEW k, k = process_free(m, p, m.allocations[p][i].ptr)
  PROVE  Shrunk(m, k, p, i) /\ Released(L, m, k, p, m.allocations[p][i].ptr)
<1>1. HeapOK(m) /\ p \in Procs /\ TableOK(m, p) BY DEF MemoryOK
<1>2. \E j \in Indexes : m.allocations[p][j].ptr = m.allocations[p][i].ptr /\ Shrunk(m, k, p, j)
  BY <1>1, FreeResult
<1>3. \A j \in Indexes : m.allocations[p][j].ptr = m.allocations[p][i].ptr => j = i
  BY <1>1 DEF TableOK
<1>4. Shrunk(m, k, p, i) BY <1>2, <1>3
<1>5. \A h : Shrunk(m, h, p, i) => Released(L, m, h, p, m.allocations[p][i].ptr) BY ShrunkOK
<1> QED BY <1>4, <1>5

(* k is m with perhaps another block that is neither data nor an image,    *)
(* and another entry for page t in the directory of p.                     *)
Remapped(m, k, p, t) ==
  /\ HeapOK(k)
  /\ m.heap \subseteq k.heap
  /\ \A b \in k.heap : b \in m.heap \/ b.what \in {"struct", "tmp"}
  /\ k.allocations = m.allocations
  /\ \A q \in Procs \ {p} : k.dir[q] = m.dir[q]
  /\ \A v \in Virtual \ {t} : k.dir[p][v] = m.dir[p][v]

(* The block of an allocation, and its pages mapped to themselves.         *)
Backed(m, q, a) ==
  a.ptr # NULL => /\ Block(a.ptr, a.size, q, "data") \in m.heap
                  /\ \A v \in Span(a) : m.dir[q][v] = Entry(v, TRUE, TRUE)

(* The same table over another heap and another page directory.            *)
LEMMA TableKept ==
  ASSUME NEW m, NEW k, NEW q, TableOK(m, q), k.allocations = m.allocations,
         \A j \in Indexes : Backed(k, q, m.allocations[q][j]),
         k.dir[q][0] = Entry(0, FALSE, TRUE)
  PROVE  TableOK(k, q)
<1>1. \A j \in Indexes : m.allocations[q][j].ptr = NULL => m.allocations[q][j] = Unused BY DEF TableOK
<1>2. \A i, j \in Indexes : i # j /\ m.allocations[q][i].ptr # NULL =>
        m.allocations[q][i].ptr # m.allocations[q][j].ptr
  BY DEF TableOK
<1>3. k.allocations[q] = m.allocations[q] OBVIOUS
<1>4. \A j \in Indexes : k.allocations[q][j].ptr = NULL => k.allocations[q][j] = Unused
  BY <1>1, <1>3
<1>5. \A i, j \in Indexes : i # j /\ k.allocations[q][i].ptr # NULL =>
        k.allocations[q][i].ptr # k.allocations[q][j].ptr
  BY <1>2, <1>3
<1>6. \A j \in Indexes : Backed(k, q, k.allocations[q][j]) BY <1>3
<1>7. \A j \in Indexes : LET a == k.allocations[q][j] IN
        a.ptr # NULL => /\ Block(a.ptr, a.size, q, "data") \in k.heap
                        /\ \A v \in Span(a) : k.dir[q][v] = Entry(v, TRUE, TRUE)
  BY <1>6 DEF Backed
<1> QED BY <1>4, <1>5, <1>7 DEF TableOK

(* A page that is free may be mapped to anything; only if it is writeable  *)
(* at its own address, the process is no longer guarded.                   *)
LEMMA RemapOK ==
  ASSUME NEW L, L \subseteq Procs, NEW m, MemoryOK(m, L), NEW k, NEW p \in L,
         NEW t \in Pages, t \notin Taken(m.heap), Remapped(m, k, p, t)
  PROVE  /\ MemoryOK(k, L)
         /\ \A q \in L : q # p \/ k.dir[p][t] # Entry(t, TRUE, TRUE) => Keeps(m, k, q)
         /\ ImageOK(m, p) => ImageOK(k, p)
         /\ \A s \in Pages : Single(m, p, s) => Single(k, p, s)
<1>1. HeapOK(m) /\ OwnersOK(m, L) /\ \A q \in L : TableOK(m, q) BY DEF MemoryOK
<1>2. /\ HeapOK(k) /\ m.heap \subseteq k.heap /\ k.allocations = m.allocations
      /\ \A b \in k.heap : b \in m.heap \/ b.what \in {"struct", "tmp"}
  BY DEF Remapped
<1>3. \A q \in L, v \in Virtual : q # p \/ v # t => k.dir[q][v] = m.dir[q][v]
  BY DEF Remapped
<1>4. OwnersOK(k, L)
  BY <1>1, <1>2 DEF OwnersOK
<1>5. ASSUME NEW q \in L PROVE TableOK(k, q)
  <2>1. TableOK(m, q) /\ q \in Procs BY <1>1
  <2>2. ASSUME NEW j \in Indexes, m.allocations[q][j].ptr # NULL
        PROVE  /\ Block(m.allocations[q][j].ptr, m.allocations[q][j].size, q, "data") \in k.heap
               /\ \A v \in Span(m.allocations[q][j]) : k.dir[q][v] = Entry(v, TRUE, TRUE)
    <3> DEFINE e == m.allocations[q][j]
    <3>1. /\ Block(e.ptr, e.size, q, "data") \in m.heap
          /\ Span(e) \subseteq Pages /\ Span(e) \subseteq Taken(m.heap)
      BY <1>1, <2>1, <2>2, TableFacts
    <3>2. \A v \in Span(e) : m.dir[q][v] = Entry(v, TRUE, TRUE) BY <2>1, <2>2 DEF TableOK
    <3> HIDE DEF e
    <3>3. \A v \in Span(e) : v \in Virtual /\ v # t BY <3>1, PagesFacts
    <3> QED BY <1>2, <1>3, <3>1, <3>2, <3>3 DEF e
  <2>3. k.dir[q][0] = Entry(0, FALSE, TRUE) BY <1>3, <2>1, PagesFacts DEF TableOK
  <2>4. \A j \in Indexes : Backed(k, q, m.allocations[q][j]) BY <2>2 DEF Backed
  <2> QED BY <1>2, <2>1, <2>3, <2>4, TableKept
<1>6. ASSUME NEW q \in L, ImageOK(m, q) PROVE ImageOK(k, q)
  <2>1. k.dir[q][Image] = m.dir[q][Image] BY <1>3, PagesFacts
  <2> QED BY <1>2, <1>6, <2>1 DEF ImageOK
<1>7. \A q \in L, s \in Pages : Single(m, q, s) => Single(k, q, s)
  BY <1>2 DEF Single
<1>8. ASSUME NEW q \in L, q # p \/ k.dir[p][t] # Entry(t, TRUE, TRUE), Guarded(m, q)
      PROVE  Guarded(k, q)
  <2> SUFFICES ASSUME NEW v \in Pages, k.dir[q][v] = Entry(v, TRUE, TRUE)
               PROVE  \E j \in Indexes : /\ m.allocations[q][j].ptr # NULL
                                         /\ v \in Span(m.allocations[q][j])
    BY <1>2 DEF Guarded
  <2>1. q # p \/ v # t BY <1>8
  <2>2. m.dir[q][v] = Entry(v, TRUE, TRUE) BY <1>3, <2>1, PagesFacts
  <2> QED BY <1>8, <2>2 DEF Guarded
<1>9. MemoryOK(k, L) BY <1>2, <1>4, <1>5 DEF MemoryOK
<1> QED BY <1>6, <1>7, <1>8, <1>9 DEF Keeps

(* One page: where kzalloc finds it, and the block it becomes.             *)
LEMMA OnePage ==
  ASSUME NEW m, kzalloc(m, 1) # NULL \/ Pages \ Taken(m.heap) # {}
  PROVE  kzalloc(m, 1) \in Pages /\ kzalloc(m, 1) \notin Taken(m.heap)
<1> DEFINE t == kzalloc(m, 1)
<1>1. t # NULL BY kzallocOK
<1>2. t \in Pages /\ \A x \in t .. t + 1 - 1 : x \notin Taken(m.heap) BY <1>1, kzallocOK
<1> HIDE DEF t
<1>3. t \in Nat BY <1>2, PagesFacts
<1>4. t \in t .. t + 1 - 1 BY <1>3
<1> QED BY <1>2, <1>4 DEF t

LEMMA TakePage ==
  ASSUME NEW m, HeapOK(m), NEW t \in Pages, t \notin Taken(m.heap), NEW p \in Procs,
         NEW what \in Kinds, NEW b, b = Block(t, 1, p, what), NEW k, k = Take(m, b)
  PROVE  /\ b.at = t /\ b.n = 1 /\ b.who = p /\ b.what = what
         /\ HeapOK(k) /\ k.heap = m.heap \cup {b}
         /\ k.dir = m.dir /\ k.allocations = m.allocations
         /\ \A x : x \in Taken(k.heap) => x = t \/ x \in Taken(m.heap)
<1>1. b.at = t /\ b.n = 1 /\ b.who = p /\ b.what = what BY DEF Block
<1>2. b \in BlockType BY DEF Block, BlockType
<1>3. t \in Nat /\ t <= NumPages BY PagesFacts DEF Pages
<1>4. \A x \in PagesOf(b) : x = t
  <2>1. \A x \in t .. t + 1 - 1 : x = t BY <1>3
  <2> QED BY <1>1, <2>1 DEF PagesOf
<1>5. b.at + b.n - 1 <= NumPages BY <1>1, <1>3, PagesFacts
<1>6. /\ HeapOK(k) /\ k.heap = m.heap \cup {b}
      /\ k.dir = m.dir /\ k.allocations = m.allocations
  BY <1>2, <1>4, <1>5, TakeOK
<1>7. \A x : x \in Taken(k.heap) => x = t \/ x \in Taken(m.heap)
  BY <1>4, <1>6, TakenFacts
<1> QED BY <1>1, <1>6, <1>7

(* The string a program passes: NULL, in its image or its data, or in a    *)
(* page that is not present.                                               *)
Passed(m, p, v) ==
  \/ v = NULL \/ v = Image \/ ~m.dir[p][v].p
  \/ \E i \in Indexes : m.allocations[p][i].ptr # NULL /\ v \in Span(m.allocations[p][i])

(* The entry that copy_string_from_task leaves for its tmp page is never   *)
(* one that maps the page to itself and writeable.                         *)
LEMMA OldEntry ==
  ASSUME NEW m, HeapOK(m), NEW p \in Procs, TableOK(m, p), ImageOK(m, p),
         NEW v \in Virtual, v # NULL, Passed(m, p, v), NEW aligned \in BOOLEAN,
         NEW t \in Pages, t \notin Taken(m.heap)
  PROVE  /\ paging_get(m.dir[p], v, aligned) \in EntryType
         /\ paging_get(m.dir[p], v, aligned) # Entry(t, TRUE, TRUE)
<1>1. t \in Virtual /\ t # 0 BY PagesFacts
<1>2. Entry(t, TRUE, TRUE).phys = t /\ Entry(t, TRUE, TRUE).p = TRUE BY DEF Entry
<1>3. m.dir[p] \in [Virtual -> EntryType] BY MemoryFields DEF HeapOK
<1>4. paging_get(m.dir[p], v, aligned) \in EntryType
  BY <1>3, PagesFacts DEF paging_get
<1>5. CASE ~aligned
  <2>1. paging_get(m.dir[p], v, aligned) = Entry(0, FALSE, TRUE)
    BY <1>5 DEF paging_get, TableOK
  <2>2. Entry(0, FALSE, TRUE).phys = 0 BY DEF Entry
  <2> QED BY <1>1, <1>2, <1>4, <2>1, <2>2
<1>6. CASE aligned
  <2>1. paging_get(m.dir[p], v, aligned) = m.dir[p][v] BY <1>6 DEF paging_get
  <2>2. CASE v = Image
    <3>1. PICK b \in m.heap : m.dir[p][Image] = Entry(b.at, TRUE, TRUE) BY DEF ImageOK
    <3>2. b.at \in Taken(m.heap) BY PagesInHeap, BlockFacts
    <3>3. Entry(b.at, TRUE, TRUE).phys = b.at BY DEF Entry
    <3> QED BY <1>2, <1>4, <2>1, <2>2, <3>1, <3>2, <3>3
  <2>3. CASE ~m.dir[p][v].p
    BY <1>2, <1>4, <2>1, <2>3
  <2>4. ASSUME NEW i \in Indexes, m.allocations[p][i].ptr # NULL, v \in Span(m.allocations[p][i])
        PROVE  m.dir[p][v] # Entry(t, TRUE, TRUE)
    <3>1. m.dir[p][v] = Entry(v, TRUE, TRUE) BY <2>4 DEF TableOK
    <3>2. v \in Taken(m.heap) BY <2>4, TableFacts
    <3>3. Entry(v, TRUE, TRUE).phys = v BY DEF Entry
    <3> QED BY <1>2, <3>1, <3>2, <3>3
  <2> QED BY <1>4, <2>1, <2>2, <2>3, <2>4 DEF Passed
<1> QED BY <1>5, <1>6

LEMMA CopyOK ==
  ASSUME NEW L, L \subseteq Procs, NEW m, MemoryOK(m, L), NEW p \in L, ImageOK(m, p),
         NEW v \in Virtual, Passed(m, p, v), NEW aligned \in BOOLEAN
  PROVE  LET c == copy_string_from_task(m, p, v, aligned)
         IN  \/ c.how = "error" /\ c.m = m
             \/ c.how = "ok" /\ MemoryOK(c.m, L) /\ \A q \in L : Keeps(m, c.m, q)
             \/ /\ c.how = "fault" /\ MemoryOK(c.m, L)
                /\ \A q \in L \ {p} : Keeps(m, c.m, q)
                /\ ImageOK(c.m, p)
                /\ \A s \in Pages : Single(m, p, s) => Single(c.m, p, s)
<1> DEFINE t == kzalloc(m, 1)
           d == paging_map_to(m.dir[p], t, t, 1, TRUE, TRUE)
           w == [m EXCEPT !.dir[p] = d]
           old == paging_get(m.dir[p], v, aligned)
           f == Take(w, Block(t, 1, p, "tmp"))
           k == [m EXCEPT !.dir[p][t] = old]
           c == copy_string_from_task(m, p, v, aligned)
<1>1. CASE v = NULL \/ t = NULL
  <2>1. c.how = "error" /\ c.m = m BY <1>1 DEF copy_string_from_task
  <2> QED BY <2>1
<1>2. CASE ~(v = NULL \/ t = NULL)
  <2>1. t \in Pages /\ t \notin Taken(m.heap) BY <1>2, OnePage
  <2>2. \/ c.how = "fault" /\ c.m = f
        \/ c.how = "ok" /\ c.m = k
    BY <1>2 DEF copy_string_from_task
  <2> HIDE DEF t, c
  <2>3. HeapOK(m) /\ TableOK(m, p) /\ p \in Procs /\ m \in Memory BY DEF MemoryOK, HeapOK
  <2>4. t \in Nat /\ t \in Virtual BY <2>1, PagesFacts
  <2>5. m.dir \in [Procs -> [Virtual -> EntryType]] /\ m.dir[p] \in [Virtual -> EntryType]
    BY <2>3, MemoryFields
  <2>6. /\ d \in [Virtual -> EntryType]
        /\ \A x \in Virtual \ {t} : d[x] = m.dir[p][x]
    <3>1. /\ d \in [Virtual -> EntryType]
          /\ \A x \in Virtual : d[x] = IF x \in t .. t + 1 - 1 THEN Entry(x, TRUE, TRUE)
                                                              ELSE m.dir[p][x]
      <4>1. Mapped(m.dir[p], d, t, 1, TRUE) BY <2>4, <2>5, MapsIn
      <4> HIDE DEF d
      <4> QED BY <4>1 DEF Mapped
    <3>2. \A x \in t .. t + 1 - 1 : x = t BY <2>4
    <3> HIDE DEF d
    <3> QED BY <3>1, <3>2
  <2> HIDE DEF d
  <2>7. c.how = "fault" /\ c.m = f =>
          /\ MemoryOK(f, L) /\ \A q \in L \ {p} : Keeps(m, f, q)
          /\ ImageOK(f, p)
          /\ \A s \in Pages : Single(m, p, s) => Single(f, p, s)
    <3>1. /\ w.heap = m.heap /\ w.dir = [m.dir EXCEPT ![p] = d]
          /\ w.allocations = m.allocations /\ w \in Memory
      BY <2>3, <2>6 DEF Memory
    <3> HIDE DEF w
    <3>2. HeapOK(w) BY <2>3, <3>1, FewerBlocks
    <3>3. /\ HeapOK(f) /\ f.heap = w.heap \cup {Block(t, 1, p, "tmp")}
          /\ f.dir = w.dir /\ f.allocations = w.allocations
          /\ Block(t, 1, p, "tmp").what = "tmp"
      BY <2>1, <2>3, <3>1, <3>2, TakePage DEF Kinds
    <3> HIDE DEF f
    <3>4. f.dir[p] = d /\ \A q \in Procs \ {p} : f.dir[q] = m.dir[q]
      BY <2>3, <2>5, <3>1, <3>3
    <3>5. Remapped(m, f, p, t)
      BY <2>6, <3>1, <3>3, <3>4 DEF Remapped
    <3> QED BY <2>1, <3>5, RemapOK
  <2>8. c.how = "ok" /\ c.m = k => MemoryOK(k, L) /\ \A q \in L : Keeps(m, k, q)
    <3>1. old \in EntryType /\ old # Entry(t, TRUE, TRUE)
      BY <1>2, <2>1, <2>3, OldEntry
    <3> HIDE DEF old
    <3>2. /\ k.heap = m.heap /\ k.dir = [m.dir EXCEPT ![p][t] = old]
          /\ k.allocations = m.allocations /\ k \in Memory
      BY <2>3, <2>4, <3>1 DEF Memory
    <3> HIDE DEF k
    <3>3. /\ k.dir[p][t] = old /\ \A x \in Virtual \ {t} : k.dir[p][x] = m.dir[p][x]
          /\ \A q \in Procs \ {p} : k.dir[q] = m.dir[q]
      BY <2>3, <2>4, <2>5, <3>2
    <3>4. HeapOK(k) BY <2>3, <3>2, FewerBlocks
    <3>5. Remapped(m, k, p, t) BY <3>2, <3>3, <3>4 DEF Remapped
    <3> QED BY <2>1, <3>1, <3>3, <3>5, RemapOK
  <2> HIDE DEF f, k
  <2> QED BY <2>2, <2>7, <2>8 DEF c
<1> QED BY <1>1, <1>2

-----------------------------------------------------------------------------
(* A process that is loaded *)

(* k is m with a task_struct s and an image b for p, and a new directory.  *)
Loaded(m, k, p, s, b) ==
  /\ HeapOK(k)
  /\ k.heap = m.heap \cup {s, b}
  /\ s.who = p /\ s.what = "struct"
  /\ b.who = p /\ b.what = "image" /\ b.n = 1
  /\ \A q \in Procs \ {p} : k.dir[q] = m.dir[q] /\ k.allocations[q] = m.allocations[q]
  /\ \A v \in Virtual \ {Image} : k.dir[p][v] = Entry(v, FALSE, TRUE)
  /\ k.dir[p][Image] = Entry(b.at, TRUE, TRUE)
  /\ \A i \in Indexes : k.allocations[p][i] = Unused

LEMMA LoadResult ==
  ASSUME NEW L, L \subseteq Procs, NEW m, MemoryOK(m, L), NEW p \in Procs \ L, CanLoad(m)
  PROVE  \E s, b : Loaded(m, process_load(m, p), p, s, b)
<1> DEFINE t == kzalloc(m, 1)
           s == Block(t, 1, p, "struct")
           o == Take(m, s)
           u == kzalloc(o, 1)
           b == Block(u, 1, p, "image")
           l == Take(o, b)
           d == paging_map_to(paging_new_4gb_chunk, Image, b.at, 1, TRUE, TRUE)
           k == [l EXCEPT !.dir[p] = d, !.allocations[p] = NoAllocations]
<1>1. HeapOK(m) /\ OwnersOK(m, L) /\ p \in Procs BY DEF MemoryOK
<1>2. PICK x \in Pages, y \in Pages : x \notin Taken(m.heap) /\ y \notin Taken(m.heap) /\ x # y
  BY DEF CanLoad
<1>3. t \in Pages /\ t \notin Taken(m.heap) BY <1>2, OnePage
<1>4. l = Allocated(Allocated(m, p, "struct"), p, "image") BY DEF Allocated
<1> HIDE DEF t
<1>5. /\ s.who = p /\ s.what = "struct" /\ HeapOK(o) /\ o.heap = m.heap \cup {s}
      /\ o.dir = m.dir /\ o.allocations = m.allocations
      /\ \A z : z \in Taken(o.heap) => z = t \/ z \in Taken(m.heap)
  <2>1. "struct" \in Kinds BY DEF Kinds
  <2>2. s = Block(t, 1, p, "struct") /\ o = Take(m, s) OBVIOUS
  <2>3. HeapOK(m) /\ p \in Procs BY <1>1
  <2> HIDE DEF s, o
  <2> QED BY <1>3, <2>1, <2>2, <2>3, TakePage
<1> HIDE DEF o, s
<1>6. Pages \ Taken(o.heap) # {} BY <1>2, <1>5
<1>7. u \in Pages /\ u \notin Taken(o.heap) BY <1>6, OnePage
<1> HIDE DEF u
<1>8. /\ b.at = u /\ b.n = 1 /\ b.who = p /\ b.what = "image"
      /\ HeapOK(l) /\ l.heap = o.heap \cup {b}
      /\ l.dir = o.dir /\ l.allocations = o.allocations
  <2>1. "image" \in Kinds BY DEF Kinds
  <2>2. b = Block(u, 1, p, "image") /\ l = Take(o, b) OBVIOUS
  <2>3. HeapOK(o) /\ p \in Procs BY <1>1, <1>5
  <2> HIDE DEF b, l
  <2> QED BY <1>7, <2>1, <2>2, <2>3, TakePage
<1> HIDE DEF l, b
<1>9. BlockOf(l, p, "image") = b
  <2>1. \A c \in m.heap : c.what = "image" => c.who # p BY <1>1 DEF OwnersOK
  <2>2. \A c \in l.heap : c.who = p /\ c.what = "image" => c = b BY <1>5, <1>8, <2>1
  <2>3. b \in l.heap BY <1>8
  <2> QED BY <1>8, <2>2, <2>3 DEF BlockOf
<1>10. process_load(m, p) = k BY <1>4, <1>9 DEF process_load
<1>11. /\ d \in [Virtual -> EntryType] /\ d[Image] = Entry(b.at, TRUE, TRUE)
       /\ \A v \in Virtual \ {Image} : d[v] = Entry(v, FALSE, TRUE)
  <2>1. Image \in Nat /\ b.at \in Nat /\ b.at \in Virtual BY <1>7, <1>8, PagesFacts
  <2>2. Image \in Image .. Image + 1 - 1 /\ \A v \in Image .. Image + 1 - 1 : v = Image
    BY <2>1
  <2>3. b.at + (Image - Image) = b.at BY <2>1
  <2>4. d[Image] = Entry(b.at, TRUE, TRUE)
    BY <2>2, <2>3, PagesFacts DEF paging_map_to
  <2>5. \A v \in Virtual \ {Image} : d[v] = Entry(v, FALSE, TRUE)
    BY <2>2 DEF paging_map_to, paging_new_4gb_chunk
  <2>6. d = [v \in Virtual |-> d[v]] BY DEF paging_map_to
  <2> HIDE DEF d
  <2>7. \A v \in Virtual : Entry(v, FALSE, TRUE) \in EntryType BY EntryOK
  <2>8. Entry(b.at, TRUE, TRUE) \in EntryType BY <2>1, EntryOK
  <2>9. \A v \in Virtual : d[v] \in EntryType BY <2>4, <2>5, <2>7, <2>8
  <2> QED BY <2>4, <2>5, <2>6, <2>9
<1> HIDE DEF d
<1>12. NoAllocations \in [Indexes -> AllocationType] /\ \A i \in Indexes : NoAllocations[i] = Unused
  BY DEF NoAllocations, Unused, AllocationType
<1>13. l \in Memory BY <1>8 DEF HeapOK
<1>14. /\ k.heap = l.heap /\ k.dir = [l.dir EXCEPT ![p] = d]
       /\ k.allocations = [l.allocations EXCEPT ![p] = NoAllocations] /\ k \in Memory
  BY <1>1, <1>11, <1>12, <1>13 DEF Memory
<1> HIDE DEF k
<1>15. HeapOK(k) BY <1>8, <1>14, FewerBlocks
<1>16. /\ k.dir[p] = d /\ k.allocations[p] = NoAllocations
       /\ \A q \in Procs \ {p} : k.dir[q] = m.dir[q] /\ k.allocations[q] = m.allocations[q]
  BY <1>1, <1>5, <1>8, <1>13, <1>14, MemoryFields
<1>17. k.heap = m.heap \cup {s, b} BY <1>5, <1>8, <1>14
<1>18. Loaded(m, k, p, s, b)
  BY <1>5, <1>8, <1>11, <1>12, <1>15, <1>16, <1>17 DEF Loaded
<1> QED BY <1>10, <1>18

LEMMA LoadOK ==
  ASSUME NEW L, L \subseteq Procs, NEW m, MemoryOK(m, L), NEW p \in Procs \ L,
         NEW k, NEW s, NEW b, Loaded(m, k, p, s, b)
  PROVE  /\ MemoryOK(k, L \cup {p})
         /\ \A q \in L : Keeps(m, k, q)
         /\ ImageOK(k, p) /\ Guarded(k, p)
<1>1. HeapOK(m) /\ OwnersOK(m, L) /\ \A q \in L : TableOK(m, q) BY DEF MemoryOK
<1>2. /\ HeapOK(k) /\ k.heap = m.heap \cup {s, b}
      /\ s.who = p /\ s.what = "struct" /\ b.who = p /\ b.what = "image" /\ b.n = 1
      /\ \A q \in L : k.dir[q] = m.dir[q] /\ k.allocations[q] = m.allocations[q]
      /\ \A v \in Virtual \ {Image} : k.dir[p][v] = Entry(v, FALSE, TRUE)
      /\ k.dir[p][Image] = Entry(b.at, TRUE, TRUE)
      /\ \A i \in Indexes : k.allocations[p][i] = Unused
  BY DEF Loaded
<1>3. m.heap \subseteq k.heap BY <1>2
<1>4. OwnersOK(k, L \cup {p})
  <2> SUFFICES ASSUME NEW c \in k.heap
               PROVE  /\ c.what \in {"data", "image"} => c.who \in L \cup {p}
                      /\ c.what = "data" =>
                           \E j \in Indexes : k.allocations[c.who][j] = [ptr |-> c.at, size |-> c.n]
                      /\ c.what = "image" =>
                           /\ c.n = 1
                           /\ \A d \in k.heap : d.what = "image" /\ d.who = c.who => d = c
    BY DEF OwnersOK
  <2>1. \A d \in m.heap : d.what = "image" => d.who # p BY <1>1 DEF OwnersOK
  <2>2. CASE c = s BY <1>2, <2>2
  <2>3. CASE c = b BY <1>2, <2>1, <2>3
  <2>4. CASE c \in m.heap
    <3>1. c.what \in {"data", "image"} => c.who \in L BY <1>1, <2>4 DEF OwnersOK
    <3>2. c.what = "data" =>
            \E j \in Indexes : k.allocations[c.who][j] = [ptr |-> c.at, size |-> c.n]
      BY <1>1, <1>2, <2>4, <3>1 DEF OwnersOK
    <3>3. ASSUME c.what = "image"
          PROVE  c.n = 1 /\ \A d \in k.heap : d.what = "image" /\ d.who = c.who => d = c
      <4>1. c.n = 1 /\ \A d \in m.heap : d.what = "image" /\ d.who = c.who => d = c
        BY <1>1, <2>4, <3>3 DEF OwnersOK
      <4>2. s.what # "image" /\ b.who # c.who BY <1>2, <2>1, <2>4, <3>3
      <4>3. \A d \in k.heap : d \in m.heap \/ d = s \/ d = b BY <1>2
      <4> QED BY <4>1, <4>2, <4>3
    <3> QED BY <3>1, <3>2, <3>3
  <2> QED BY <1>2, <2>2, <2>3, <2>4
<1>5. ASSUME NEW q \in L PROVE TableOK(k, q)
  <2>1. TableOK(m, q) BY <1>1
  <2>2. k.dir[q] = m.dir[q] /\ k.allocations[q] = m.allocations[q] BY <1>2
  <2> QED BY <1>3, <2>1, <2>2 DEF TableOK
<1>6. Unused.ptr = NULL BY DEF Unused
<1>7. TableOK(k, p) BY <1>2, <1>6, PagesFacts DEF TableOK
<1>8. ImageOK(k, p) BY <1>2 DEF ImageOK
<1>9. Guarded(k, p)
  <2>1. ASSUME NEW v \in Pages PROVE k.dir[p][v] # Entry(v, TRUE, TRUE)
    <3>1. k.dir[p][v] = Entry(v, FALSE, TRUE) BY <1>2, PagesFacts
    <3>2. Entry(v, FALSE, TRUE) # Entry(v, TRUE, TRUE) BY DEF Entry
    <3> QED BY <3>1, <3>2
  <2> QED BY <2>1 DEF Guarded
<1>10. ASSUME NEW q \in L PROVE Keeps(m, k, q)
  <2>1. k.dir[q] = m.dir[q] /\ k.allocations[q] = m.allocations[q] BY <1>2
  <2>2. ImageOK(m, q) => ImageOK(k, q) BY <1>3, <2>1 DEF ImageOK
  <2>3. Guarded(m, q) => Guarded(k, q) BY <2>1 DEF Guarded
  <2>4. \A a \in Pages : Single(m, q, a) => Single(k, q, a) BY <2>1 DEF Single
  <2> QED BY <2>2, <2>3, <2>4 DEF Keeps
<1>11. MemoryOK(k, L \cup {p})
  BY <1>2, <1>4, <1>5, <1>7 DEF MemoryOK
<1> QED BY <1>8, <1>9, <1>10, <1>11

-----------------------------------------------------------------------------
(* The image of a process that ends *)

LEMMA kfreeResult ==
  ASSUME NEW m \in Memory, NEW ptr
  PROVE  /\ kfree(m, ptr) \in Memory
         /\ kfree(m, ptr).heap = {b \in m.heap : b.at # ptr}
         /\ kfree(m, ptr).dir = m.dir /\ kfree(m, ptr).allocations = m.allocations
BY DEF kfree, Memory

LEMMA DropOK ==
  ASSUME NEW L, L \subseteq Procs, NEW m, MemoryOK(m, L), NEW p \in L,
         NEW b \in m.heap, b.who = p, b.what = "image",
         NEW k \in Memory, \A c : c \in k.heap <=> c \in m.heap /\ c.at # b.at,
         k.dir = m.dir, k.allocations = m.allocations
  PROVE  /\ MemoryOK(k, L)
         /\ \A q \in L \ {p} : Keeps(m, k, q)
         /\ \A c \in k.heap : c.who = p => c.what # "image"
         /\ \A s : s \notin Taken(m.heap) => s \notin Taken(k.heap)
<1>1. HeapOK(m) /\ OwnersOK(m, L) /\ \A q \in L : TableOK(m, q) BY DEF MemoryOK
<1>2. k.heap = m.heap \ {b}
  <2>1. \A c \in m.heap : c.at = b.at => c = b BY <1>1, SameStart
  <2> QED BY <2>1
<1>3. HeapOK(k) BY <1>1, <1>2, FewerBlocks
<1>4. OwnersOK(k, L) BY <1>1, <1>2 DEF OwnersOK
<1>5. ASSUME NEW q \in L PROVE TableOK(k, q)
  <2>1. TableOK(m, q) /\ q \in Procs BY <1>1
  <2>2. ASSUME NEW j \in Indexes, m.allocations[q][j].ptr # NULL
        PROVE  /\ Block(m.allocations[q][j].ptr, m.allocations[q][j].size, q, "data") \in k.heap
               /\ \A v \in Span(m.allocations[q][j]) : k.dir[q][v] = Entry(v, TRUE, TRUE)
    <3> DEFINE c == Block(m.allocations[q][j].ptr, m.allocations[q][j].size, q, "data")
    <3>1. c \in m.heap /\ c.what = "data" BY <1>1, <2>1, <2>2, TableFacts
    <3> HIDE DEF c
    <3>2. c \in k.heap BY <1>2, <3>1
    <3>3. \A v \in Span(m.allocations[q][j]) : m.dir[q][v] = Entry(v, TRUE, TRUE)
      BY <2>1, <2>2 DEF TableOK
    <3> QED BY <3>2, <3>3 DEF c
  <2>3. k.dir[q][0] = Entry(0, FALSE, TRUE) BY <2>1 DEF TableOK
  <2>4. \A j \in Indexes : Backed(k, q, m.allocations[q][j]) BY <2>2 DEF Backed
  <2> QED BY <2>1, <2>3, <2>4, TableKept
<1>6. ASSUME NEW q \in L \ {p} PROVE Keeps(m, k, q)
  <2>1. ImageOK(m, q) => ImageOK(k, q) BY <1>2 DEF ImageOK
  <2>2. Guarded(m, q) => Guarded(k, q) BY DEF Guarded
  <2>3. \A s \in Pages : Single(m, q, s) => Single(k, q, s) BY DEF Single
  <2> QED BY <2>1, <2>2, <2>3 DEF Keeps
<1>7. \A c \in k.heap : c.who = p => c.what # "image" BY <1>1, <1>2 DEF OwnersOK
<1>8. \A s : s \notin Taken(m.heap) => s \notin Taken(k.heap) BY <1>2, TakenFacts
<1>9. MemoryOK(k, L) BY <1>3, <1>4, <1>5 DEF MemoryOK
<1> QED BY <1>6, <1>7, <1>8, <1>9

-----------------------------------------------------------------------------
(* The steps *)

(* What the invariant says of processes while no loop is under way.        *)
Running(m, p) ==
  /\ ImageOK(m, p) /\ Guarded(m, p)
  /\ \A a \in Arguments(p) : Single(m, p, a)

LEMMA ArgumentsArePages ==
  ASSUME Types, NEW p \in Procs
  PROVE  Arguments(p) \subseteq Pages /\ Strings(p) \subseteq Arguments(p)
<1>1. argument[p] \in ArgumentType BY DEF Types
<1>2. argument[p].argv \in Pages \cup {NULL} /\ argument[p].strings \in Seq(Pages)
  BY <1>1 DEF ArgumentType
<1> DEFINE s == argument[p].strings
<1> HIDE DEF s
<1>3. s \in Seq(Pages) BY <1>2 DEF s
<1>4. s \in [1 .. Len(s) -> Pages] BY <1>3
<1>5. Range(s) \subseteq Pages BY <1>4 DEF Range
<1>6. Strings(p) \subseteq Pages BY <1>5 DEF Strings, s
<1> QED BY <1>2, <1>6, PagesFacts DEF Arguments, Strings

LEMMA KeepsRunning ==
  ASSUME Types, NEW p \in Procs, NEW m, NEW k, Running(m, p), Keeps(m, k, p)
  PROVE  Running(k, p)
BY ArgumentsArePages DEF Running, Keeps

LEMMA InitIInv ==
  ASSUME Init
  PROVE  IInv
<1>1. NoAllocations \in [Indexes -> AllocationType] BY DEF NoAllocations, Unused, AllocationType
<1>2. paging_new_4gb_chunk \in [Virtual -> EntryType] BY EntryOK DEF paging_new_4gb_chunk
<1>3. mem \in Memory /\ mem.heap = {} BY <1>1, <1>2 DEF Init, Memory
<1>4. MemoryOK(mem, {}) BY <1>3 DEF MemoryOK, HeapOK, OwnersOK
<1>5. NoArgument \in ArgumentType BY DEF NoArgument, ArgumentType
<1>6. Types BY <1>5, MemoryAssumption DEF Init, Types
<1> QED BY <1>4, <1>6 DEF Init, IInv

(* A system call without a loop.                                           *)
LEMMA ChangeStep ==
  ASSUME IInv, pc = "user", MemoryOK(mem', live), \A p \in live : Running(mem', p),
         UNCHANGED <<live, argument, stray, garbled, pc, loc>>, copies' \in 0 .. MaxCopies
  PROVE  IInv'
<1>1. Types' BY DEF IInv, Types
<1>2. MemoryOK(mem, live)' OBVIOUS
<1>3. \A p \in live : Arguments(p)' = Arguments(p) BY DEF Arguments
<1>4. \A p \in live' : /\ ImageOK(mem, p)' /\ Guarded(mem, p)'
                        /\ \A a \in Arguments(p)' : Single(mem, p, a)'
  BY <1>3 DEF Running
<1> QED BY <1>1, <1>2, <1>4 DEF IInv

LEMMA AtUser ==
  ASSUME IInv, pc = "user"
  PROVE  Types /\ live \subseteq Procs /\ MemoryOK(mem, live) /\ \A p \in live : Running(mem, p)
BY DEF IInv, Types, Running, Dying

LEMMA NoArguments ==
  ({NoArgument.argv} \cup Range(NoArgument.strings)) \ {NULL} = {} /\ NoArgument \in ArgumentType
<1>1. NoArgument.argv = NULL /\ NoArgument.strings = <<>> /\ NoArgument \in ArgumentType
  BY DEF NoArgument, ArgumentType
<1>2. Range(<<>>) = {} BY DEF Range
<1> QED BY <1>1, <1>2

(* The arguments of p are set to NoArgument.                               *)
LEMMA ArgumentsReset ==
  ASSUME Types, NEW p \in Procs, argument' = [argument EXCEPT ![p] = NoArgument]
  PROVE  /\ argument' \in [Procs -> ArgumentType] /\ argument'[p] = NoArgument
         /\ Arguments(p)' = {}
         /\ \A q \in Procs \ {p} : argument'[q] = argument[q] /\ Arguments(q)' = Arguments(q)
<1>1. argument \in [Procs -> ArgumentType] BY DEF Types
<1>2. /\ argument' \in [Procs -> ArgumentType] /\ argument'[p] = NoArgument
      /\ \A q \in Procs \ {p} : argument'[q] = argument[q]
  BY <1>1, NoArguments
<1>3. Arguments(p)' = {} BY <1>2, NoArguments DEF Arguments
<1>4. \A q \in Procs \ {p} : Arguments(q)' = Arguments(q) BY <1>2 DEF Arguments
<1> QED BY <1>2, <1>3, <1>4

(* A process that starts without arguments.                                *)
LEMMA StartStep ==
  ASSUME IInv, pc = "user", NEW p \in Procs \ live, MemoryOK(mem', live \cup {p}),
         \A q \in live : Running(mem', q), ImageOK(mem', p), Guarded(mem', p),
         live' = live \cup {p}, argument' = [argument EXCEPT ![p] = NoArgument],
         UNCHANGED <<stray, garbled, pc, loc>>, copies' \in 0 .. MaxCopies
  PROVE  IInv'
<1>1. Types BY DEF IInv
<1>2. /\ argument' \in [Procs -> ArgumentType] /\ Arguments(p)' = {}
      /\ \A q \in Procs \ {p} : Arguments(q)' = Arguments(q)
  BY <1>1, ArgumentsReset
<1>3. Types' BY <1>1, <1>2 DEF Types
<1>4. MemoryOK(mem, live)' OBVIOUS
<1>5. ASSUME NEW q \in live'
      PROVE  ImageOK(mem, q)' /\ Guarded(mem, q)' /\ \A a \in Arguments(q)' : Single(mem, q, a)'
  <2>1. CASE q = p BY <1>2, <2>1
  <2>2. CASE q \in live
    <3>1. q \in Procs \ {p} BY <1>1, <2>2 DEF Types
    <3> QED BY <1>2, <2>2, <3>1 DEF Running
  <2> QED BY <2>1, <2>2
<1> QED BY <1>3, <1>4, <1>5 DEF IInv

(* A process that begins to end.                                           *)
LEMMA EndStep ==
  ASSUME IInv, pc = "user", NEW p \in live, MemoryOK(mem', live),
         \A q \in live \ {p} : Running(mem', q), ImageOK(mem', p),
         \A a \in Arguments(p) : Single(mem', p, a),
         Enters("allocations", p, 0, NULL),
         UNCHANGED <<live, argument, stray, garbled>>, copies' \in 0 .. MaxCopies
  PROVE  IInv'
<1>1. Types /\ p \in Procs BY DEF IInv, Types
<1>2. /\ pc' = "allocations"
      /\ loc' = [p |-> p, i |-> 1, argc |-> 0, args |-> [argv |-> NULL, strings |-> <<>>]]
  BY DEF Enters
<1>3. loc'.p = p /\ loc'.i = 1 BY <1>2
<1>4. loc' \in [p : Procs, i : Nat \ {0}, argc : Nat, args : ArgumentType]
  <2>1. NoArgument \in ArgumentType BY NoArguments
  <2> QED BY <1>1, <1>2, <2>1 DEF NoArgument
<1>5. Types' BY <1>1, <1>2, <1>3, <1>4 DEF Types
<1>6. MemoryOK(mem, live)' OBVIOUS
<1>7. \A q : Arguments(q)' = Arguments(q) /\ Strings(q)' = Strings(q) BY DEF Arguments, Strings
<1>8. ASSUME NEW q \in live', q # p
      PROVE  ImageOK(mem, q)' /\ Guarded(mem, q)' /\ \A a \in Arguments(q)' : Single(mem, q, a)'
  BY <1>7, <1>8 DEF Running
<1>9. \A q \in live' : ImageOK(mem, q)' BY <1>8
<1>10. AtAllocations'
  <2>1. \A i \in Indexes : ~(i < 1) BY MemoryAssumption DEF Indexes
  <2>2. Strings(p) \subseteq Arguments(p) BY <1>1, ArgumentsArePages
  <2>3. Strings(loc.p)' = Strings(p) BY <1>3 DEF Strings
  <2>4. \A a \in Strings(loc.p)' : Single(mem', loc'.p, a) BY <1>3, <2>2, <2>3
  <2> QED BY <1>3, <2>1, <2>4 DEF AtAllocations
<1>11. \A q \in live' : ~Dying(q)' => q # p BY <1>2, <1>3 DEF Dying
<1> QED BY <1>2, <1>5, <1>6, <1>8, <1>9, <1>10, <1>11 DEF IInv

LEMMA CopiesType ==
  ASSUME Types, Copies
  PROVE  copies' \in 0 .. MaxCopies
BY MemoryAssumption DEF Types, Copies

LEMMA DataFacts ==
  ASSUME HeapOK(mem), NEW p \in Procs, TableOK(mem, p), NEW v \in DataPages(p)
  PROVE  /\ v \in Pages /\ mem.dir[p][v] = Entry(v, TRUE, TRUE)
         /\ \E i \in Indexes : mem.allocations[p][i].ptr # NULL /\ v \in Span(mem.allocations[p][i])
<1>1. PICK i \in Indexes : mem.allocations[p][i] # Unused /\ v \in Span(mem.allocations[p][i])
  BY DEF DataPages, Span
<1>2. mem.allocations[p][i].ptr # NULL BY <1>1 DEF TableOK
<1>3. v \in Pages BY <1>1, <1>2, TableFacts
<1>4. mem.dir[p][v] = Entry(v, TRUE, TRUE) BY <1>1, <1>2 DEF TableOK
<1> QED BY <1>1, <1>2, <1>3, <1>4

LEMMA PassedOK ==
  ASSUME HeapOK(mem), NEW p \in Procs, TableOK(mem, p), NEW v \in StringPages(p)
  PROVE  v \in Virtual /\ Passed(mem, p, v)
<1>1. CASE v = NULL \/ v = Image BY <1>1, PagesFacts DEF Passed
<1>2. CASE v \in DataPages(p) BY <1>2, DataFacts, PagesFacts DEF Passed
<1>3. CASE v \in Virtual /\ ~mem.dir[p][v].p BY <1>3 DEF Passed
<1> QED BY <1>1, <1>2, <1>3 DEF StringPages

(* What a copy leaves of the memory, for the system calls.                 *)
LEMMA UserCopy ==
  ASSUME IInv, pc = "user", NEW p \in live, NEW aligned \in BOOLEAN, NEW v \in StringPages(p),
         NEW c, c = copy_string_from_task(mem, p, v, aligned)
  PROVE  /\ MemoryOK(c.m, live)
         /\ \A q \in live \ {p} : Running(c.m, q)
         /\ ImageOK(c.m, p) /\ \A a \in Arguments(p) : Single(c.m, p, a)
         /\ c.how # "fault" => Running(c.m, p)
<1>1. Types /\ live \subseteq Procs /\ MemoryOK(mem, live) /\ \A q \in live : Running(mem, q)
  BY AtUser
<1>2. HeapOK(mem) /\ TableOK(mem, p) /\ p \in Procs BY <1>1 DEF MemoryOK
<1>3. v \in Virtual /\ Passed(mem, p, v) BY <1>2, PassedOK
<1>4. ImageOK(mem, p) /\ \A a \in Arguments(p) : Single(mem, p, a) BY <1>1 DEF Running
<1>5. \/ c.how = "error" /\ c.m = mem
      \/ c.how = "ok" /\ MemoryOK(c.m, live) /\ \A q \in live : Keeps(mem, c.m, q)
      \/ /\ c.how = "fault" /\ MemoryOK(c.m, live)
         /\ \A q \in live \ {p} : Keeps(mem, c.m, q)
         /\ ImageOK(c.m, p)
         /\ \A s \in Pages : Single(mem, p, s) => Single(c.m, p, s)
  BY <1>1, <1>3, <1>4, CopyOK
<1>6. \A q \in live : Keeps(mem, c.m, q) => Running(c.m, q) BY <1>1, KeepsRunning
<1>7. Arguments(p) \subseteq Pages BY <1>1, <1>2, ArgumentsArePages
<1>8. CASE c.how = "error" /\ c.m = mem BY <1>1, <1>4, <1>8
<1>9. CASE c.how = "ok" /\ MemoryOK(c.m, live) /\ \A q \in live : Keeps(mem, c.m, q)
  <2>1. \A q \in live : Running(c.m, q) BY <1>6, <1>9
  <2> QED BY <1>9, <2>1 DEF Running
<1>10. CASE /\ c.how = "fault" /\ MemoryOK(c.m, live)
            /\ \A q \in live \ {p} : Keeps(mem, c.m, q)
            /\ ImageOK(c.m, p)
            /\ \A s \in Pages : Single(mem, p, s) => Single(c.m, p, s)
  BY <1>4, <1>6, <1>7, <1>10
<1> QED BY <1>5, <1>8, <1>9, <1>10

LEMMA PrintStep ==
  ASSUME IInv, pc = "user", NEW p \in live, NEW aligned \in BOOLEAN, NEW v \in StringPages(p),
         isr80h_command1_print(p, v, aligned)
  PROVE  IInv'
<1> DEFINE c == copy_string_from_task(mem, p, v, aligned)
<1>1. /\ Copies
      /\ \/ c.how = "fault" /\ Ends(c.m, p)
         \/ c.how # "fault" /\ Changes(c.m)
  BY DEF isr80h_command1_print
<1>2. /\ MemoryOK(c.m, live)
      /\ \A q \in live \ {p} : Running(c.m, q)
      /\ ImageOK(c.m, p) /\ \A a \in Arguments(p) : Single(c.m, p, a)
      /\ c.how # "fault" => Running(c.m, p)
  BY UserCopy
<1> HIDE DEF c
<1>3. copies' \in 0 .. MaxCopies BY <1>1, CopiesType DEF IInv
<1>4. CASE Ends(c.m, p) BY <1>2, <1>3, <1>4, EndStep DEF Ends
<1>5. CASE c.how # "fault" /\ Changes(c.m)
  <2>1. mem' = c.m /\ UNCHANGED <<live, argument, stray, garbled, pc, loc>> BY <1>5 DEF Changes
  <2>2. \A q \in live : Running(c.m, q) BY <1>2, <1>5
  <2> QED BY <1>2, <1>3, <2>1, <2>2, ChangeStep
<1> QED BY <1>1, <1>4, <1>5

LEMMA MallocStep ==
  ASSUME IInv, pc = "user", NEW p \in live, NEW n \in Sizes, isr80h_command4_malloc(p, n)
  PROVE  IInv'
<1> DEFINE c == process_malloc(mem, p, n)
<1>1. /\ mem' = c.m /\ UNCHANGED <<live, argument, stray, garbled, pc, loc>> /\ copies' = copies
  BY DEF isr80h_command4_malloc, Changes
<1>2. Types /\ live \subseteq Procs /\ MemoryOK(mem, live) /\ \A q \in live : Running(mem, q)
  BY AtUser
<1>3. HeapOK(mem) /\ p \in Procs /\ n \in Nat BY <1>2, MemoryAssumption DEF MemoryOK
<1>4. \/ c.m = mem
      \/ \E i \in Indexes : /\ mem.allocations[p][i].ptr = NULL
                            /\ Room(mem, c.ptr, n) /\ Grown(mem, c.m, p, i, c.ptr, n)
  BY <1>3, MallocResult
<1> HIDE DEF c
<1>5. MemoryOK(c.m, live) /\ \A q \in live : Running(c.m, q)
  <2>1. CASE c.m = mem BY <1>2, <2>1
  <2>2. ASSUME NEW i \in Indexes, mem.allocations[p][i].ptr = NULL,
               Room(mem, c.ptr, n), Grown(mem, c.m, p, i, c.ptr, n)
        PROVE  MemoryOK(c.m, live) /\ \A q \in live : Running(c.m, q)
    <3>1. MemoryOK(c.m, live) /\ \A q \in live : Keeps(mem, c.m, q)
      BY <1>2, <2>2, GrownOK
    <3> QED BY <1>2, <3>1, KeepsRunning
  <2> QED BY <1>4, <2>1, <2>2
<1>6. copies' \in 0 .. MaxCopies BY <1>1, <1>2 DEF Types
<1> QED BY <1>1, <1>5, <1>6, ChangeStep

LEMMA FreeStep ==
  ASSUME IInv, pc = "user", NEW p \in live, NEW ptr \in Virtual \ Arguments(p),
         isr80h_command5_free(p, ptr)
  PROVE  IInv'
<1> DEFINE k == process_free(mem, p, ptr)
<1>1. /\ mem' = k /\ UNCHANGED <<live, argument, stray, garbled, pc, loc>> /\ copies' = copies
  BY DEF isr80h_command5_free, Changes
<1>2. Types /\ live \subseteq Procs /\ MemoryOK(mem, live) /\ \A q \in live : Running(mem, q)
  BY AtUser
<1>3. HeapOK(mem) /\ p \in Procs BY <1>2 DEF MemoryOK
<1>4. \/ k = mem
      \/ \E i \in Indexes : /\ mem.allocations[p][i].ptr = ptr /\ ptr # NULL
                            /\ Shrunk(mem, k, p, i)
  BY <1>3, FreeResult
<1> HIDE DEF k
<1>5. MemoryOK(k, live) /\ \A q \in live : Running(k, q)
  <2>1. CASE k = mem BY <1>2, <2>1
  <2>2. ASSUME NEW i \in Indexes, mem.allocations[p][i].ptr = ptr, ptr # NULL, Shrunk(mem, k, p, i)
        PROVE  MemoryOK(k, live) /\ \A q \in live : Running(k, q)
    <3>1. Released(live, mem, k, p, ptr) BY <1>2, <2>2, ShrunkOK
    <3>2. ASSUME NEW q \in live PROVE Running(k, q)
      <4>1. q \in Procs /\ Arguments(q) \subseteq Pages BY <1>2, ArgumentsArePages
      <4>2. Running(mem, q) BY <1>2
      <4> QED BY <3>1, <4>1, <4>2 DEF Running, Released
    <3> QED BY <3>1, <3>2 DEF Released
  <2> QED BY <1>4, <2>1, <2>2
<1>6. copies' \in 0 .. MaxCopies BY <1>1, <1>2 DEF Types
<1> QED BY <1>1, <1>5, <1>6, ChangeStep

(* The load of a process, for the system calls.                            *)
Started(m, k, p) ==
  /\ MemoryOK(k, live \cup {p})
  /\ \A q \in live : Running(k, q) /\ k.dir[q] = m.dir[q]
  /\ ImageOK(k, p) /\ Guarded(k, p)
  /\ \A i \in Indexes : k.allocations[p][i] = Unused
  /\ \A v \in Pages : k.dir[p][v].phys = v

LEMMA UserLoad ==
  ASSUME Types, NEW m, MemoryOK(m, live), \A q \in live : Running(m, q), CanLoad(m),
         NEW p \in Procs \ live
  PROVE  Started(m, process_load(m, p), p)
<1> DEFINE k == process_load(m, p)
<1>1. live \subseteq Procs BY DEF Types
<1>2. PICK s, b : Loaded(m, k, p, s, b) BY <1>1, LoadResult
<1> HIDE DEF k
<1>3. /\ MemoryOK(k, live \cup {p}) /\ \A q \in live : Keeps(m, k, q)
      /\ ImageOK(k, p) /\ Guarded(k, p)
  BY <1>1, <1>2, LoadOK
<1>4. \A q \in live : Running(k, q) BY <1>1, <1>3, KeepsRunning
<1>5. /\ \A i \in Indexes : k.allocations[p][i] = Unused
      /\ \A q \in live : k.dir[q] = m.dir[q]
      /\ \A v \in Virtual \ {Image} : k.dir[p][v] = Entry(v, FALSE, TRUE)
  BY <1>1, <1>2 DEF Loaded
<1>6. ASSUME NEW v \in Pages PROVE k.dir[p][v].phys = v
  <2>1. k.dir[p][v] = Entry(v, FALSE, TRUE) BY <1>5, PagesFacts
  <2> QED BY <2>1 DEF Entry
<1>7. Started(m, k, p) BY <1>3, <1>4, <1>5, <1>6 DEF Started
<1> QED BY <1>7 DEF k

LEMMA FirstStep ==
  ASSUME IInv, pc = "user", NEW p \in Procs, start_first(p)
  PROVE  IInv'
<1>1. Types /\ live \subseteq Procs /\ MemoryOK(mem, live) /\ \A q \in live : Running(mem, q)
  BY AtUser
<1>2. p \in Procs \ live BY <1>1 DEF start_first, Running, ImageOK
<1> DEFINE k == process_load(mem, p)
<1>3. /\ CanLoad(mem) /\ mem' = k /\ live' = live \cup {p}
      /\ argument' = [argument EXCEPT ![p] = NoArgument]
      /\ UNCHANGED <<stray, copies, garbled, pc, loc>>
  BY DEF start_first, Starts
<1>4. /\ MemoryOK(k, live \cup {p}) /\ \A q \in live : Running(k, q)
      /\ ImageOK(k, p) /\ Guarded(k, p)
  <2>1. Started(mem, k, p) BY <1>1, <1>2, <1>3, UserLoad
  <2> HIDE DEF k
  <2> QED BY <2>1 DEF Started
<1> HIDE DEF k
<1>5. copies' \in 0 .. MaxCopies BY <1>1, <1>3 DEF Types
<1> QED BY <1>2, <1>3, <1>4, <1>5, StartStep

LEMMA LoadStartStep ==
  ASSUME IInv, pc = "user", NEW q \in live, NEW p \in Procs \ live, NEW aligned \in BOOLEAN,
         NEW v \in StringPages(q), isr80h_command6_process_load_start(q, p, v, aligned)
  PROVE  IInv'
<1> DEFINE c == copy_string_from_task(mem, q, v, aligned)
           k == process_load(c.m, p)
<1>1. /\ Copies
      /\ \/ c.how = "fault" /\ Ends(c.m, q)
         \/ c.how # "fault" /\ Changes(c.m)
         \/ /\ c.how = "ok" /\ CanLoad(c.m) /\ Starts(k, p) /\ UNCHANGED <<garbled, pc, loc>>
  BY DEF isr80h_command6_process_load_start
<1>2. /\ MemoryOK(c.m, live)
      /\ \A r \in live \ {q} : Running(c.m, r)
      /\ ImageOK(c.m, q) /\ \A a \in Arguments(q) : Single(c.m, q, a)
      /\ c.how # "fault" => Running(c.m, q)
  BY UserCopy
<1> HIDE DEF c
<1>3. copies' \in 0 .. MaxCopies BY <1>1, CopiesType DEF IInv
<1>4. CASE Ends(c.m, q) BY <1>2, <1>3, <1>4, EndStep DEF Ends
<1>5. CASE c.how # "fault" /\ Changes(c.m)
  <2>1. mem' = c.m /\ UNCHANGED <<live, argument, stray, garbled, pc, loc>> BY <1>5 DEF Changes
  <2>2. \A r \in live : Running(c.m, r) BY <1>2, <1>5
  <2> QED BY <1>2, <1>3, <2>1, <2>2, ChangeStep
<1>6. CASE c.how = "ok" /\ CanLoad(c.m) /\ Starts(k, p) /\ UNCHANGED <<garbled, pc, loc>>
  <2>1. Types /\ \A r \in live : Running(c.m, r) BY <1>2, <1>6 DEF IInv
  <2>2. /\ MemoryOK(k, live \cup {p}) /\ \A r \in live : Running(k, r)
        /\ ImageOK(k, p) /\ Guarded(k, p)
    <3>1. Started(c.m, k, p) BY <1>2, <1>6, <2>1, UserLoad
    <3> HIDE DEF k
    <3> QED BY <3>1 DEF Started
  <2> HIDE DEF k
  <2> QED BY <1>3, <1>6, <2>2, StartStep DEF Starts
<1> QED BY <1>1, <1>4, <1>5, <1>6

LEMMA ExitStep ==
  ASSUME IInv, pc = "user", NEW p \in live, isr80h_command9_exit(p)
  PROVE  IInv'
<1>1. Types /\ MemoryOK(mem, live) /\ \A q \in live : Running(mem, q) BY AtUser
<1>2. /\ mem' = mem /\ Enters("allocations", p, 0, NULL)
      /\ UNCHANGED <<live, argument, stray, garbled>> /\ copies' = copies
  BY DEF isr80h_command9_exit, Ends
<1>3. copies' \in 0 .. MaxCopies BY <1>1, <1>2 DEF Types
<1>4. ImageOK(mem', p) /\ \A a \in Arguments(p) : Single(mem', p, a) BY <1>1, <1>2 DEF Running
<1>5. MemoryOK(mem', live) /\ \A q \in live \ {p} : Running(mem', q) BY <1>1, <1>2
<1> QED BY <1>2, <1>3, <1>4, <1>5, EndStep

(* The nodes of the caller are where it put them.                          *)
LEMMA RightNodes ==
  ASSUME HeapOK(mem), NEW q \in Procs, TableOK(mem, q), NEW p, NEW k,
         k.dir[q] = mem.dir[q], \A v \in Pages : k.dir[p][v].phys = v,
         NEW nodes \in NodeLists(q)
  PROVE  ~WrongNode(k, q, p, nodes) /\ Len(nodes) \in Nat
<1>1. PICK n \in 1 .. MaxArgs : nodes \in [1 .. n -> DataPages(q) \cup {Image}] BY DEF NodeLists
<1>2. n \in Nat BY MemoryAssumption
<1>3. nodes \in Seq(DataPages(q) \cup {Image}) /\ Len(nodes) = n BY <1>1, <1>2
<1>4. ASSUME NEW i \in 2 .. Len(nodes), nodes[i] # Image
      PROVE  process_get_next_command_argument(k, p, nodes[i])
               = paging_get_physical_address(k.dir[q], nodes[i])
  <2>1. i \in 1 .. n BY <1>2, <1>3
  <2>2. nodes[i] \in DataPages(q) BY <1>1, <1>4, <2>1
  <2> DEFINE v == nodes[i]
  <2> HIDE DEF v
  <2>3. v \in Pages /\ mem.dir[q][v] = Entry(v, TRUE, TRUE) BY <2>2, DataFacts DEF v
  <2>4. Entry(v, TRUE, TRUE).phys = v BY DEF Entry
  <2>5. k.dir[q][v].phys = v /\ k.dir[p][v].phys = v BY <2>3, <2>4
  <2> QED BY <2>5 DEF process_get_next_command_argument, paging_get_physical_address, v
<1> QED BY <1>2, <1>3, <1>4 DEF WrongNode

(* A process that has its image, and no page but a.                        *)
HoldsOne(m, p, a) ==
  /\ ImageOK(m, p) /\ Guarded(m, p)
  /\ Held(m, p) = {a} \ {NULL}
  /\ \A i \in Indexes : m.allocations[p][i].size \in {0, 1}

(* The loop of process_inject_argument is entered.                         *)
LEMMA InjectStart ==
  ASSUME IInv, pc = "user", NEW p \in Procs \ live, MemoryOK(mem', live \cup {p}),
         \A q \in live : Running(mem', q),
         live' = live \cup {p}, argument' = [argument EXCEPT ![p] = NoArgument],
         UNCHANGED <<stray, garbled>>, copies' \in 0 .. MaxCopies,
         NEW a \in Pages \cup {NULL}, NEW n \in Nat, NEW loop \in {"inject", "undo"},
         Enters(loop, p, n, a), HoldsOne(mem', p, a)
  PROVE  IInv'
<1>0. /\ ImageOK(mem', p) /\ Guarded(mem', p) /\ Held(mem', p) = {a} \ {NULL}
      /\ \A i \in Indexes : mem'.allocations[p][i].size \in {0, 1}
  BY DEF HoldsOne
<1>1. Types BY DEF IInv
<1>2. /\ argument' \in [Procs -> ArgumentType] /\ argument'[p] = NoArgument /\ Arguments(p)' = {}
      /\ \A q \in Procs \ {p} : Arguments(q)' = Arguments(q)
  BY <1>1, ArgumentsReset
<1>3. /\ pc' = loop
      /\ loc' = [p |-> p, i |-> 1, argc |-> n, args |-> [argv |-> a, strings |-> <<>>]]
  BY DEF Enters
<1>4. loc'.p = p /\ loc'.i = 1 /\ loc'.args.argv = a /\ loc'.args.strings = <<>>
  BY <1>3
<1>5. loc' \in [p : Procs, i : Nat \ {0}, argc : Nat, args : ArgumentType]
  BY <1>3 DEF ArgumentType
<1>6. Types' BY <1>1, <1>2, <1>3, <1>4, <1>5 DEF Types
<1>7. MemoryOK(mem, live)' OBVIOUS
<1>8. ASSUME NEW q \in live'
      PROVE  ImageOK(mem, q)' /\ Guarded(mem, q)' /\ \A b \in Arguments(q)' : Single(mem, q, b)'
  <2>1. CASE q = p BY <1>0, <1>2, <2>1
  <2>2. CASE q \in live
    <3>1. q \in Procs \ {p} BY <1>1, <2>2 DEF Types
    <3> QED BY <1>2, <2>2, <3>1 DEF Running
  <2> QED BY <2>1, <2>2
<1>9. AtInject'
  <2>1. 1 .. Len(<<>>) = {} OBVIOUS
  <2>3. PagesFrom(1, loc'.args) = {a} \ {NULL} BY <1>4, <2>1 DEF PagesFrom
  <2>4. Distinct(loc'.args) BY <1>4, <2>1 DEF Distinct
  <2>5. Held(mem', loc'.p) = PagesFrom(loc'.i, loc'.args) BY <1>0, <1>4, <2>3
  <2>6. argument'[loc'.p] = NoArgument BY <1>2, <1>4
  <2>7. \A i \in Indexes : mem'.allocations[loc'.p][i].size \in {0, 1} BY <1>0, <1>4
  <2> QED BY <1>4, <2>4, <2>5, <2>6, <2>7 DEF AtInject
<1> QED BY <1>3, <1>6, <1>7, <1>8, <1>9 DEF IInv

LEMMA InvakeStep ==
  ASSUME IInv, pc = "user", NEW q \in live, NEW p \in Procs \ live, NEW nodes \in NodeLists(q),
         isr80h_command7_invake_system_command(q, p, nodes)
  PROVE  IInv'
<1> DEFINE l == process_load(mem, p)
           c == process_malloc(l, p, 1)
           L == live \cup {p}
           n == Len(nodes)
           loop == IF c.ptr = NULL THEN "undo" ELSE "inject"
<1>1. Types /\ live \subseteq Procs /\ MemoryOK(mem, live) /\ \A r \in live : Running(mem, r)
  BY AtUser
<1>2. /\ CanLoad(mem) /\ mem' = c.m /\ live' = L
      /\ argument' = [argument EXCEPT ![p] = NoArgument]
      /\ UNCHANGED <<stray, copies>>
      /\ Enters(loop, p, n, c.ptr)
      /\ garbled' = (garbled \/ WrongNode(l, q, p, nodes))
  BY DEF isr80h_command7_invake_system_command, Starts
<1>3. /\ MemoryOK(l, L)
      /\ \A r \in live : Running(l, r) /\ l.dir[r] = mem.dir[r]
      /\ ImageOK(l, p) /\ Guarded(l, p)
      /\ \A i \in Indexes : l.allocations[p][i] = Unused
      /\ \A v \in Pages : l.dir[p][v].phys = v
  <2>1. CanLoad(mem) BY <1>2
  <2>2. Started(mem, l, p) BY <1>1, <2>1, UserLoad
  <2> HIDE DEF l
  <2> QED BY <2>2 DEF Started
<1>4. loop \in {"inject", "undo"} OBVIOUS
<1> HIDE DEF l, loop
<1>5. HeapOK(mem) /\ TableOK(mem, q) /\ q \in Procs /\ HeapOK(l) /\ L \subseteq Procs
  BY <1>1, <1>3 DEF MemoryOK
<1>6. ~WrongNode(l, q, p, nodes) /\ n \in Nat BY <1>3, <1>5, RightNodes
<1>7. garbled' = garbled BY <1>1, <1>2, <1>6 DEF Types
<1> HIDE DEF n
<1>8. Unused.ptr = NULL /\ Unused.size = 0 BY DEF Unused
<1>9. \/ c.ptr = NULL /\ c.m = l
      \/ \E i \in Indexes : /\ l.allocations[p][i].ptr = NULL
                            /\ Room(l, c.ptr, 1) /\ Grown(l, c.m, p, i, c.ptr, 1)
  BY <1>5, MallocResult
<1> HIDE DEF c
<1>10. /\ MemoryOK(c.m, L) /\ \A r \in live : Running(c.m, r)
       /\ ImageOK(c.m, p) /\ Guarded(c.m, p) /\ c.ptr \in Pages \cup {NULL}
       /\ Held(c.m, p) = {c.ptr} \ {NULL}
       /\ \A i \in Indexes : c.m.allocations[p][i].size \in {0, 1}
  <2>1. CASE c.ptr = NULL /\ c.m = l
    <3>1. Held(l, p) = {} BY <1>3, <1>8 DEF Held
    <3>2. \A i \in Indexes : l.allocations[p][i].size = 0 BY <1>3, <1>8
    <3> QED BY <1>3, <2>1, <3>1, <3>2
  <2>2. CASE \E i \in Indexes : /\ l.allocations[p][i].ptr = NULL
                                /\ Room(l, c.ptr, 1) /\ Grown(l, c.m, p, i, c.ptr, 1)
    <3>10. PICK i \in Indexes : /\ l.allocations[p][i].ptr = NULL
                               /\ Room(l, c.ptr, 1) /\ Grown(l, c.m, p, i, c.ptr, 1)
      BY <2>2
    <3>1. MemoryOK(c.m, L) /\ \A r \in L : Keeps(l, c.m, r) BY <1>3, <1>5, <3>10, GrownOK
    <3>2. \A r \in live : Running(c.m, r) BY <1>1, <1>3, <3>1, KeepsRunning
    <3>3. ImageOK(c.m, p) /\ Guarded(c.m, p) BY <1>3, <3>1 DEF Keeps
    <3>4. c.ptr \in Pages BY <3>10 DEF Room
    <3>5. /\ c.m.allocations[p][i] = [ptr |-> c.ptr, size |-> 1]
          /\ \A j \in Indexes \ {i} : c.m.allocations[p][j] = Unused
      BY <1>3, <3>10 DEF Grown
    <3>6. c.m.allocations[p][i].ptr = c.ptr /\ c.m.allocations[p][i].size = 1 BY <3>5
    <3>7. \A j \in Indexes \ {i} : c.m.allocations[p][j].ptr = NULL /\ c.m.allocations[p][j].size = 0
      BY <1>8, <3>5
    <3>8. Held(c.m, p) = {c.ptr} \ {NULL}
      BY <3>6, <3>7 DEF Held
    <3>9. \A j \in Indexes : c.m.allocations[p][j].size \in {0, 1} BY <3>6, <3>7
    <3> QED BY <3>1, <3>2, <3>3, <3>4, <3>8, <3>9
  <2> QED BY <1>9, <2>1, <2>2
<1>11. copies' \in 0 .. MaxCopies BY <1>1, <1>2 DEF Types
<1>12. /\ MemoryOK(mem', live \cup {p}) /\ HoldsOne(mem', p, c.ptr)
       /\ \A r \in live : Running(mem', r)
  BY <1>2, <1>10 DEF HoldsOne
<1>13. /\ live' = live \cup {p} /\ argument' = [argument EXCEPT ![p] = NoArgument]
       /\ UNCHANGED <<stray, garbled>> /\ Enters(loop, p, n, c.ptr)
  BY <1>2, <1>7
<1>14. c.ptr \in Pages \cup {NULL} BY <1>10
<1> QED BY <1>4, <1>6, <1>11, <1>12, <1>13, <1>14, InjectStart

-----------------------------------------------------------------------------
(* The loops of process_inject_argument *)

LEMMA HeldFacts ==
  ASSUME NEW m, HeapOK(m), NEW p \in Procs, TableOK(m, p)
  PROVE  \A a \in Held(m, p) : a \in Taken(m.heap) /\ a \in Pages
<1>1. ASSUME NEW j \in Indexes, m.allocations[p][j].ptr # NULL
      PROVE  m.allocations[p][j].ptr \in Taken(m.heap) /\ m.allocations[p][j].ptr \in Pages
  BY <1>1, TableFacts
<1> QED BY <1>1 DEF Held

LEMMA AtInjection ==
  ASSUME IInv, pc \in {"inject", "undo"}
  PROVE  /\ Types /\ live \subseteq Procs /\ MemoryOK(mem, live)
         /\ \A q \in live : Running(mem, q)
         /\ loc.p \in live /\ loc.p \in Procs /\ loc.i \in Nat \ {0}
         /\ loc \in [p : Procs, i : Nat \ {0}, argc : Nat, args : ArgumentType]
         /\ loc.args.argv \in Pages \cup {NULL} /\ loc.args.strings \in Seq(Pages)
         /\ AtInject
<1>1. Types /\ MemoryOK(mem, live) /\ AtInject BY DEF IInv
<1>2. /\ live \subseteq Procs /\ loc.p \in live
      /\ loc \in [p : Procs, i : Nat \ {0}, argc : Nat, args : ArgumentType]
  BY <1>1 DEF Types
<1>3. loc.i \in Nat \ {0} /\ loc.args \in ArgumentType BY <1>2
<1>4. loc.args.argv \in Pages \cup {NULL} /\ loc.args.strings \in Seq(Pages)
  BY <1>3 DEF ArgumentType
<1>5. \A q \in live : Running(mem, q) BY DEF IInv, Running, Dying
<1> QED BY <1>1, <1>2, <1>3, <1>4, <1>5

(* A step of the loops, which is inside process_inject_argument again.     *)
LEMMA LoopStep ==
  ASSUME IInv, pc \in {"inject", "undo"}, MemoryOK(mem', live), \A q \in live : Running(mem', q),
         pc' \in {"inject", "undo"}, loc'.p = loc.p,
         loc' \in [p : Procs, i : Nat \ {0}, argc : Nat, args : ArgumentType],
         UNCHANGED <<live, copies, argument, stray, garbled>>, AtInject'
  PROVE  IInv'
<1>1. Types' BY AtInjection DEF Types
<1>2. MemoryOK(mem, live)' OBVIOUS
<1>3. \A p \in live : Arguments(p)' = Arguments(p) BY DEF Arguments
<1>4. \A p \in live' : /\ ImageOK(mem, p)' /\ Guarded(mem, p)'
                        /\ \A a \in Arguments(p)' : Single(mem, p, a)'
  BY <1>3 DEF Running
<1> QED BY <1>1, <1>2, <1>4 DEF IInv

LEMMA AppendFacts ==
  ASSUME NEW S, NEW s \in Seq(S), NEW a \in S, NEW t, t = Append(s, a)
  PROVE  /\ t \in Seq(S) /\ Len(s) \in Nat /\ Len(t) = Len(s) + 1 /\ t[Len(s) + 1] = a
         /\ \A j \in 1 .. Len(s) : t[j] = s[j] /\ j \in 1 .. Len(t)
         /\ \A j \in 1 .. Len(t) : j = Len(s) + 1 \/ j \in 1 .. Len(s)
OBVIOUS

(* Another string: one page more.                                          *)
LEMMA InjectedMore ==
  ASSUME NEW args, args.strings \in Seq(Pages), Distinct(args),
         NEW a \in Pages, a \notin PagesFrom(1, args),
         NEW more, more.argv = args.argv, more.strings = Append(args.strings, a)
  PROVE  PagesFrom(1, more) = PagesFrom(1, args) \cup {a} /\ Distinct(more)
<1> DEFINE s == args.strings
           t == more.strings
           argv == args.argv
<1>1. s \in Seq(Pages) /\ t = Append(s, a) /\ more.argv = argv OBVIOUS
<1>2. /\ \A j \in 1 .. Len(s) : s[j] # argv
      /\ \A j, h \in 1 .. Len(s) : j # h => s[j] # s[h]
  BY DEF Distinct
<1>3. s \in [1 .. Len(s) -> Pages] BY <1>1
<1>4. PagesFrom(1, args) = ({argv} \cup {s[j] : j \in 1 .. Len(s)}) \ {NULL} BY DEF PagesFrom
<1>5. a # NULL BY PagesFacts
<1>6. a # argv /\ \A j \in 1 .. Len(s) : s[j] # a BY <1>5, <1>4
<1>7. /\ PagesFrom(1, more) = ({argv} \cup {t[j] : j \in 1 .. Len(t)}) \ {NULL}
      /\ Distinct(more) <=> /\ \A j \in 1 .. Len(t) : t[j] # argv
                            /\ \A j, h \in 1 .. Len(t) : j # h => t[j] # t[h]
  BY <1>1 DEF PagesFrom, Distinct
<1> HIDE DEF s, t, argv
<1>8. /\ Len(s) \in Nat /\ Len(t) = Len(s) + 1 /\ t[Len(s) + 1] = a
      /\ \A j \in 1 .. Len(s) : t[j] = s[j] /\ j \in 1 .. Len(t)
      /\ \A j \in 1 .. Len(t) : j = Len(s) + 1 \/ j \in 1 .. Len(s)
  BY <1>1, AppendFacts
<1>9. Len(s) + 1 \in 1 .. Len(t) BY <1>8
<1> DEFINE n == Len(s) + 1
           T == 1 .. Len(t)
           S == 1 .. Len(s)
<1>10. /\ t[n] = a /\ n \in T
       /\ \A j \in S : t[j] = s[j] /\ j \in T
       /\ \A j \in T : j = n \/ j \in S
  BY <1>8, <1>9
<1> HIDE DEF n, T, S
<1>11. {t[j] : j \in T} = {s[j] : j \in S} \cup {a}
  <2>1. ASSUME NEW j \in T PROVE t[j] \in {s[h] : h \in S} \cup {a}
    <3>1. CASE j = n BY <1>10, <3>1, Zenon
    <3>2. CASE j \in S
      <4>1. t[j] = s[j] BY <1>10, <3>2, Zenon
      <4> QED BY <3>2, <4>1, Zenon
    <3> QED BY <1>10, <3>1, <3>2, Zenon
  <2>2. ASSUME NEW j \in S PROVE s[j] \in {t[h] : h \in T}
    <3>1. j \in T /\ t[j] = s[j] BY <1>10, Zenon
    <3> QED BY <3>1, Zenon
  <2>3. a \in {t[h] : h \in T} BY <1>10, Zenon
  <2>4. {t[j] : j \in T} \subseteq {s[j] : j \in S} \cup {a} BY <2>1, Zenon
  <2>5. {s[j] : j \in S} \cup {a} \subseteq {t[j] : j \in T} BY <2>2, <2>3, Zenon
  <2> QED BY <2>4, <2>5, Zenon
<1>12. ASSUME NEW j \in T PROVE t[j] # argv
  <2>1. CASE j = n BY <1>10, <1>6, <2>1, Zenon
  <2>2. CASE j \in S
    <3>1. s[j] # argv BY <1>2, <2>2 DEF S
    <3> QED BY <1>10, <2>2, <3>1, Zenon
  <2> QED BY <1>10, <2>1, <2>2, Zenon
<1>13. ASSUME NEW j \in T, NEW h \in T, j # h PROVE t[j] # t[h]
  <2>1. CASE j \in S /\ h \in S
    <3>1. s[j] # s[h] BY <1>13, <1>2, <2>1 DEF S
    <3> QED BY <1>10, <2>1, <3>1, Zenon
  <2>2. CASE j = n /\ h \in S
    <3>1. s[h] # a BY <1>6, <2>2 DEF S
    <3> QED BY <1>10, <2>2, <3>1, Zenon
  <2>3. CASE j \in S /\ h = n
    <3>1. s[j] # a BY <1>6, <2>3 DEF S
    <3> QED BY <1>10, <2>3, <3>1, Zenon
  <2> QED BY <1>10, <1>13, <2>1, <2>2, <2>3, Zenon
<1>14. ({argv} \cup {t[j] : j \in T}) \ {NULL} = (({argv} \cup {s[j] : j \in S}) \ {NULL}) \cup {a}
  BY <1>11, <1>5
<1>15. PagesFrom(1, more) = PagesFrom(1, args) \cup {a}
  <2>1. PagesFrom(1, args) = ({argv} \cup {s[j] : j \in S}) \ {NULL} BY <1>4 DEF S
  <2>2. PagesFrom(1, more) = ({argv} \cup {t[j] : j \in T}) \ {NULL} BY <1>7 DEF T
  <2> QED BY <1>14, <2>1, <2>2
<1>16. Distinct(more) BY <1>12, <1>13, <1>7 DEF T
<1> QED BY <1>15, <1>16

LEMMA InjectNodeStep ==
  ASSUME IInv, InjectNode
  PROVE  IInv'
<1> DEFINE c == process_malloc(mem, loc.p, 1)
           p == loc.p
           s == loc.args.strings
           argv == loc.args.argv
<1>1. /\ pc = "inject" /\ mem' = c.m /\ UNCHANGED <<live, copies, argument, stray, garbled>>
      /\ c.ptr = NULL => pc' = "undo" /\ loc' = loc
      /\ c.ptr # NULL => loc' = [loc EXCEPT !.args.strings = Append(@, c.ptr)] /\ pc' = pc
  BY DEF InjectNode
<1>2. /\ Types /\ live \subseteq Procs /\ MemoryOK(mem, live)
      /\ \A q \in live : Running(mem, q)
      /\ p \in live /\ p \in Procs /\ loc.i \in Nat \ {0}
      /\ loc \in [p : Procs, i : Nat \ {0}, argc : Nat, args : ArgumentType]
      /\ argv \in Pages \cup {NULL} /\ s \in Seq(Pages) /\ AtInject
  BY <1>1, AtInjection
<1>3. HeapOK(mem) /\ TableOK(mem, p) BY <1>2 DEF MemoryOK
<1>4. \/ c.ptr = NULL /\ c.m = mem
      \/ \E i \in Indexes : /\ mem.allocations[p][i].ptr = NULL
                            /\ Room(mem, c.ptr, 1) /\ Grown(mem, c.m, p, i, c.ptr, 1)
  BY <1>2, <1>3, MallocResult
<1> HIDE DEF c
<1>5. CASE c.ptr = NULL /\ c.m = mem
  <2>1. pc' = "undo" /\ loc' = loc /\ mem' = mem BY <1>1, <1>5
  <2>2. AtInject' BY <1>1, <1>2, <2>1 DEF AtInject
  <2>3. MemoryOK(mem', live) /\ \A q \in live : Running(mem', q) BY <1>2, <2>1
  <2> QED BY <1>1, <1>2, <2>1, <2>2, <2>3, LoopStep
<1>6. CASE \E i \in Indexes : /\ mem.allocations[p][i].ptr = NULL
                              /\ Room(mem, c.ptr, 1) /\ Grown(mem, c.m, p, i, c.ptr, 1)
  <2> DEFINE a == c.ptr
             t == Append(s, a)
  <2>1. PICK i \in Indexes : /\ mem.allocations[p][i].ptr = NULL
                             /\ Room(mem, a, 1) /\ Grown(mem, c.m, p, i, a, 1)
    BY <1>6
  <2>2. a \in Pages /\ a # NULL /\ a \notin Taken(mem.heap)
    <3>1. a \in Pages /\ \A x \in a .. a + 1 - 1 : x \notin Taken(mem.heap) BY <2>1 DEF Room
    <3>2. a \in Nat /\ a # NULL BY <3>1, PagesFacts
    <3>3. a \in a .. a + 1 - 1 BY <3>2
    <3> QED BY <3>1, <3>2, <3>3
  <2>3. pc' = "inject" /\ loc' = [loc EXCEPT !.args.strings = t] BY <1>1, <2>2
  <2>4. MemoryOK(mem', live) /\ \A q \in live : Running(mem', q)
    <3>1. MemoryOK(c.m, live) /\ \A q \in live : Keeps(mem, c.m, q) BY <1>2, <2>1, GrownOK
    <3> QED BY <1>1, <1>2, <3>1, KeepsRunning
  <2>5. t \in Seq(Pages) BY <1>2, <2>2, AppendFacts
  <2> HIDE DEF t, a
  <2>6. loc.args \in ArgumentType BY <1>2
  <2>7. /\ loc'.p = loc.p /\ loc'.i = loc.i /\ loc'.argc = loc.argc
        /\ loc'.args = [loc.args EXCEPT !.strings = t]
    BY <1>2, <2>3
  <2>8. loc'.args.argv = argv /\ loc'.args.strings = t /\ loc'.args \in ArgumentType
    BY <2>5, <2>6, <2>7 DEF ArgumentType
  <2>9. loc' \in [p : Procs, i : Nat \ {0}, argc : Nat, args : ArgumentType]
    <3>1. [loc EXCEPT !.args.strings = t] = [loc EXCEPT !.args = [loc.args EXCEPT !.strings = t]]
      BY <1>2
    <3>2. [loc.args EXCEPT !.strings = t] \in ArgumentType BY <2>7, <2>8
    <3> QED BY <1>2, <2>3, <3>1, <3>2
  <2>10. /\ argument[p] = NoArgument /\ Held(mem, p) = PagesFrom(1, loc.args) /\ loc.i = 1
         /\ \A j \in Indexes : mem.allocations[p][j].size \in {0, 1}
    BY <1>1, <1>2 DEF AtInject
  <2>11. Distinct(loc.args) BY <1>2 DEF AtInject
  <2>12. a \notin Held(mem, p)
    <3>1. p \in Procs BY <1>2
    <3> QED BY <1>3, <2>2, <3>1, HeldFacts
  <2>13. PagesFrom(1, loc'.args) = PagesFrom(1, loc.args) \cup {a} /\ Distinct(loc'.args)
    <3>1. loc.args.strings \in Seq(Pages) BY <1>2
    <3>2. loc'.args.strings = Append(loc.args.strings, a) BY <2>8 DEF t
    <3>3. a \notin PagesFrom(1, loc.args) BY <2>10, <2>12
    <3> QED BY <2>2, <2>8, <2>11, <3>1, <3>2, <3>3, InjectedMore
  <2>14. /\ mem'.allocations[p][i] = [ptr |-> a, size |-> 1]
         /\ \A j \in Indexes \ {i} : mem'.allocations[p][j] = mem.allocations[p][j]
    BY <1>1, <2>1 DEF Grown
  <2>15. mem'.allocations[p][i].ptr = a /\ mem'.allocations[p][i].size = 1 BY <2>14
  <2>16. Held(mem', p) = Held(mem, p) \cup {a}
    BY <2>1, <2>2, <2>14, <2>15 DEF Held
  <2>17. \A j \in Indexes : mem'.allocations[p][j].size \in {0, 1} BY <2>10, <2>14, <2>15
  <2>18. Held(mem', p) = PagesFrom(1, loc'.args) BY <2>10, <2>13, <2>16
  <2>19. AtInject'
    <3>1. argument'[loc'.p] = NoArgument /\ loc'.p = p /\ loc'.i = 1 BY <1>1, <2>7, <2>10
    <3>2. Held(mem', loc'.p) = PagesFrom(loc'.i, loc'.args) BY <2>18, <3>1
    <3> QED BY <2>13, <2>17, <3>1, <3>2 DEF AtInject
  <2> QED BY <1>1, <2>3, <2>4, <2>7, <2>9, <2>19, LoopStep
<1> QED BY <1>4, <1>5, <1>6

(* Taking back a page of argv.                                             *)
LEMMA UndoFree ==
  ASSUME IInv, pc = "undo", NEW x \in Held(mem, loc.p), NEW k, k = process_free(mem, loc.p, x)
  PROVE  /\ MemoryOK(k, live) /\ \A q \in live : Running(k, q)
         /\ Held(k, loc.p) = Held(mem, loc.p) \ {x}
         /\ \A i \in Indexes : k.allocations[loc.p][i].size \in {0, 1}
<1> DEFINE p == loc.p
<1>1. /\ Types /\ live \subseteq Procs /\ MemoryOK(mem, live)
      /\ p \in live /\ p \in Procs /\ AtInject
      /\ \A q \in live : Running(mem, q)
  BY AtInjection
<1>2. HeapOK(mem) /\ TableOK(mem, p) BY <1>1 DEF MemoryOK
<1> HIDE DEF p
<1>3. PICK i \in Indexes : mem.allocations[p][i].ptr = x BY DEF Held, p
<1>4. x # NULL /\ k = process_free(mem, p, mem.allocations[p][i].ptr) BY <1>3 DEF Held, p
<1>5. Shrunk(mem, k, p, i) /\ Released(live, mem, k, p, x)
  <2>1. live \subseteq Procs /\ MemoryOK(mem, live) /\ p \in live BY <1>1
  <2>2. mem.allocations[p][i].ptr # NULL BY <1>3, <1>4
  <2> QED BY <1>3, <1>4, <2>1, <2>2, FreeOK
<1>6. Arguments(p) = {} BY <1>1, NoArguments DEF AtInject, Arguments, p
<1>7. ASSUME NEW q \in live PROVE Running(k, q)
  <2>1. Running(mem, q) /\ Arguments(q) \subseteq Pages BY <1>1, ArgumentsArePages
  <2> QED BY <1>5, <1>6, <2>1 DEF Running, Released
<1>8. /\ k.allocations[p][i] = Unused
      /\ \A j \in Indexes \ {i} : k.allocations[p][j] = mem.allocations[p][j]
  BY <1>5 DEF Shrunk
<1>9. Unused.ptr = NULL /\ Unused.size = 0 BY DEF Unused
<1>10. \A j \in Indexes \ {i} : mem.allocations[p][j].ptr # x
  BY <1>2, <1>3, <1>4 DEF TableOK
<1>11. Held(k, p) = Held(mem, p) \ {x}
  BY <1>3, <1>8, <1>9, <1>10 DEF Held
<1>12. \A j \in Indexes : mem.allocations[p][j].size \in {0, 1} BY <1>1 DEF AtInject, p
<1>13. \A j \in Indexes : k.allocations[p][j].size \in {0, 1} BY <1>8, <1>9, <1>12
<1> QED BY <1>5, <1>7, <1>11, <1>13 DEF p, Released

(* One string of argv less.                                                *)
LEMMA InjectedLess ==
  ASSUME NEW args, args.strings \in Seq(Pages), Distinct(args),
         NEW i \in Nat \ {0}, i <= Len(args.strings)
  PROVE  /\ args.strings[i] \in PagesFrom(i, args)
         /\ PagesFrom(i + 1, args) = PagesFrom(i, args) \ {args.strings[i]}
<1> DEFINE s == args.strings
           argv == args.argv
           T == i .. Len(s)
           S == i + 1 .. Len(s)
           D == 1 .. Len(s)
<1>1. Len(s) \in Nat /\ s \in [D -> Pages] OBVIOUS
<1>2. i \in T /\ i \notin S /\ T = S \cup {i} /\ T \subseteq D BY <1>1
<1>3. \A j \in D : s[j] \in Pages BY <1>1
<1>4. (\A j \in D : s[j] # argv) /\ (\A j, h \in D : j # h => s[j] # s[h]) BY DEF Distinct
<1> HIDE DEF S, T, D
<1>5. s[i] # NULL BY <1>2, <1>3, PagesFacts
<1>6. s[i] # argv /\ \A j \in S : s[j] # s[i] BY <1>2, <1>4
<1>7. {s[j] : j \in T} = {s[j] : j \in S} \cup {s[i]} BY <1>2
<1>8. s[i] \in ({argv} \cup {s[j] : j \in T}) \ {NULL} BY <1>5, <1>7
<1>9. ({argv} \cup {s[j] : j \in S}) \ {NULL} = (({argv} \cup {s[j] : j \in T}) \ {NULL}) \ {s[i]}
  BY <1>6, <1>7
<1>10. PagesFrom(i, args) = ({argv} \cup {s[j] : j \in T}) \ {NULL} BY DEF PagesFrom, T
<1>11. PagesFrom(i + 1, args) = ({argv} \cup {s[j] : j \in S}) \ {NULL} BY DEF PagesFrom, S
<1> HIDE DEF s, argv
<1>12. s[i] \in PagesFrom(i, args) /\ PagesFrom(i + 1, args) = PagesFrom(i, args) \ {s[i]}
  BY <1>8, <1>9, <1>10, <1>11
<1> QED BY <1>12 DEF s

LEMMA InjectUndoStep ==
  ASSUME IInv, InjectUndo
  PROVE  IInv'
<1> DEFINE p == loc.p
           s == loc.args.strings
           argv == loc.args.argv
           k == process_free(mem, p, s[loc.i])
<1>1. /\ pc = "undo" /\ loc.i <= Len(s) /\ mem' = k
      /\ loc' = [loc EXCEPT !.i = loc.i + 1] /\ pc' = pc
      /\ UNCHANGED <<live, copies, argument, stray, garbled>>
  BY DEF InjectUndo, Iterates
<1>2. /\ Types /\ p \in Procs /\ loc.i \in Nat \ {0}
      /\ loc \in [p : Procs, i : Nat \ {0}, argc : Nat, args : ArgumentType]
      /\ s \in Seq(Pages) /\ AtInject
  BY <1>1, AtInjection
<1>3. argument[p] = NoArgument /\ Held(mem, p) = PagesFrom(loc.i, loc.args) /\ Distinct(loc.args)
  BY <1>2 DEF AtInject
<1>4. /\ s[loc.i] \in PagesFrom(loc.i, loc.args)
      /\ PagesFrom(loc.i + 1, loc.args) = PagesFrom(loc.i, loc.args) \ {s[loc.i]}
  BY <1>1, <1>2, <1>3, InjectedLess
<1>5. /\ MemoryOK(k, live) /\ \A q \in live : Running(k, q)
      /\ Held(k, p) = Held(mem, p) \ {s[loc.i]}
      /\ \A i \in Indexes : k.allocations[p][i].size \in {0, 1}
  BY <1>1, <1>3, <1>4, UndoFree
<1> HIDE DEF k
<1>6. loc.i + 1 \in Nat \ {0}
  <2>1. \A n \in Nat \ {0} : n + 1 \in Nat \ {0} OBVIOUS
  <2> QED BY <1>2, <2>1
<1>7. /\ loc'.p = p /\ loc'.i = loc.i + 1 /\ loc'.args = loc.args
      /\ loc' \in [p : Procs, i : Nat \ {0}, argc : Nat, args : ArgumentType]
  BY <1>1, <1>2, <1>6
<1>8. Held(mem', loc'.p) = PagesFrom(loc'.i, loc'.args) BY <1>1, <1>3, <1>4, <1>5, <1>7
<1>9. AtInject'
  <2>1. argument'[loc'.p] = NoArgument /\ pc' = "undo" /\ Distinct(loc'.args)
    BY <1>1, <1>3, <1>7
  <2>2. \A i \in Indexes : mem'.allocations[loc'.p][i].size \in {0, 1} BY <1>1, <1>5, <1>7
  <2> QED BY <1>8, <2>1, <2>2 DEF AtInject
<1>10. MemoryOK(mem', live) /\ \A q \in live : Running(mem', q) BY <1>1, <1>5
<1> QED BY <1>1, <1>7, <1>9, <1>10, LoopStep

(* A step that ends process_inject_argument.                               *)
LEMMA ReturnStep ==
  ASSUME IInv, pc \in {"inject", "undo"}, MemoryOK(mem', live),
         argument' \in [Procs -> ArgumentType],
         \A q \in live : /\ ImageOK(mem', q) /\ Guarded(mem', q)
                         /\ \A a \in Arguments(q)' : Single(mem', q, a),
         Returns, UNCHANGED <<live, copies, stray, garbled>>
  PROVE  IInv'
<1>1. pc' = "user" /\ loc' = NoLocals BY DEF Returns
<1>2. Types' BY <1>1, AtInjection DEF Types
<1>3. MemoryOK(mem, live)' OBVIOUS
<1>4. \A p \in live' : /\ ImageOK(mem, p)' /\ Guarded(mem, p)'
                        /\ \A a \in Arguments(p)' : Single(mem, p, a)'
  OBVIOUS
<1> QED BY <1>1, <1>2, <1>3, <1>4 DEF IInv

(* An injection that failed has taken everything back.                     *)
LEMMA UndoneAll ==
  ASSUME IInv, InjectFails, NEW p, loc.p = p
  PROVE  /\ MemoryOK(mem', live) /\ \A q \in live : Running(mem', q)
         /\ Held(mem', p) = {} /\ Arguments(p)' = {}
<1> DEFINE s == loc.args.strings
           argv == loc.args.argv
<1>1. /\ pc = "undo" /\ loc.i > Len(s) /\ mem' = process_free(mem, p, argv)
      /\ argument' = argument
  BY DEF InjectFails
<1>2. /\ Types /\ live \subseteq Procs /\ MemoryOK(mem, live)
      /\ \A q \in live : Running(mem, q)
      /\ p \in Procs /\ loc.i \in Nat \ {0}
      /\ argv \in Pages \cup {NULL} /\ s \in Seq(Pages) /\ AtInject
  BY <1>1, AtInjection
<1>3. Held(mem, p) = {argv} \ {NULL}
  <2>1. Held(mem, p) = PagesFrom(loc.i, loc.args) BY <1>2 DEF AtInject
  <2>2. loc.i .. Len(s) = {} BY <1>1, <1>2
  <2>3. PagesFrom(loc.i, loc.args) = {argv} \ {NULL} BY <2>2 DEF PagesFrom
  <2> QED BY <2>1, <2>3
<1>4. Arguments(p)' = {} BY <1>1, <1>2, NoArguments DEF AtInject, Arguments
<1>5. CASE argv = NULL
  <2>1. mem' = mem BY <1>1, <1>5 DEF process_free
  <2> QED BY <1>2, <1>3, <1>4, <1>5, <2>1
<1>6. CASE argv # NULL
  <2>1. argv \in Held(mem, p) BY <1>3, <1>6
  <2>2. /\ MemoryOK(mem', live) /\ \A q \in live : Running(mem', q)
        /\ Held(mem', p) = Held(mem, p) \ {argv}
    BY <1>1, <2>1, UndoFree
  <2> QED BY <1>3, <1>4, <2>2
<1> QED BY <1>5, <1>6

LEMMA InjectFailsStep ==
  ASSUME IInv, InjectFails
  PROVE  IInv'
<1>1. pc = "undo" /\ Returns /\ UNCHANGED <<live, copies, argument, stray, garbled>>
  BY DEF InjectFails
<1>2. MemoryOK(mem', live) /\ \A q \in live : Running(mem', q)
  <2>1. PICK p : loc.p = p OBVIOUS
  <2> QED BY <2>1, UndoneAll
<1>3. Types BY DEF IInv
<1>4. argument' \in [Procs -> ArgumentType] BY <1>1, <1>3 DEF Types
<1>5. \A q \in live : Arguments(q)' = Arguments(q) BY <1>1 DEF Arguments
<1>6. \A q \in live : /\ ImageOK(mem', q) /\ Guarded(mem', q)
                      /\ \A a \in Arguments(q)' : Single(mem', q, a)
  BY <1>2, <1>5 DEF Running
<1> QED BY <1>1, <1>2, <1>4, <1>6, ReturnStep

(* One that succeeded has given the process exactly its arguments.         *)
LEMMA InjectedAll ==
  ASSUME IInv, InjectDone, NEW p, loc.p = p
  PROVE  /\ argument' \in [Procs -> ArgumentType]
         /\ Arguments(p)' = Held(mem, p)
         /\ \A a \in Held(mem, p) : Single(mem, p, a)
         /\ \A q \in Procs \ {p} : Arguments(q)' = Arguments(q)
<1> DEFINE s == loc.args.strings
           argv == loc.args.argv
<1>1. pc = "inject" /\ argument' = [argument EXCEPT ![p] = loc.args] BY DEF InjectDone
<1>2. /\ Types /\ MemoryOK(mem, live) /\ p \in live /\ p \in Procs
      /\ loc \in [p : Procs, i : Nat \ {0}, argc : Nat, args : ArgumentType]
      /\ s \in Seq(Pages) /\ AtInject
  BY <1>1, AtInjection
<1>3. argument \in [Procs -> ArgumentType] /\ loc.args \in ArgumentType BY <1>2 DEF Types
<1>4. /\ argument' \in [Procs -> ArgumentType] /\ argument'[p] = loc.args
      /\ \A q \in Procs \ {p} : argument'[q] = argument[q]
  BY <1>1, <1>2, <1>3
<1>5. \A q \in Procs \ {p} : Arguments(q)' = Arguments(q) BY <1>4 DEF Arguments
<1>6. /\ Held(mem, p) = PagesFrom(1, loc.args)
      /\ \A i \in Indexes : mem.allocations[p][i].size \in {0, 1}
  BY <1>1, <1>2 DEF AtInject
<1>7. Arguments(p)' = Held(mem, p)
  <2>1. Range(s) = {s[j] : j \in 1 .. Len(s)} BY <1>2 DEF Range
  <2>2. Arguments(p)' = ({argv} \cup Range(s)) \ {NULL} BY <1>4 DEF Arguments
  <2>3. PagesFrom(1, loc.args) = ({argv} \cup {s[j] : j \in 1 .. Len(s)}) \ {NULL}
    BY DEF PagesFrom
  <2> QED BY <1>6, <2>1, <2>2, <2>3
<1>8. ASSUME NEW a \in Held(mem, p) PROVE Single(mem, p, a)
  <2>1. PICK i \in Indexes : mem.allocations[p][i].ptr = a BY DEF Held
  <2>2. a # NULL BY DEF Held
  <2>3. HeapOK(mem) /\ TableOK(mem, p) BY <1>2 DEF MemoryOK
  <2> DEFINE e == mem.allocations[p][i]
  <2>4. e \in AllocationType BY <1>2, <2>3, MemoryFields DEF HeapOK
  <2>5. Block(e.ptr, e.size, p, "data") \in BlockType /\ Block(e.ptr, e.size, p, "data").n = e.size
    BY <1>2, <2>1, <2>2, <2>3, TableFacts
  <2> HIDE DEF e
  <2>6. e.size # 0 BY <2>5 DEF BlockType
  <2>7. e.ptr = a /\ e.size = 1 BY <1>6, <2>1, <2>6 DEF e
  <2>8. e = [ptr |-> a, size |-> 1] BY <2>4, <2>7 DEF AllocationType
  <2> QED BY <2>8 DEF Single, e
<1> QED BY <1>4, <1>5, <1>7, <1>8

LEMMA InjectDoneStep ==
  ASSUME IInv, InjectDone
  PROVE  IInv'
<1>1. pc = "inject" /\ Returns /\ UNCHANGED <<mem, live, copies, stray, garbled>>
  BY DEF InjectDone
<1>2. /\ live \subseteq Procs /\ MemoryOK(mem, live) /\ \A q \in live : Running(mem, q)
  BY <1>1, AtInjection
<1>3. ASSUME NEW p, loc.p = p
      PROVE  /\ argument' \in [Procs -> ArgumentType]
             /\ Arguments(p)' = Held(mem, p)
             /\ \A a \in Held(mem, p) : Single(mem, p, a)
             /\ \A q \in Procs \ {p} : Arguments(q)' = Arguments(q)
  BY <1>3, InjectedAll
<1>4. MemoryOK(mem', live) BY <1>1, <1>2
<1>5. ASSUME NEW q \in live
      PROVE  ImageOK(mem', q) /\ Guarded(mem', q) /\ \A a \in Arguments(q)' : Single(mem', q, a)
  <2>1. mem' = mem /\ Running(mem, q) /\ q \in Procs BY <1>1, <1>2
  <2>4. PICK p : loc.p = p OBVIOUS
  <2>2. CASE q = loc.p
    <3>1. \A a \in Arguments(q)' : Single(mem, q, a) BY <1>3, <2>2
    <3> QED BY <2>1, <3>1 DEF Running
  <2>3. CASE q # loc.p
    <3>1. Arguments(q)' = Arguments(q) BY <1>3, <2>1, <2>3, <2>4
    <3> QED BY <2>1, <3>1 DEF Running
  <2> QED BY <2>2, <2>3
<1>6. argument' \in [Procs -> ArgumentType]
  <2>1. PICK p : loc.p = p OBVIOUS
  <2> QED BY <1>3, <2>1
<1> QED BY <1>1, <1>4, <1>5, <1>6, ReturnStep

-----------------------------------------------------------------------------
(* The loops of process_terminate *)

LEMMA AtEnd ==
  ASSUME IInv, pc \in {"allocations", "arguments"}, NEW p, loc.p = p
  PROVE  /\ Types /\ live \subseteq Procs /\ MemoryOK(mem, live)
         /\ p \in live /\ p \in Procs /\ loc.i \in Nat \ {0}
         /\ loc \in [p : Procs, i : Nat \ {0}, argc : Nat, args : ArgumentType]
         /\ Strings(p) \subseteq Pages
         /\ \A q \in live \ {p} : Running(mem, q)
<1>1. Types /\ MemoryOK(mem, live) BY DEF IInv
<1>2. /\ live \subseteq Procs /\ p \in live /\ p \in Procs
      /\ loc \in [p : Procs, i : Nat \ {0}, argc : Nat, args : ArgumentType]
  BY <1>1 DEF Types
<1>3. loc.i \in Nat \ {0} BY <1>2
<1>4. \A q \in live \ {p} : Running(mem, q) BY DEF IInv, Running, Dying
<1>5. Strings(p) \subseteq Pages BY <1>1, <1>2, ArgumentsArePages
<1> QED BY <1>1, <1>2, <1>3, <1>4, <1>5

(* A step of the loops that leaves the process ending.                     *)
LEMMA EndingStep ==
  ASSUME IInv, pc \in {"allocations", "arguments"}, NEW p, loc.p = p,
         MemoryOK(mem', live), \A q \in live \ {p} : Running(mem', q),
         pc' \in {"allocations", "arguments"}, loc'.p = p,
         loc' \in [p : Procs, i : Nat \ {0}, argc : Nat, args : ArgumentType],
         UNCHANGED <<live, copies, argument, garbled>>, stray' = FALSE,
         pc' = "allocations" => ImageOK(mem', p) /\ AtAllocations',
         pc' = "arguments" => AtArguments'
  PROVE  IInv'
<1>1. Types' BY AtEnd DEF Types
<1>2. MemoryOK(mem, live)' OBVIOUS
<1>3. \A q \in live : Arguments(q)' = Arguments(q) BY DEF Arguments
<1>4. \A q \in live' \ {p} : /\ ImageOK(mem, q)' /\ Guarded(mem, q)'
                              /\ \A a \in Arguments(q)' : Single(mem, q, a)'
  BY <1>3 DEF Running
<1>5. \A q \in live' : ~(pc' = "arguments" /\ q = loc'.p) => ImageOK(mem, q)' BY <1>4
<1>6. \A q \in live' : ~Dying(q)' => q # p BY DEF Dying
<1> QED BY <1>1, <1>2, <1>4, <1>5, <1>6 DEF IInv

LEMMA AllocationsStep ==
  ASSUME IInv, process_terminate_allocations
  PROVE  IInv'
<1>1. PICK p : loc.p = p OBVIOUS
<1> DEFINE i == loc.i
           x == mem.allocations[p][i].ptr
           k == process_free(mem, p, x)
<1>2. /\ pc = "allocations" /\ i <= MaxAllocations /\ mem' = k /\ pc' = "allocations"
      /\ loc' = [loc EXCEPT !.i = i + 1]
      /\ UNCHANGED <<live, copies, argument, stray, garbled>>
  BY <1>1 DEF process_terminate_allocations, Iterates
<1>3. /\ Types /\ live \subseteq Procs /\ MemoryOK(mem, live)
      /\ p \in live /\ p \in Procs /\ i \in Nat \ {0}
      /\ loc \in [p : Procs, i : Nat \ {0}, argc : Nat, args : ArgumentType]
      /\ Strings(p) \subseteq Pages
      /\ \A q \in live \ {p} : Running(mem, q)
  BY <1>1, <1>2, AtEnd
<1>4. /\ \A j \in Indexes : j < i => mem.allocations[p][j].ptr = NULL
      /\ \A s \in Strings(p) : Single(mem, p, s) \/ s \notin Taken(mem.heap)
      /\ ImageOK(mem, p)
  BY <1>1, <1>2, <1>3 DEF IInv, AtAllocations
<1>5. i \in Indexes BY <1>2, <1>3, MemoryAssumption DEF Indexes
<1>6. i + 1 \in Nat \ {0} /\ \A j \in Indexes : j < i + 1 => j < i \/ j = i
  BY <1>3, MemoryAssumption DEF Indexes
<1>7. /\ loc'.p = p /\ loc'.i = i + 1
      /\ loc' \in [p : Procs, i : Nat \ {0}, argc : Nat, args : ArgumentType]
  BY <1>1, <1>2, <1>3, <1>6
<1> HIDE DEF k
<1>8. /\ MemoryOK(k, live) /\ ImageOK(k, p)
      /\ \A q \in live \ {p} : Running(k, q)
      /\ \A j \in Indexes : j < i + 1 => k.allocations[p][j].ptr = NULL
      /\ \A s \in Strings(p) : Single(k, p, s) \/ s \notin Taken(k.heap)
  <2>1. CASE x = NULL
    <3>1. k = mem BY <2>1 DEF k, process_free
    <3>2. \A j \in Indexes : j < i + 1 => k.allocations[p][j].ptr = NULL
      BY <1>4, <1>6, <2>1, <3>1
    <3> QED BY <1>3, <1>4, <3>1, <3>2
  <2>2. CASE x # NULL
    <3>1. Shrunk(mem, k, p, i) /\ Released(live, mem, k, p, x)
      <4>1. k = process_free(mem, p, mem.allocations[p][i].ptr) BY DEF k
      <4>2. live \subseteq Procs /\ MemoryOK(mem, live) /\ p \in live BY <1>3
      <4>3. i \in Indexes /\ mem.allocations[p][i].ptr # NULL BY <1>5, <2>2
      <4> HIDE DEF i
      <4> QED BY <4>1, <4>2, <4>3, FreeOK
    <3> HIDE DEF i, x
    <3>2. ASSUME NEW q \in live \ {p} PROVE Running(k, q)
      <4>1. Running(mem, q) /\ Arguments(q) \subseteq Pages BY <1>3, ArgumentsArePages
      <4> QED BY <3>1, <4>1 DEF Running, Released
    <3>3. ImageOK(k, p) BY <1>3, <1>4, <3>1 DEF Released
    <3>4. /\ k.allocations[p][i] = Unused
          /\ \A j \in Indexes : j # i => k.allocations[p][j] = mem.allocations[p][j]
      BY <1>5, <3>1 DEF Shrunk
    <3>5. Unused.ptr = NULL BY DEF Unused
    <3>6. \A j \in Indexes : j < i + 1 => k.allocations[p][j].ptr = NULL
      BY <1>4, <1>6, <3>4, <3>5
    <3>7. ASSUME NEW s \in Strings(p) PROVE Single(k, p, s) \/ s \notin Taken(k.heap)
      <4>1. CASE s = x BY <3>1, <4>1 DEF Released
      <4>2. CASE s # x BY <1>3, <1>4, <3>1, <4>2 DEF Released
      <4> QED BY <4>1, <4>2
    <3> QED BY <3>1, <3>2, <3>3, <3>6, <3>7 DEF Released
  <2> QED BY <2>1, <2>2
<1>9. Strings(loc.p)' = Strings(p) BY <1>2, <1>7 DEF Strings
<1>10. AtAllocations' BY <1>2, <1>7, <1>8, <1>9 DEF AtAllocations
<1>11. MemoryOK(mem', live) /\ ImageOK(mem', p) /\ \A q \in live \ {p} : Running(mem', q)
  BY <1>2, <1>8
<1>12. stray' = FALSE BY <1>2, <1>3 DEF Types
<1> QED BY <1>1, <1>2, <1>7, <1>10, <1>11, <1>12, EndingStep

LEMMA ProgramDataStep ==
  ASSUME IInv, process_terminate_program_data
  PROVE  IInv'
<1>1. PICK p : loc.p = p OBVIOUS
<1> DEFINE b == BlockOf(mem, p, "image")
           k == kfree(mem, b.at)
<1>2. /\ pc = "allocations" /\ loc.i > MaxAllocations /\ mem' = k
      /\ Enters("arguments", p, 0, NULL)
      /\ UNCHANGED <<live, copies, argument, stray, garbled>>
  BY <1>1 DEF process_terminate_program_data
<1>3. /\ Types /\ live \subseteq Procs /\ MemoryOK(mem, live)
      /\ p \in live /\ p \in Procs /\ loc.i \in Nat \ {0}
      /\ Strings(p) \subseteq Pages
      /\ \A q \in live \ {p} : Running(mem, q)
  BY <1>1, <1>2, AtEnd
<1>4. /\ \A j \in Indexes : j < loc.i => mem.allocations[p][j].ptr = NULL
      /\ \A s \in Strings(p) : Single(mem, p, s) \/ s \notin Taken(mem.heap)
      /\ ImageOK(mem, p)
  BY <1>1, <1>2, <1>3 DEF IInv, AtAllocations
<1>5. \A j \in Indexes : mem.allocations[p][j].ptr = NULL
  <2>1. \A j \in Indexes : j < loc.i BY <1>2, <1>3, MemoryAssumption DEF Indexes
  <2> QED BY <1>4, <2>1
<1>6. \A s \in Strings(p) : s \notin Taken(mem.heap)
  <2>1. ASSUME NEW s \in Strings(p), Single(mem, p, s) PROVE FALSE
    <3>1. PICK j \in Indexes : mem.allocations[p][j] = [ptr |-> s, size |-> 1] BY <2>1 DEF Single
    <3>2. mem.allocations[p][j].ptr = s BY <3>1
    <3>3. s # NULL BY <1>3, <2>1, PagesFacts
    <3> QED BY <1>5, <3>2, <3>3
  <2> QED BY <1>4, <2>1
<1>7. b \in mem.heap /\ b.who = p /\ b.what = "image"
  <2>1. \E c \in mem.heap : c.who = p /\ c.what = "image" BY <1>4 DEF ImageOK
  <2> QED BY <2>1 DEF BlockOf
<1> HIDE DEF b
<1>8. /\ k \in Memory /\ k.heap = {c \in mem.heap : c.at # b.at}
      /\ k.dir = mem.dir /\ k.allocations = mem.allocations
  BY <1>3, kfreeResult DEF MemoryOK, HeapOK
<1> HIDE DEF k
<1>9. /\ MemoryOK(k, live)
      /\ \A q \in live \ {p} : Keeps(mem, k, q)
      /\ \A c \in k.heap : c.who = p => c.what # "image"
      /\ \A s : s \notin Taken(mem.heap) => s \notin Taken(k.heap)
  <2>1. live \subseteq Procs /\ MemoryOK(mem, live) /\ p \in live BY <1>3
  <2>2. /\ k \in Memory /\ \A c : c \in k.heap <=> c \in mem.heap /\ c.at # b.at
        /\ k.dir = mem.dir /\ k.allocations = mem.allocations
    BY <1>8
  <2> QED BY <1>7, <2>1, <2>2, DropOK
<1>10. \A q \in live \ {p} : Running(k, q) BY <1>3, <1>9, KeepsRunning
<1>11. /\ pc' = "arguments"
       /\ loc' = [p |-> p, i |-> 1, argc |-> 0, args |-> [argv |-> NULL, strings |-> <<>>]]
  BY <1>2 DEF Enters
<1>12. loc'.p = p BY <1>11
<1>13. loc' \in [p : Procs, i : Nat \ {0}, argc : Nat, args : ArgumentType]
  <2>1. NoArgument \in ArgumentType BY NoArguments
  <2> QED BY <1>3, <1>11, <2>1 DEF NoArgument
<1>14. Strings(loc.p)' = Strings(p) BY <1>2, <1>12 DEF Strings
<1>15. AtArguments'
  <2>1. \A j \in Indexes : k.allocations[p][j].ptr = NULL BY <1>5, <1>8
  <2>2. \A s \in Strings(p) : s \notin Taken(k.heap) BY <1>6, <1>9
  <2> QED BY <1>2, <1>9, <1>12, <1>14, <2>1, <2>2 DEF AtArguments
<1>16. MemoryOK(mem', live) /\ \A q \in live \ {p} : Running(mem', q) BY <1>2, <1>9, <1>10
<1>17. stray' = FALSE BY <1>2, <1>3 DEF Types
<1> QED BY <1>1, <1>2, <1>11, <1>12, <1>13, <1>15, <1>16, <1>17, EndingStep

(* kfree of a page that is free.                                           *)
LEMMA kfreeFree ==
  ASSUME NEW m, HeapOK(m), NEW ptr, ptr \notin Taken(m.heap)
  PROVE  kfree(m, ptr) = m
<1>1. m \in Memory BY DEF HeapOK
<1>2. \A b \in m.heap : b.at # ptr
  <2> TAKE b \in m.heap
  <2>1. b \in BlockType /\ PagesOf(b) \subseteq Taken(m.heap) BY PagesInHeap
  <2>2. b.at \in PagesOf(b) BY <2>1, BlockFacts
  <2> QED BY <2>1, <2>2
<1>3. {b \in m.heap : b.at # ptr} = m.heap BY <1>2
<1> QED BY <1>1, <1>3 DEF kfree, Memory

LEMMA CommandArgumentStep ==
  ASSUME IInv, process_terminate_command_argument
  PROVE  IInv'
<1>1. PICK p : loc.p = p OBVIOUS
<1> DEFINE strings == argument[p].strings
           x == strings[loc.i]
<1>2. /\ pc = "arguments" /\ loc.i <= Len(strings) /\ mem' = kfree(mem, x)
      /\ stray' = (stray \/ ~MayFree(mem, p, x))
      /\ loc' = [loc EXCEPT !.i = loc.i + 1] /\ pc' = pc
      /\ UNCHANGED <<live, copies, argument, garbled>>
  BY <1>1 DEF process_terminate_command_argument, Iterates
<1>3. /\ Types /\ live \subseteq Procs /\ MemoryOK(mem, live)
      /\ p \in live /\ p \in Procs /\ loc.i \in Nat \ {0}
      /\ loc \in [p : Procs, i : Nat \ {0}, argc : Nat, args : ArgumentType]
      /\ \A q \in live \ {p} : Running(mem, q)
  BY <1>1, <1>2, AtEnd
<1>4. AtArguments BY <1>2 DEF IInv
<1>5. x \in Strings(p)
  <2>1. argument[p] \in ArgumentType BY <1>3 DEF Types
  <2>2. strings \in Seq(Pages) BY <2>1 DEF ArgumentType
  <2>3. loc.i \in 1 .. Len(strings) BY <1>2, <1>3, <2>2
  <2>4. DOMAIN strings = 1 .. Len(strings) BY <2>2
  <2> QED BY <2>3, <2>4 DEF Strings, Range
<1>6. x \notin Taken(mem.heap) BY <1>1, <1>4, <1>5 DEF AtArguments
<1> HIDE DEF x
<1>7. mem' = mem BY <1>2, <1>3, <1>6, kfreeFree DEF MemoryOK
<1>8. stray' = FALSE
  <2>1. MayFree(mem, p, x) BY <1>6 DEF MayFree
  <2> QED BY <1>2, <1>3, <2>1 DEF Types
<1>9. loc.i + 1 \in Nat \ {0}
  <2>1. \A n \in Nat \ {0} : n + 1 \in Nat \ {0} OBVIOUS
  <2> QED BY <1>3, <2>1
<1>10. loc'.p = p /\ loc' \in [p : Procs, i : Nat \ {0}, argc : Nat, args : ArgumentType]
  BY <1>1, <1>2, <1>3, <1>9
<1>11. Strings(loc.p)' = Strings(loc.p) BY <1>1, <1>2, <1>10 DEF Strings
<1>12. AtArguments' BY <1>1, <1>4, <1>7, <1>10, <1>11 DEF AtArguments
<1>13. MemoryOK(mem', live) /\ \A q \in live \ {p} : Running(mem', q) BY <1>3, <1>7
<1> QED BY <1>1, <1>2, <1>8, <1>10, <1>12, <1>13, EndingStep

LEMMA TerminateStep ==
  ASSUME IInv, process_terminate
  PROVE  IInv'
<1>1. PICK p : loc.p = p OBVIOUS
<1>2. /\ pc = "arguments" /\ mem' = [mem EXCEPT !.dir[p] = paging_new_4gb_chunk]
      /\ live' = live \ {p} /\ argument' = [argument EXCEPT ![p] = NoArgument]
      /\ pc' = "user" /\ loc' = NoLocals /\ UNCHANGED <<copies, stray, garbled>>
  BY <1>1 DEF process_terminate, Returns
<1>3. /\ Types /\ live \subseteq Procs /\ MemoryOK(mem, live)
      /\ p \in live /\ p \in Procs
      /\ \A q \in live \ {p} : Running(mem, q)
  BY <1>1, <1>2, AtEnd
<1>4. AtArguments BY <1>2 DEF IInv
<1>5. /\ HeapOK(mem) /\ mem \in Memory /\ OwnersOK(mem, live)
      /\ \A q \in live : TableOK(mem, q)
  BY <1>3 DEF MemoryOK, HeapOK
<1>6. paging_new_4gb_chunk \in [Virtual -> EntryType] BY EntryOK DEF paging_new_4gb_chunk
<1>7. /\ mem'.heap = mem.heap /\ mem'.dir = [mem.dir EXCEPT ![p] = paging_new_4gb_chunk]
      /\ mem'.allocations = mem.allocations /\ mem' \in Memory
  BY <1>2, <1>3, <1>5, <1>6 DEF Memory
<1>8. \A q \in live \ {p} : mem'.dir[q] = mem.dir[q]
  BY <1>3, <1>5, <1>7, MemoryFields
<1>9. HeapOK(mem') BY <1>5, <1>7, FewerBlocks
<1>10. OwnersOK(mem', live \ {p})
  <2>1. ASSUME NEW b \in mem.heap, b.who = p PROVE b.what \notin {"data", "image"}
    <3>1. b.what # "image" BY <1>1, <1>4, <2>1 DEF AtArguments
    <3>2. ASSUME b.what = "data" PROVE FALSE
      <4>1. PICK i \in Indexes : mem.allocations[p][i] = [ptr |-> b.at, size |-> b.n]
        BY <1>5, <2>1, <3>2 DEF OwnersOK
      <4>2. mem.allocations[p][i].ptr = b.at BY <4>1
      <4>3. b.at # NULL BY <1>5, PagesInHeap, BlockFacts, PagesFacts
      <4> QED BY <1>1, <1>4, <4>2, <4>3 DEF AtArguments
    <3> QED BY <3>1, <3>2
  <2>2. OwnersOK(mem', live) BY <1>5, <1>7 DEF OwnersOK
  <2>3. \A b \in mem'.heap : b.what \in {"data", "image"} => b.who \in live \ {p}
    BY <1>7, <2>1, <2>2 DEF OwnersOK
  <2> QED BY <2>2, <2>3 DEF OwnersOK
<1>11. ASSUME NEW q \in live \ {p} PROVE TableOK(mem', q)
  <2>1. TableOK(mem, q) BY <1>5
  <2>2. /\ mem'.dir[q] = mem.dir[q] /\ mem'.allocations = mem.allocations
        /\ mem'.heap = mem.heap
    BY <1>7, <1>8
  <2>3. \A j \in Indexes : Backed(mem, q, mem.allocations[q][j]) BY <2>1 DEF TableOK, Backed
  <2>4. \A j \in Indexes : Backed(mem', q, mem.allocations[q][j]) BY <2>2, <2>3 DEF Backed
  <2>5. mem'.dir[q][0] = Entry(0, FALSE, TRUE) BY <2>1, <2>2 DEF TableOK
  <2> QED BY <2>1, <2>2, <2>4, <2>5, TableKept
<1>12. MemoryOK(mem', live \ {p}) BY <1>9, <1>10, <1>11 DEF MemoryOK
<1>13. /\ argument' \in [Procs -> ArgumentType]
       /\ \A q \in Procs \ {p} : Arguments(q)' = Arguments(q)
  BY <1>2, <1>3, ArgumentsReset
<1>14. ASSUME NEW q \in live \ {p} PROVE Running(mem', q)
  <2>1. Running(mem, q) /\ mem'.dir[q] = mem.dir[q] BY <1>3, <1>8
  <2>2. ImageOK(mem', q) BY <1>7, <2>1 DEF Running, ImageOK
  <2>3. Guarded(mem', q) BY <1>7, <2>1 DEF Running, Guarded
  <2>4. \A a \in Arguments(q) : Single(mem', q, a) BY <1>7, <2>1 DEF Running, Single
  <2> QED BY <2>2, <2>3, <2>4 DEF Running
<1>15. Types' BY <1>2, <1>3, <1>13 DEF Types
<1>16. MemoryOK(mem, live)' BY <1>2, <1>12
<1>17. \A q \in live' : /\ ImageOK(mem, q)' /\ Guarded(mem, q)'
                        /\ \A a \in Arguments(q)' : Single(mem, q, a)'
  BY <1>2, <1>3, <1>13, <1>14 DEF Running
<1> QED BY <1>2, <1>15, <1>16, <1>17 DEF IInv

-----------------------------------------------------------------------------
(* The invariant holds *)

LEMMA StepIInv ==
  ASSUME IInv, [Next]_vars
  PROVE  IInv'
<1>1. CASE UNCHANGED vars
  <2>1. /\ mem' = mem /\ live' = live /\ copies' = copies /\ argument' = argument
        /\ stray' = stray /\ garbled' = garbled /\ pc' = pc /\ loc' = loc
    BY <1>1 DEF vars
  <2>2. Types' <=> Types BY <2>1 DEF Types
  <2>3. MemoryOK(mem, live)' <=> MemoryOK(mem, live) BY <2>1
  <2>4. \A p : /\ Dying(p)' <=> Dying(p)
               /\ Arguments(p)' = Arguments(p)
    BY <2>1 DEF Dying, Arguments
  <2>5. \A p : /\ ImageOK(mem, p)' <=> ImageOK(mem, p)
               /\ Guarded(mem, p)' <=> Guarded(mem, p)
               /\ \A a : Single(mem, p, a)' <=> Single(mem, p, a)
    BY <2>1
  <2>6. AtInject' <=> AtInject BY <2>1 DEF AtInject
  <2>7. AtAllocations' <=> AtAllocations BY <2>1 DEF AtAllocations, Strings
  <2>8. AtArguments' <=> AtArguments BY <2>1 DEF AtArguments, Strings
  <2> QED BY <2>1, <2>2, <2>3, <2>4, <2>5, <2>6, <2>7, <2>8 DEF IInv
<1>2. CASE pc = "user" /\ SystemCall
  <2>1. ASSUME NEW p \in Procs, start_first(p) PROVE IInv'
    BY <1>2, <2>1, FirstStep
  <2>2. ASSUME NEW p \in live, NEW aligned \in BOOLEAN, NEW v \in StringPages(p),
               isr80h_command1_print(p, v, aligned)
        PROVE  IInv'
    BY <1>2, <2>2, PrintStep
  <2>3. ASSUME NEW p \in live, NEW n \in Sizes, isr80h_command4_malloc(p, n) PROVE IInv'
    BY <1>2, <2>3, MallocStep
  <2>4. ASSUME NEW p \in live, NEW ptr \in Virtual \ Arguments(p), isr80h_command5_free(p, ptr)
        PROVE  IInv'
    BY <1>2, <2>4, FreeStep
  <2>5. ASSUME NEW q \in live, NEW p \in Procs \ live, NEW aligned \in BOOLEAN,
               NEW v \in StringPages(q), isr80h_command6_process_load_start(q, p, v, aligned)
        PROVE  IInv'
    BY <1>2, <2>5, LoadStartStep
  <2>6. ASSUME NEW q \in live, NEW p \in Procs \ live, NEW nodes \in NodeLists(q),
               isr80h_command7_invake_system_command(q, p, nodes)
        PROVE  IInv'
    BY <1>2, <2>6, InvakeStep
  <2>7. ASSUME NEW p \in live, isr80h_command9_exit(p) PROVE IInv'
    BY <1>2, <2>7, ExitStep
  <2> QED BY <1>2, <2>1, <2>2, <2>3, <2>4, <2>5, <2>6, <2>7 DEF SystemCall
<1>3. CASE InjectNode BY <1>3, InjectNodeStep
<1>4. CASE InjectDone BY <1>4, InjectDoneStep
<1>5. CASE InjectUndo BY <1>5, InjectUndoStep
<1>6. CASE InjectFails BY <1>6, InjectFailsStep
<1>7. CASE process_terminate_allocations BY <1>7, AllocationsStep
<1>8. CASE process_terminate_program_data BY <1>8, ProgramDataStep
<1>9. CASE process_terminate_command_argument BY <1>9, CommandArgumentStep
<1>10. CASE process_terminate BY <1>10, TerminateStep
<1> QED BY <1>1, <1>2, <1>3, <1>4, <1>5, <1>6, <1>7, <1>8, <1>9, <1>10 DEF Next

LEMMA AlwaysIInv == Spec => []IInv
<1>1. Init => IInv BY InitIInv
<1>2. IInv /\ [Next]_vars => IInv' BY StepIInv
<1> QED BY <1>1, <1>2, PTL DEF Spec

-----------------------------------------------------------------------------
(* What follows *)

LEMMA TypesFollow ==
  ASSUME IInv
  PROVE  TypeOK
<1>1. Types /\ HeapOK(mem) /\ mem \in Memory BY DEF IInv, MemoryOK, HeapOK
<1>2. mem.heap \subseteq Blocks
  <2>1. BlockType \subseteq Blocks BY DEF BlockType, Blocks, Kinds
  <2> QED BY <1>1, <2>1, MemoryFields
<1>3. \A b \in mem.heap : \A c \in mem.heap \ {b} : PagesOf(b) \cap PagesOf(c) = {}
  BY <1>1 DEF HeapOK
<1>4. /\ mem.dir \in [Procs -> [Virtual -> [phys : Virtual, w : BOOLEAN, p : BOOLEAN]]]
      /\ mem.allocations \in [Procs -> [Indexes -> [ptr : Pages \cup {NULL}, size : Nat]]]
  BY <1>1, MemoryFields DEF EntryType, AllocationType
<1>5. \A p \in Procs : Arguments(p) \subseteq Pages BY <1>1, ArgumentsArePages
<1>6. pc # "user" => loc.p \in live /\ loc.i \in Nat \ {0}
  <2>1. pc # "user" => loc \in [p : Procs, i : Nat \ {0}, argc : Nat, args : ArgumentType]
    BY <1>1 DEF Types
  <2>2. pc # "user" => loc.i \in Nat \ {0} BY <2>1
  <2> QED BY <1>1, <2>2 DEF Types
<1> QED BY <1>1, <1>2, <1>3, <1>4, <1>5, <1>6 DEF Types, TypeOK

LEMMA AccountedFollows ==
  ASSUME IInv
  PROVE  AllocationsAccounted
<1> DEFINE Listed(p) == {i \in Indexes : mem.allocations[p][i] # Unused}
           AsBlock(p, i) == Block(mem.allocations[p][i].ptr, mem.allocations[p][i].size, p, "data")
<1>1. /\ live \subseteq Procs /\ HeapOK(mem) /\ OwnersOK(mem, live)
      /\ \A p \in live : TableOK(mem, p)
  BY DEF IInv, Types, MemoryOK
<1>2. \A p \in live : \A i \in Listed(p) : i \in Indexes /\ mem.allocations[p][i].ptr # NULL
  BY <1>1 DEF TableOK
<1>3. ASSUME NEW p \in live, NEW i \in Listed(p)
      PROVE  AsBlock(p, i) \in mem.heap /\ AsBlock(p, i).what = "data"
  <2>1. p \in Procs /\ TableOK(mem, p) /\ i \in Indexes /\ mem.allocations[p][i].ptr # NULL
    BY <1>1, <1>2
  <2> QED BY <1>1, <2>1, TableFacts
<1>4. ASSUME NEW b \in mem.heap, b.what = "data"
      PROVE  \E p \in live : \E i \in Listed(p) : b = AsBlock(p, i)
  <2>1. b.who \in live BY <1>1, <1>4 DEF OwnersOK
  <2>2. PICK i \in Indexes : mem.allocations[b.who][i] = [ptr |-> b.at, size |-> b.n]
    BY <1>1, <1>4 DEF OwnersOK
  <2>3. b \in BlockType /\ b.at # NULL BY <1>1, PagesInHeap, BlockFacts, PagesFacts
  <2>4. mem.allocations[b.who][i].ptr = b.at /\ mem.allocations[b.who][i].size = b.n BY <2>2
  <2>5. mem.allocations[b.who][i] # Unused
    <3>1. Unused.ptr = NULL BY DEF Unused
    <3> QED BY <2>3, <2>4, <3>1
  <2>6. b = AsBlock(b.who, i) BY <1>4, <2>3, <2>4 DEF Block, BlockType
  <2> QED BY <2>1, <2>5, <2>6
<1>5. {b \in mem.heap : b.what = "data"} = UNION {{AsBlock(p, i) : i \in Listed(p)} : p \in live}
  <2> HIDE DEF AsBlock, Listed
  <2> QED BY <1>3, <1>4
<1>6. ASSUME NEW p \in live, NEW i \in Listed(p), NEW j \in Listed(p), i # j
      PROVE  mem.allocations[p][i].ptr # mem.allocations[p][j].ptr
  <2>1. TableOK(mem, p) /\ i \in Indexes /\ j \in Indexes /\ mem.allocations[p][i].ptr # NULL
    BY <1>1, <1>2
  <2> QED BY <1>6, <2>1 DEF TableOK
<1> QED BY <1>5, <1>6, TypesFollow DEF AllocationsAccounted

LEMMA BlockOfPage ==
  ASSUME NEW m, HeapOK(m), NEW p \in Procs, TableOK(m, p), NEW i \in Indexes,
         m.allocations[p][i].ptr # NULL, NEW v \in Span(m.allocations[p][i])
  PROVE  \E b \in m.heap : b.who = p /\ b.what = "data" /\ v \in PagesOf(b)
<1> DEFINE a == m.allocations[p][i]
           b == Block(a.ptr, a.size, p, "data")
<1>1. b \in m.heap /\ b.who = p /\ b.what = "data" /\ Span(a) = PagesOf(b) BY TableFacts
<1> HIDE DEF b
<1> QED BY <1>1

LEMMA ConfinedFollows ==
  ASSUME IInv
  PROVE  Confined
<1> SUFFICES ASSUME pc = "user", NEW p \in live, NEW v \in Virtual,
                    mem.dir[p][v].w, mem.dir[p][v].p, mem.dir[p][v].phys = v \/ v = Image
             PROVE  mem.dir[p][v].phys \in OwnPages(p)
  BY DEF Confined
<1> DEFINE e == mem.dir[p][v]
<1>1. /\ live \subseteq Procs /\ MemoryOK(mem, live) /\ Running(mem, p) BY AtUser
<1>2. HeapOK(mem) /\ TableOK(mem, p) /\ p \in Procs BY <1>1 DEF MemoryOK
<1>3. e \in EntryType BY <1>2, MemoryFields DEF HeapOK
<1>4. ASSUME NEW b \in mem.heap, b.who = p, b.what \in {"data", "image"}, e.phys \in PagesOf(b)
      PROVE  e.phys \in OwnPages(p)
  BY <1>4 DEF OwnPages
<1>5. CASE v = Image
  <2>1. PICK b \in mem.heap : /\ b.who = p /\ b.what = "image"
                              /\ mem.dir[p][Image] = Entry(b.at, TRUE, TRUE)
    BY <1>1 DEF Running, ImageOK
  <2>2. e.phys = b.at BY <1>5, <2>1 DEF Entry
  <2>3. b.at \in PagesOf(b) BY <1>2, PagesInHeap, BlockFacts
  <2> QED BY <1>4, <2>1, <2>2, <2>3
<1>6. CASE v = 0
  <2>1. e = Entry(0, FALSE, TRUE) BY <1>2, <1>6 DEF TableOK
  <2>2. ~e.w BY <2>1 DEF Entry
  <2> QED BY <2>2
<1>7. CASE v \in Pages
  <2>1. e.phys = v BY <1>7, PagesFacts
  <2>2. e = Entry(v, TRUE, TRUE) BY <1>3, <2>1 DEF EntryType, Entry
  <2>3. PICK i \in Indexes : /\ mem.allocations[p][i].ptr # NULL
                             /\ v \in Span(mem.allocations[p][i])
    BY <1>1, <1>7, <2>2 DEF Running, Guarded
  <2>4. PICK b \in mem.heap : b.who = p /\ b.what = "data" /\ v \in PagesOf(b)
    BY <1>2, <2>3, BlockOfPage
  <2> QED BY <1>4, <2>1, <2>4
<1>8. v \in Pages \/ v = 0 \/ v = Image BY PagesFacts
<1> QED BY <1>5, <1>6, <1>7, <1>8

LEMMA CleanFollows ==
  ASSUME IInv
  PROVE  EndsClean
<1>1. HeapOK(mem) /\ OwnersOK(mem, live) BY DEF IInv, MemoryOK
<1>2. \A b \in mem.heap : b.what \in Kinds
  <2>1. mem.heap \subseteq BlockType BY <1>1, MemoryFields DEF HeapOK
  <2> QED BY <2>1 DEF BlockType
<1> QED BY <1>1, <1>2 DEF EndsClean, OwnersOK, Kinds

(* Heap and tables agree whatever the number of processes, pages and       *)
(* entries: a block that process_malloc took is in the table of the        *)
(* process that asked for it, in one entry, until process_free gives it    *)
(* back, also half way through the loops that inject arguments, take them  *)
(* back or end a process.                                                  *)
THEOREM MemoryAllocationsAccounted == Spec => []AllocationsAccounted
<1>1. IInv => AllocationsAccounted BY AccountedFollows
<1> QED BY <1>1, AlwaysIInv, PTL

(* Memory that a program was given stays mapped to itself, present and     *)
(* writeable, through every copy_string_from_task, process_free and load.  *)
THEOREM MemoryAllocationsMapped == Spec => []AllocationsMapped
<1>1. ASSUME IInv PROVE AllocationsMapped
  <2>1. live \subseteq Procs /\ HeapOK(mem) /\ \A p \in live : TableOK(mem, p)
    BY <1>1 DEF IInv, Types, MemoryOK
  <2>2. ASSUME NEW p \in live, NEW v \in DataPages(p) PROVE mem.dir[p][v] = Entry(v, TRUE, TRUE)
    <3>1. p \in Procs /\ TableOK(mem, p) BY <2>1
    <3> QED BY <2>1, <3>1, DataFacts
  <2> QED BY <2>2 DEF AllocationsMapped
<1>2. IInv => AllocationsMapped BY <1>1
<1> QED BY <1>2, AlwaysIInv, PTL

(* When programs run, a page that one can write to at its own address, or  *)
(* through its image, is its own data or image at that moment.             *)
THEOREM MemoryConfined == Spec => []Confined
<1>1. IInv => Confined BY ConfinedFollows
<1> QED BY <1>1, AlwaysIInv, PTL

(* process_terminate_command_argument, which frees strings that are free   *)
(* already, never frees what another process holds.                        *)
THEOREM MemoryNoForeignFree == Spec => []NoForeignFree
<1>1. IInv => NoForeignFree BY DEF IInv, Types, NoForeignFree
<1> QED BY <1>1, AlwaysIInv, PTL

(* An argument that the caller allocated is found where it is, although    *)
(* process_get_next_command_argument looks in the directory of the new     *)
(* process.                                                                *)
THEOREM MemoryArgumentsArrive == Spec => []ArgumentsArrive
<1>1. IInv => ArgumentsArrive BY DEF IInv, Types, ArgumentsArrive
<1> QED BY <1>1, AlwaysIInv, PTL

(* process_terminate leaves a process nothing but its task_struct and the  *)
(* tmp page of a copy that faulted.                                        *)
THEOREM MemoryEndsClean == Spec => []EndsClean
<1>1. IInv => EndsClean BY CleanFollows
<1> QED BY <1>1, AlwaysIInv, PTL

(* A step that ends process_inject_argument leaves the new process with    *)
(* the pages of its arguments and no others.                               *)
THEOREM MemoryInjectedWhole == Spec => InjectedWhole
<1> DEFINE Whole == \A p \in live : pc \in {"inject", "undo"} /\ pc' = "user" /\ loc.p = p =>
                      {mem'.allocations[p][i].ptr : i \in Indexes} \ {NULL} = Arguments(p)'
<1>1. ASSUME IInv, Next PROVE Whole
  <2> SUFFICES ASSUME NEW p \in live, pc \in {"inject", "undo"}, pc' = "user", loc.p = p
               PROVE  {mem'.allocations[p][i].ptr : i \in Indexes} \ {NULL} = Arguments(p)'
    OBVIOUS
  <2>1. InjectDone \/ InjectFails
    <3>1. ~process_terminate_allocations BY DEF process_terminate_allocations
    <3>2. ~process_terminate_program_data BY DEF process_terminate_program_data
    <3>3. ~process_terminate_command_argument BY DEF process_terminate_command_argument
    <3>4. ~process_terminate BY DEF process_terminate
    <3>5. ~InjectNode BY DEF InjectNode
    <3>6. ~InjectUndo BY DEF InjectUndo, Iterates
    <3> QED BY <1>1, <3>1, <3>2, <3>3, <3>4, <3>5, <3>6 DEF Next
  <2>2. CASE InjectDone
    <3>1. mem' = mem BY <2>2 DEF InjectDone
    <3>2. Arguments(p)' = Held(mem, p) BY <1>1, <2>2, InjectedAll
    <3> QED BY <3>1, <3>2 DEF Held
  <2>3. CASE InjectFails
    <3>1. Held(mem', p) = {} /\ Arguments(p)' = {} BY <1>1, <2>3, UndoneAll
    <3> QED BY <3>1 DEF Held
  <2> QED BY <2>1, <2>2, <2>3
<1>2. IInv /\ [Next]_vars => [Whole]_vars BY <1>1
<1> QED BY <1>2, AlwaysIInv, PTL DEF Spec, InjectedWhole

=============================================================================
