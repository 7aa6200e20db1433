---------------------------- MODULE ProcessMemory ---------------------------
(***************************************************************************)
(* The memory of processes: process_malloc, process_free,                  *)
(* process_inject_argument and process_terminate (kernel/sched.c),         *)
(* copy_string_from_task (kernel/task.c) and the page entries they set     *)
(* (arch/x86/kernel/paging.c), over the heap of Heap.tla.                  *)
(*                                                                         *)
(* A block of the heap is a page.  Addresses are page numbers: 0, the      *)
(* heap's pages, and Image, which stands for the program's pages at        *)
(* 0x400000 and its stack below.  A process takes one page for its         *)
(* task_struct and one for its image, program and stack; the thread_info   *)
(* and the tables of the directory are left out.  A system call is one     *)
(* step, followed by one for each iteration of a loop that it runs; any    *)
(* process that exists may make the next one, which is more than Sched.tla *)
(* allows.                                                                 *)
(*                                                                         *)
(* Of programs it is assumed that they pass pointers into memory of their  *)
(* own, or to pages that are not there, and that they do not free their    *)
(* arguments, as C forbids.                                                *)
(***************************************************************************)
EXTENDS Integers, Sequences, SequencesExt

CONSTANTS
  Procs,
  NumPages,          \* the blocks of the heap
  MaxAllocations,    \* KERNEL_MAX_PROGRAM_ALLOCATIONS
  Sizes,             \* the sizes, in pages, programs ask for
  MaxArgs,           \* the longest argument list explored
  MaxCopies          \* the copies of strings explored

NULL == 0
Pages == 1 .. NumPages
Image == NumPages + 1
Virtual == 0 .. Image
Indexes == 1 .. MaxAllocations

ASSUME MemoryAssumption ==
  /\ NumPages \in Nat
  /\ MaxAllocations \in Nat \ {0}
  /\ Sizes \subseteq Nat
  /\ MaxArgs \in Nat \ {0}
  /\ MaxCopies \in Nat

VARIABLES
  mem,          \* the heap, and the directory and allocations of each process
  live,         \* the processes that exist
  copies,       \* the calls of copy_string_from_task so far
  argument,     \* process->argument: argv, and the strings it points to
  stray,        \* something was freed that its owner had not allocated
  garbled,      \* an allocated argument was read from the wrong page
  pc,           \* "user", or the loop that the kernel is in
  loc           \* the locals of that loop

vars == <<mem, live, copies, argument, stray, garbled, pc, loc>>

(* mem.heap is the set of allocated blocks: the first page, the number of  *)
(* pages, the process they were allocated for and what they are.           *)
Block(at, n, who, what) == [at |-> at, n |-> n, who |-> who, what |-> what]
PagesOf(b) == b.at .. b.at + b.n - 1
Taken(heap) == UNION {PagesOf(b) : b \in heap}

Unused == [ptr |-> NULL, size |-> 0]
NoAllocations == [i \in Indexes |-> Unused]
NoArgument == [argv |-> NULL, strings |-> <<>>]
NoLocals == [p |-> NULL, i |-> 0, argc |-> 0, args |-> NoArgument]

-----------------------------------------------------------------------------
(* The heap (Heap.tla) *)

(* The first run of n free pages, or NULL.                                 *)
kzalloc(m, n) ==
  LET fits == {a \in Pages : /\ a + n - 1 <= NumPages
                             /\ \A x \in a .. a + n - 1 : x \notin Taken(m.heap)}
  IN  IF n = 0 \/ fits = {} THEN NULL ELSE CHOOSE a \in fits : \A b \in fits : a <= b

Take(m, b) == [m EXCEPT !.heap = @ \cup {b}]

(* A block that is free already stays free.                                *)
kfree(m, ptr) == [m EXCEPT !.heap = {b \in @ : b.at # ptr}]

(* ptr is free, or the start of a block that belongs to p.                 *)
MayFree(m, p, ptr) ==
  \/ ptr \notin Taken(m.heap)
  \/ \E b \in m.heap : b.at = ptr /\ b.who = p

-----------------------------------------------------------------------------
(* Page directories *)

Entry(phys, writeable, present) == [phys |-> phys, w |-> writeable, p |-> present]

(* paging_new_4gb_chunk: everything is mapped to itself and readable.      *)
paging_new_4gb_chunk == [v \in Virtual |-> Entry(v, FALSE, TRUE)]

(* paging_map_to, for n pages.                                             *)
paging_map_to(dir, virt, phys, n, w, p) ==
  [v \in Virtual |-> IF v \in virt .. virt + n - 1
                     THEN Entry(phys + (v - virt), w, p) ELSE dir[v]]

(* paging_get: paging_get_indexes refuses an address that is not aligned   *)
(* and leaves both indexes 0.                                              *)
paging_get(dir, virt, aligned) == IF aligned THEN dir[virt] ELSE dir[0]

paging_get_physical_address(dir, virt) == dir[virt].phys

-----------------------------------------------------------------------------
(* process_malloc and process_free *)

FreeIndexes(m, p) == {i \in Indexes : m.allocations[p][i].ptr = NULL}

process_find_free_allocations_index(m, p) ==
  CHOOSE i \in FreeIndexes(m, p) : \A j \in FreeIndexes(m, p) : i <= j

(* Slip: the memory stays allocated when the table is full.                *)
MallocKeeps(m, p, n) ==
  LET ptr == kzalloc(m, n)
      i == process_find_free_allocations_index(m, p)
  IN  IF ptr = NULL THEN [m |-> m, ptr |-> NULL]
      ELSE IF FreeIndexes(m, p) = {} THEN [m |-> Take(m, Block(ptr, n, p, "data")), ptr |-> NULL]
      ELSE [m |-> [Take(m, Block(ptr, n, p, "data")) EXCEPT
                     !.dir[p] = paging_map_to(@, ptr, ptr, n, TRUE, TRUE),
                     !.allocations[p][i] = [ptr |-> ptr, size |-> n]],
            ptr |-> ptr]

(* The memory after the call, and its result.  Without a free entry in the *)
(* table what kzalloc gave is freed again.                                 *)
process_malloc(m, p, n) ==
  LET ptr == kzalloc(m, n)
      i == process_find_free_allocations_index(m, p)
  IN  IF ptr = NULL \/ FreeIndexes(m, p) = {} THEN [m |-> m, ptr |-> NULL]
      ELSE [m |-> [Take(m, Block(ptr, n, p, "data")) EXCEPT
                     !.dir[p] = paging_map_to(@, ptr, ptr, n, TRUE, TRUE),
                     !.allocations[p][i] = [ptr |-> ptr, size |-> n]],
            ptr |-> ptr]

IndexesOf(m, p, ptr) == {i \in Indexes : m.allocations[p][i].ptr = ptr}

process_get_allocation_index_by_addr(m, p, ptr) ==
  CHOOSE i \in IndexesOf(m, p, ptr) : \A j \in IndexesOf(m, p, ptr) : i <= j

(* Slip: a page too many is unmapped.                                      *)
FreeUnmapsNext(m, p, ptr) ==
  LET i == process_get_allocation_index_by_addr(m, p, ptr)
  IN  IF ptr = NULL \/ IndexesOf(m, p, ptr) = {} THEN m
      ELSE kfree([m EXCEPT !.dir[p] = paging_map_to(@, ptr, ptr, m.allocations[p][i].size + 1,
                                                    FALSE, FALSE),
                           !.allocations[p][i] = Unused], ptr)

(* The pages of the allocation are no longer present.                      *)
process_free(m, p, ptr) ==
  LET i == process_get_allocation_index_by_addr(m, p, ptr)
  IN  IF ptr = NULL \/ IndexesOf(m, p, ptr) = {} THEN m
      ELSE kfree([m EXCEPT !.dir[p] = paging_map_to(@, ptr, ptr, m.allocations[p][i].size,
                                                    FALSE, FALSE),
                           !.allocations[p][i] = Unused], ptr)

-----------------------------------------------------------------------------
(* copy_string_from_task *)

(* Slip: the entry of tmp is not written back.                             *)
CopyKeepsWindow(m, p, v, aligned) ==
  LET tmp == kzalloc(m, 1)
      window == [m EXCEPT !.dir[p] = paging_map_to(@, tmp, tmp, 1, TRUE, TRUE)]
  IN  IF v = NULL \/ tmp = NULL THEN [m |-> m, how |-> "error"]
      ELSE IF ~window.dir[p][v].p
      THEN [m |-> Take(window, Block(tmp, 1, p, "tmp")), how |-> "fault"]
      ELSE [m |-> window, how |-> "ok"]

(* The string at page v is copied through tmp, mapped to itself.  When v   *)
(* is not present the copy faults, and idt_handle_exception ends the       *)
(* process with tmp still allocated.  When it is done, the entry of tmp    *)
(* becomes the one v had before.                                           *)
copy_string_from_task(m, p, v, aligned) ==
  LET tmp == kzalloc(m, 1)
      window == [m EXCEPT !.dir[p] = paging_map_to(@, tmp, tmp, 1, TRUE, TRUE)]
      old_entry == paging_get(m.dir[p], v, aligned)
  IN  IF v = NULL \/ tmp = NULL THEN [m |-> m, how |-> "error"]
      ELSE IF ~window.dir[p][v].p
      THEN [m |-> Take(window, Block(tmp, 1, p, "tmp")), how |-> "fault"]
      ELSE [m |-> [m EXCEPT !.dir[p][tmp] = old_entry], how |-> "ok"]

-----------------------------------------------------------------------------
(* Creating and ending processes *)

CanLoad(m) == \E a, b \in Pages \ Taken(m.heap) : a # b

Allocated(m, p, what) == Take(m, Block(kzalloc(m, 1), 1, p, what))
BlockOf(m, p, what) == CHOOSE b \in m.heap : b.who = p /\ b.what = what

(* Slip: the image is mapped from the page below, over two pages.          *)
LoadMapsBelow(m, p) ==
  LET loaded == Allocated(Allocated(m, p, "struct"), p, "image")
  IN  [loaded EXCEPT !.dir[p] = paging_map_to(paging_new_4gb_chunk, Image - 1,
                                              BlockOf(loaded, p, "image").at, 2, TRUE, TRUE),
                     !.allocations[p] = NoAllocations]

(* A load that succeeds; what one that fails leaves is in ProgramLoad.tla. *)
process_load(m, p) ==
  LET loaded == Allocated(Allocated(m, p, "struct"), p, "image")
  IN  [loaded EXCEPT !.dir[p] = paging_map_to(paging_new_4gb_chunk, Image,
                                              BlockOf(loaded, p, "image").at, 1, TRUE, TRUE),
                     !.allocations[p] = NoAllocations]

-----------------------------------------------------------------------------
(* Nodes of argument lists *)

(* process_get_next_command_argument looks a node's address up in the      *)
(* directory of process_current(), which is the new process p by then.     *)
process_get_next_command_argument(m, p, node) == paging_get_physical_address(m.dir[p], node)

(* A node that was allocated is read from another page than q put it in.   *)
WrongNode(m, q, p, nodes) ==
  \E i \in 2 .. Len(nodes) :
    /\ nodes[i] # Image
    /\ process_get_next_command_argument(m, p, nodes[i])
         # paging_get_physical_address(m.dir[q], nodes[i])

-----------------------------------------------------------------------------
(* Calls and returns *)

Init ==
  /\ mem = [heap |-> {}, dir |-> [p \in Procs |-> paging_new_4gb_chunk],
            allocations |-> [p \in Procs |-> NoAllocations]]
  /\ live = {}
  /\ copies = 0
  /\ argument = [p \in Procs |-> NoArgument]
  /\ stray = FALSE
  /\ garbled = FALSE
  /\ pc = "user" /\ loc = NoLocals

Enters(loop, p, argc, argv) ==
  /\ pc' = loop
  /\ loc' = [p |-> p, i |-> 1, argc |-> argc, args |-> [argv |-> argv, strings |-> <<>>]]

Returns == pc' = "user" /\ loc' = NoLocals

Iterates == loc' = [loc EXCEPT !.i = @ + 1] /\ UNCHANGED pc

(* A process begins to end.                                                *)
Ends(m, p) ==
  /\ mem' = m
  /\ Enters("allocations", p, 0, NULL)
  /\ UNCHANGED <<live, argument, stray, garbled>>

Starts(m, p) ==
  /\ mem' = m
  /\ live' = live \cup {p}
  /\ argument' = [argument EXCEPT ![p] = NoArgument]
  /\ UNCHANGED stray

Copies == copies < MaxCopies /\ copies' = copies + 1

Changes(m) == mem' = m /\ UNCHANGED <<live, argument, stray, garbled, pc, loc>>

-----------------------------------------------------------------------------
(* process_terminate *)

process_terminate_allocations ==
  /\ pc = "allocations" /\ loc.i <= MaxAllocations
  /\ mem' = process_free(mem, loc.p, mem.allocations[loc.p][loc.i].ptr)
  /\ Iterates
  /\ UNCHANGED <<live, copies, argument, stray, garbled>>

(* Slip: the loop leaves out the last entry.                               *)
ProgramDataEarly ==
  /\ pc = "allocations" /\ loc.i >= MaxAllocations
  /\ mem' = kfree(mem, BlockOf(mem, loc.p, "image").at)
  /\ Enters("arguments", loc.p, 0, NULL)
  /\ UNCHANGED <<live, copies, argument, stray, garbled>>

process_terminate_program_data ==
  /\ pc = "allocations" /\ loc.i > MaxAllocations
  /\ mem' = kfree(mem, BlockOf(mem, loc.p, "image").at)
  /\ Enters("arguments", loc.p, 0, NULL)
  /\ UNCHANGED <<live, copies, argument, stray, garbled>>

(* The strings are freed a second time.                                    *)
process_terminate_command_argument ==
  LET strings == argument[loc.p].strings
  IN  /\ pc = "arguments" /\ loc.i <= Len(strings)
      /\ mem' = kfree(mem, strings[loc.i])
      /\ stray' = (stray \/ ~MayFree(mem, loc.p, strings[loc.i]))
      /\ Iterates
      /\ UNCHANGED <<live, copies, argument, garbled>>

(* task_free and process_unlink: the directory is gone, and the process.   *)
(* Its task_struct stays.                                                  *)
process_terminate ==
  /\ pc = "arguments" /\ loc.i > Len(argument[loc.p].strings)
  /\ mem' = [mem EXCEPT !.dir[loc.p] = paging_new_4gb_chunk]
  /\ live' = live \ {loc.p}
  /\ argument' = [argument EXCEPT ![loc.p] = NoArgument]
  /\ Returns
  /\ UNCHANGED <<copies, stray, garbled>>

-----------------------------------------------------------------------------
(* process_inject_argument, once argv is allocated *)

(* Slip: the arguments are recorded before all of them are there.          *)
InjectRecordsEarly ==
  LET str == process_malloc(mem, loc.p, 1)
  IN  /\ pc = "inject" /\ Len(loc.args.strings) < loc.argc
      /\ mem' = str.m
      /\ IF str.ptr = NULL THEN pc' = "undo" /\ UNCHANGED loc
         ELSE loc' = [loc EXCEPT !.args.strings = Append(@, str.ptr)] /\ UNCHANGED pc
      /\ argument' = [argument EXCEPT ![loc.p] = loc.args]
      /\ UNCHANGED <<live, copies, stray, garbled>>

(* A string for the next node.                                             *)
InjectNode ==
  LET str == process_malloc(mem, loc.p, 1)
  IN  /\ pc = "inject" /\ Len(loc.args.strings) < loc.argc
      /\ mem' = str.m
      /\ IF str.ptr = NULL THEN pc' = "undo" /\ UNCHANGED loc
         ELSE loc' = [loc EXCEPT !.args.strings = Append(@, str.ptr)] /\ UNCHANGED pc
      /\ UNCHANGED <<live, copies, argument, stray, garbled>>

InjectDone ==
  /\ pc = "inject" /\ Len(loc.args.strings) = loc.argc
  /\ argument' = [argument EXCEPT ![loc.p] = loc.args]
  /\ Returns
  /\ UNCHANGED <<mem, live, copies, stray, garbled>>

(* The strings that were never allocated are NULL in argv, which           *)
(* process_free ignores.                                                   *)
InjectUndo ==
  /\ pc = "undo" /\ loc.i <= Len(loc.args.strings)
  /\ mem' = process_free(mem, loc.p, loc.args.strings[loc.i])
  /\ Iterates
  /\ UNCHANGED <<live, copies, argument, stray, garbled>>

(* Slip: argv itself is not freed.                                         *)
UndoKeepsArgv ==
  /\ pc = "undo" /\ loc.i > Len(loc.args.strings)
  /\ Returns
  /\ UNCHANGED <<mem, live, copies, argument, stray, garbled>>

(* The process stays, without arguments.                                   *)
InjectFails ==
  /\ pc = "undo" /\ loc.i > Len(loc.args.strings)
  /\ mem' = process_free(mem, loc.p, loc.args.argv)
  /\ Returns
  /\ UNCHANGED <<live, copies, argument, stray, garbled>>

-----------------------------------------------------------------------------
(* System calls *)

DataPages(p) ==
  UNION {mem.allocations[p][i].ptr .. mem.allocations[p][i].ptr + mem.allocations[p][i].size - 1
           : i \in {j \in Indexes : mem.allocations[p][j] # Unused}}

Arguments(p) == ({argument[p].argv} \cup Range(argument[p].strings)) \ {NULL}

(* What a program passes for a string: NULL, its own memory, or a page     *)
(* that is not there.                                                      *)
StringPages(p) ==
  {NULL, Image} \cup DataPages(p) \cup {v \in Virtual : ~mem.dir[p][v].p}

(* What a program passes for arguments: nodes in its memory.               *)
NodeLists(q) == UNION {[1 .. n -> DataPages(q) \cup {Image}] : n \in 1 .. MaxArgs}

(* kernel_main starts the first program, once.                             *)
start_first(p) ==
  /\ mem.heap = {}
  /\ CanLoad(mem)
  /\ Starts(process_load(mem, p), p)
  /\ UNCHANGED <<copies, garbled, pc, loc>>

isr80h_command1_print(p, v, aligned) ==
  LET copy == copy_string_from_task(mem, p, v, aligned)
  IN  /\ Copies
      /\ IF copy.how = "fault" THEN Ends(copy.m, p) ELSE Changes(copy.m)

isr80h_command4_malloc(p, n) == Changes(process_malloc(mem, p, n).m) /\ UNCHANGED copies

isr80h_command5_free(p, ptr) == Changes(process_free(mem, p, ptr)) /\ UNCHANGED copies

(* The path is copied first; p is the process the load creates.            *)
isr80h_command6_process_load_start(q, p, v, aligned) ==
  LET copy == copy_string_from_task(mem, q, v, aligned)
  IN  /\ Copies
      /\ \/ copy.how = "fault" /\ Ends(copy.m, q)
         \/ copy.how # "fault" /\ Changes(copy.m)
         \/ /\ copy.how = "ok"
            /\ CanLoad(copy.m)
            /\ Starts(process_load(copy.m, p), p)
            /\ UNCHANGED <<garbled, pc, loc>>

(* The load, and process_inject_argument up to its argv.                   *)
isr80h_command7_invake_system_command(q, p, nodes) ==
  LET loaded == process_load(mem, p)
      argv == process_malloc(loaded, p, 1)
  IN  /\ CanLoad(mem)
      /\ Starts(argv.m, p)
      /\ Enters(IF argv.ptr = NULL THEN "undo" ELSE "inject", p, Len(nodes), argv.ptr)
      /\ garbled' = (garbled \/ WrongNode(loaded, q, p, nodes))
      /\ UNCHANGED copies

(* exit, or an exception in the program itself.                            *)
isr80h_command9_exit(p) == Ends(mem, p) /\ UNCHANGED copies

SystemCall ==
  \/ \E p \in Procs : start_first(p)
  \/ \E p \in live, aligned \in BOOLEAN : \E v \in StringPages(p) :
       isr80h_command1_print(p, v, aligned)
  \/ \E p \in live, n \in Sizes : isr80h_command4_malloc(p, n)
  \/ \E p \in live : \E ptr \in Virtual \ Arguments(p) : isr80h_command5_free(p, ptr)
  \/ \E q \in live, p \in Procs \ live, aligned \in BOOLEAN : \E v \in StringPages(q) :
       isr80h_command6_process_load_start(q, p, v, aligned)
  \/ \E q \in live, p \in Procs \ live : \E nodes \in NodeLists(q) :
       isr80h_command7_invake_system_command(q, p, nodes)
  \/ \E p \in live : isr80h_command9_exit(p)

Next ==
  \/ pc = "user" /\ SystemCall
  \/ InjectNode \/ InjectDone \/ InjectUndo \/ InjectFails
  \/ process_terminate_allocations \/ process_terminate_program_data
  \/ process_terminate_command_argument \/ process_terminate

Spec == Init /\ [][Next]_vars

-----------------------------------------------------------------------------
(* Properties *)

Blocks == [at : Pages, n : Nat, who : Procs, what : {"struct", "image", "data", "tmp"}]

(* Every variable has its type, and no blocks of the heap share a page.    *)
TypeOK ==
  /\ mem.heap \subseteq Blocks
  /\ \A b \in mem.heap : \A c \in mem.heap \ {b} : PagesOf(b) \cap PagesOf(c) = {}
  /\ mem.dir \in [Procs -> [Virtual -> [phys : Virtual, w : BOOLEAN, p : BOOLEAN]]]
  /\ mem.allocations \in [Procs -> [Indexes -> [ptr : Pages \cup {NULL}, size : Nat]]]
  /\ live \subseteq Procs
  /\ copies \in 0 .. MaxCopies
  /\ \A p \in Procs : Arguments(p) \subseteq Pages
  /\ stray \in BOOLEAN
  /\ garbled \in BOOLEAN
  /\ pc \in {"user", "inject", "undo", "allocations", "arguments"}
  /\ pc = "user" => loc = NoLocals
  /\ pc # "user" => loc.p \in live /\ loc.i \in Nat \ {0}

(* The blocks the heap holds as data are exactly the entries of the tables *)
(* of the processes that exist, one entry each: process_malloc and         *)
(* process_free keep heap and table together on every path and within the  *)
(* loops, and what a process holds can be found and freed when it ends.    *)
AllocationsAccounted ==
  LET Listed(p) == {i \in Indexes : mem.allocations[p][i] # Unused}
      AsBlock(p, i) == Block(mem.allocations[p][i].ptr, mem.allocations[p][i].size, p, "data")
  IN  /\ TypeOK
      /\ {b \in mem.heap : b.what = "data"}
           = UNION {{AsBlock(p, i) : i \in Listed(p)} : p \in live}
      /\ \A p \in live : \A i, j \in Listed(p) :
           i # j => mem.allocations[p][i].ptr # mem.allocations[p][j].ptr

(* Every page of an allocation is mapped to itself, present and writeable, *)
(* in the directory of its process, whatever copies and frees came before: *)
(* the entry copy_string_from_task leaves behind never covers memory the   *)
(* program was given.                                                      *)
AllocationsMapped ==
  \A p \in live : \A v \in DataPages(p) : mem.dir[p][v] = Entry(v, TRUE, TRUE)

OwnPages(p) ==
  UNION {PagesOf(b) : b \in {c \in mem.heap : c.who = p /\ c.what \in {"data", "image"}}}

(* When programs run, one can write, at the address of the page itself or  *)
(* where its image is mapped, only to pages that are its own at that       *)
(* moment.  The entries copy_string_from_task leaves at other addresses    *)
(* are excepted: those lead to what the copied page was then, also after   *)
(* it is freed.                                                            *)
Confined ==
  pc = "user" =>
    \A p \in live, v \in Virtual :
      LET e == mem.dir[p][v]
      IN  e.w /\ e.p /\ (e.phys = v \/ v = Image) => e.phys \in OwnPages(p)

(* process_terminate_command_argument frees strings that                   *)
(* process_terminate_allocations has freed already.  Even so no process    *)
(* ever frees a page that another one holds.                               *)
NoForeignFree == ~stray

(* The nodes of an argument list that the caller allocated, as             *)
(* kernel_parse_command does, are found where they are, although all but   *)
(* the first are looked up in the directory of the new process.  (A node   *)
(* on the caller's stack is looked for on the stack of the new process.)   *)
ArgumentsArrive == ~garbled

(* A process that has ended keeps nothing but its task_struct and the tmp  *)
(* page of a copy that ended it.                                           *)
EndsClean ==
  \A b \in mem.heap : b.who \notin live => b.what \in {"struct", "tmp"}

(* Arguments are given whole or not at all: when process_inject_argument   *)
(* is done, the new process holds the pages of its arguments and no other  *)
(* allocation, so an injection that failed half way has taken everything   *)
(* back.                                                                   *)
InjectedWhole ==
  [][\A p \in live : pc \in {"inject", "undo"} /\ pc' = "user" /\ loc.p = p =>
       {mem'.allocations[p][i].ptr : i \in Indexes} \ {NULL} = Arguments(p)']_vars

=============================================================================
