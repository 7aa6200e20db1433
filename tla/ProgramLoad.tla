---------------------------- MODULE ProgramLoad ----------------------------
(***************************************************************************)
(* Who owns what while a program is loaded: the descriptor table of        *)
(* fs/file.c, elf_load (fs/elfloader.c), process_load_bin and              *)
(* process_load_data (kernel/sched.c), and the release of a program's data *)
(* when its process ends.                                                  *)
(*                                                                         *)
(* Objects are numbered by their address, and the lowest free one is       *)
(* allocated, as in Heap.tla. Every allocation may fail, at the latest     *)
(* when the heap is used up, and so may every call that looks at the disk. *)
(* private stands for the fat_item_descriptor with its item. Loads do not  *)
(* overlap, for the kernel is not preempted: what is hard here is the      *)
(* order of the releases on the error paths.                               *)
(***************************************************************************)
EXTENDS Integers, FiniteSets

CONSTANTS
  NumObjects,       \* what the heap has room for
  MaxDescriptors    \* KERNEL_MAX_FILE_DESCRIPTORS

NULL == 0
Objects == 1 .. NumObjects
Fds == 1 .. MaxDescriptors

ASSUME LoadAssumption ==
  /\ NumObjects \in Nat
  /\ MaxDescriptors \in Nat \ {0}

VARIABLES
  live,               \* the allocated objects
  file_descriptors,
  programs,           \* the data of the loaded processes
  forgotten,          \* what fopen left allocated that nothing will free
  pc, loc,            \* the step of the load in progress, and its locals
  elf_loads,          \* how many ELF files were loaded since the boot
  stray               \* an object was freed that was not allocated

vars == <<live, file_descriptors, programs, forgotten, pc, loc, elf_loads, stray>>

Empty == [desc |-> NULL, private |-> NULL]      \* a slot that is NULL

(* elf_memory is the local of elf_load and program_data_ptr that of        *)
(* process_load_bin; kept is elf_file->elf_memory.                         *)
NoLocals == [elf_file |-> NULL, memory |-> NULL, kept |-> NULL, fd |-> 0]

Init ==
  /\ live = {} /\ file_descriptors = [fd \in Fds |-> Empty]
  /\ programs = {} /\ forgotten = {}
  /\ pc = "idle" /\ loc = NoLocals
  /\ elf_loads = 0
  /\ stray = FALSE

Lowest(S) == CHOOSE n \in S : \A x \in S : n <= x

(* What kzalloc may return with the objects in used allocated.             *)
kzalloc(used) ==
  {NULL} \cup IF Objects \subseteq used THEN {} ELSE {Lowest(Objects \ used)}

-----------------------------------------------------------------------------
(* fs/file.c *)

file_get_descriptor(fd) == IF fd \in Fds THEN file_descriptors[fd] ELSE Empty

FreeFds == {fd \in Fds : file_descriptors[fd] = Empty}

(* What fopen may return and leave behind.  When it fails, be it for a     *)
(* full table, the path and the private data are freed again; when it does *)
(* not, the path stays allocated and is forgotten.  Either way the walk    *)
(* through directories may have lost their arrays, and a failed search the *)
(* item it stopped at (FileOpen.tla has them one by one): left stands for  *)
(* all that nothing will free, if there is any.  Walks into a directory    *)
(* that is not there, which do not come back, are left out.                *)
(* file_new_descriptor does not look at what kzalloc gave it: without      *)
(* memory the slot stays empty, its fields are written to and read from    *)
(* address 0, and fopen returns the number of an empty slot.               *)
fopen ==
  [fd : {0}, left : kzalloc(live), private : {NULL}, desc : {NULL}]
  \cup
  {r \in [fd : {Lowest(fd) : fd \in {FreeFds} \ {{}}}, left : kzalloc(live),
          private : Objects, desc : Objects \cup {NULL}] :
     /\ r.left # NULL
     /\ r.private \in kzalloc(live \cup {r.left})
     /\ r.desc \in kzalloc(live \cup {r.left, r.private})}

(* The state after fopen returned r, which is not a failure.               *)
Opened(r) ==
  /\ live' = live \cup ({r.left, r.private, r.desc} \ {NULL})
  /\ file_descriptors' =
       IF r.desc = NULL THEN file_descriptors
       ELSE [file_descriptors EXCEPT ![r.fd] = [desc |-> r.desc, private |-> r.private]]
  /\ forgotten' = forgotten \cup {r.left}
  /\ UNCHANGED stray

(* The state after fopen failed.                                           *)
OpenFailed(r) ==
  /\ live' = live \cup ({r.left} \ {NULL})
  /\ forgotten' = forgotten \cup ({r.left} \ {NULL})
  /\ UNCHANGED <<file_descriptors, stray>>

(* Slip: the slot is left as it was.                                       *)
CloseKeepsSlot(fd) ==
  IF file_get_descriptor(fd) = Empty THEN [table |-> file_descriptors, freed |-> {}]
  ELSE [table |-> file_descriptors,
        freed |-> {file_descriptors[fd].desc, file_descriptors[fd].private}]

(* The private data, then the descriptor and its slot.                     *)
fclose(fd) ==
  IF file_get_descriptor(fd) = Empty THEN [table |-> file_descriptors, freed |-> {}]
  ELSE [table |-> [file_descriptors EXCEPT ![fd] = Empty],
        freed |-> {file_descriptors[fd].desc, file_descriptors[fd].private}]

(* kfree of the objects in two sets, one after the other.                  *)
Frees(first, second) ==
  LET a == first \ {NULL}
      b == second \ {NULL}
  IN  /\ live' = live \ (a \cup b)
      /\ stray' = (stray \/ ~ a \subseteq live \/ ~ b \subseteq live \/ a \cap b # {})

Goto(label, l) ==
  /\ pc' = label /\ loc' = l
  /\ UNCHANGED <<programs, elf_loads>>

-----------------------------------------------------------------------------
(* elf_load *)

ElfNew ==
  /\ pc = "idle"
  /\ \E o \in kzalloc(live) :
       /\ live' = live \cup ({o} \ {NULL})
       /\ IF o = NULL THEN Goto("idle", NoLocals)
                      ELSE Goto("elf_open", [NoLocals EXCEPT !.elf_file = o])
  /\ UNCHANGED <<file_descriptors, forgotten, stray>>

(* Slip: the memory is released by elf_load and by elf_file_free.          *)
CloseOutFreesMemory(label) ==
  LET closed == fclose(loc.fd)
  IN  /\ file_descriptors' = closed.table
      /\ Frees(closed.freed \cup {loc.memory}, {loc.elf_file, loc.kept})
      /\ Goto(label, NoLocals)
      /\ UNCHANGED forgotten

(* close_out and free_out: where the load goes on is -EINFORMATS or not.   *)
CloseOut(label) ==
  LET closed == fclose(loc.fd)
  IN  /\ file_descriptors' = closed.table
      /\ Frees(closed.freed, {loc.elf_file, loc.kept})
      /\ Goto(label, NoLocals)
      /\ UNCHANGED forgotten

ElfOpen ==
  /\ pc = "elf_open"
  /\ \E r \in fopen :
       IF r.fd = 0 THEN OpenFailed(r) /\ Goto("elf_close", loc)
       ELSE /\ Opened(r)
            /\ Goto("elf_stat", [loc EXCEPT !.fd = r.fd])

(* Without a file there is none to close, and the elf_file is released.    *)
ElfClose == pc = "elf_close" /\ CloseOut("idle")

ElfStat ==
  /\ pc = "elf_stat"
  /\ \/ CloseOut("idle")
     \/ /\ file_get_descriptor(loc.fd) # Empty
        /\ Goto("elf_alloc", loc)
        /\ UNCHANGED <<live, file_descriptors, forgotten, stray>>

ElfAlloc ==
  /\ pc = "elf_alloc"
  /\ \E o \in kzalloc(live) :
       IF o = NULL THEN CloseOut("idle")
       ELSE /\ live' = live \cup {o}
            /\ Goto("elf_read", [loc EXCEPT !.memory = o])
            /\ UNCHANGED <<file_descriptors, forgotten, stray>>

(* Only a read that succeeds hands the memory to elf_file.                 *)
ElfRead ==
  /\ pc = "elf_read"
  /\ \/ CloseOut("idle")
     \/ /\ Goto("elf_process", [loc EXCEPT !.kept = loc.memory])
        /\ UNCHANGED <<live, file_descriptors, forgotten, stray>>

(* elf_process_load: accepted; a segment that is not PT_LOAD (-EINVAGS);   *)
(* or not an ELF file (-EINFORMATS).  A load that succeeds leaves the file *)
(* open.                                                                   *)
ElfProcess ==
  /\ pc = "elf_process"
  /\ \/ CloseOut("idle")
     \/ CloseOut("bin_open")
     \/ /\ programs' = programs \cup {[filetype |-> "ELF", data |-> {loc.elf_file, loc.kept}]}
        /\ elf_loads' = elf_loads + 1
        /\ pc' = "idle" /\ loc' = NoLocals
        /\ UNCHANGED <<live, file_descriptors, forgotten, stray>>

-----------------------------------------------------------------------------
(* process_load_bin *)

(* Slip: the file is closed only when the load fails.                      *)
BinOutLeavesOpen ==
  /\ programs' = programs \cup {[filetype |-> "BINARY", data |-> {loc.memory}]}
  /\ pc' = "idle" /\ loc' = NoLocals
  /\ UNCHANGED <<live, file_descriptors, forgotten, elf_loads, stray>>

BinDone ==
  LET closed == fclose(loc.fd)
  IN  /\ file_descriptors' = closed.table
      /\ Frees(closed.freed, {})
      /\ programs' = programs \cup {[filetype |-> "BINARY", data |-> {loc.memory}]}
      /\ pc' = "idle" /\ loc' = NoLocals
      /\ UNCHANGED <<forgotten, elf_loads>>

(* Slip: the memory read into is forgotten.                                *)
BinFailsKeepsMemory ==
  LET closed == fclose(loc.fd)
  IN  /\ file_descriptors' = closed.table
      /\ Frees({}, closed.freed)
      /\ Goto("idle", NoLocals)
      /\ UNCHANGED forgotten

BinFails ==
  LET closed == fclose(loc.fd)
  IN  /\ file_descriptors' = closed.table
      /\ Frees({loc.memory}, closed.freed)
      /\ Goto("idle", NoLocals)
      /\ UNCHANGED forgotten

BinOpen ==
  /\ pc = "bin_open"
  /\ \E r \in fopen :
       IF r.fd = 0 THEN OpenFailed(r) /\ Goto("bin_close", loc)
       ELSE /\ Opened(r)
            /\ Goto("bin_stat", [loc EXCEPT !.fd = r.fd])

BinClose == pc = "bin_close" /\ BinFails

BinStat ==
  /\ pc = "bin_stat"
  /\ \/ BinFails
     \/ /\ file_get_descriptor(loc.fd) # Empty
        /\ Goto("bin_alloc", loc)
        /\ UNCHANGED <<live, file_descriptors, forgotten, stray>>

BinAlloc ==
  /\ pc = "bin_alloc"
  /\ \E o \in kzalloc(live) :
       IF o = NULL THEN BinFails
       ELSE /\ live' = live \cup {o}
            /\ Goto("bin_read", [loc EXCEPT !.memory = o])
            /\ UNCHANGED <<file_descriptors, forgotten, stray>>

BinRead == pc = "bin_read" /\ (BinDone \/ BinFails)

-----------------------------------------------------------------------------
(* A process ends, or its load fails after its file was read.              *)
process_terminate_program_data(program) ==
  /\ pc = "idle"
  /\ Frees(program.data, {})
  /\ programs' = programs \ {program}
  /\ UNCHANGED <<file_descriptors, forgotten, pc, loc, elf_loads>>

Next ==
  \/ ElfNew \/ ElfOpen \/ ElfClose \/ ElfStat \/ ElfAlloc \/ ElfRead \/ ElfProcess
  \/ BinOpen \/ BinClose \/ BinStat \/ BinAlloc \/ BinRead
  \/ \E program \in programs : process_terminate_program_data(program)

Spec == Init /\ [][Next]_vars

-----------------------------------------------------------------------------
(* Properties *)

OpenFds == Fds \ FreeFds

(* Every variable has its type.                                            *)
TypeOK ==
  /\ live \subseteq Objects /\ forgotten \subseteq Objects
  /\ \A fd \in OpenFds : /\ file_descriptors[fd].desc \in Objects
                         /\ file_descriptors[fd].private \in Objects
  /\ \A p \in programs : p.data \subseteq Objects
  /\ loc.fd \in {0} \cup Fds
  /\ elf_loads \in Nat

(* The parts of the kernel that hold objects: the slots of the table, the  *)
(* processes, and the load in progress.                                    *)
SlotData(fd) == {file_descriptors[fd].desc, file_descriptors[fd].private}
LoadData == {loc.elf_file, loc.memory, loc.kept} \ {NULL}
Owned ==
  (UNION {SlotData(fd) : fd \in OpenFds}) \cup (UNION {p.data : p \in programs}) \cup LoadData

(* Whatever fails and in whatever order programs come and go, what the     *)
(* table, the processes and the load hold is allocated, and no two of them *)
(* hold the same object: none of them can be left with freed memory.  What *)
(* fopen forgot stays allocated and is held by none of them.               *)
OwnedOnce ==
  /\ TypeOK
  /\ Owned \subseteq live \ forgotten /\ forgotten \subseteq live
  /\ \A fd \in OpenFds : file_descriptors[fd].desc # file_descriptors[fd].private
  /\ \A fd, other \in OpenFds : fd # other => SlotData(fd) \cap SlotData(other) = {}
  /\ \A p, other \in programs : p # other => p.data \cap other.data = {}
  /\ \A fd \in OpenFds, p \in programs : SlotData(fd) \cap p.data = {}
  /\ \A fd \in OpenFds : SlotData(fd) \cap LoadData = {}
  /\ \A p \in programs : p.data \cap LoadData = {}

(* No error path of fopen, elf_load and process_load_bin frees an object   *)
(* a second time or frees what it never allocated.                         *)
NoStrayFree == ~ stray

(* Between loads a descriptor is open for each ELF file ever loaded and    *)
(* for nothing else: loads that fail at any step and flat binaries give    *)
(* theirs back.  elf_load never closes the file it loaded, so the          *)
(* MaxDescriptors-th program is the last that can be loaded.               *)
OpenPerElfLoad == pc = "idle" => Cardinality(OpenFds) = elf_loads

(* What nobody holds any more and fopen did not forget.                    *)
Lost == live \ (Owned \cup forgotten)

(* Besides what fopen forgets (the path of an opened file and what its     *)
(* walk through directories loses, which HoldsOnly of FileOpen.tla names), *)
(* a load loses objects at two places only: the memory of an ELF file      *)
(* whose read failed, and the private data of a file for which fopen       *)
(* returned the number of an empty slot.  Every other failure, at any step *)
(* of elf_load and process_load_bin, gives back all that these two took.   *)
LosesOnlyAt ==
  [][\A o \in Lost' \ Lost :
       \/ pc = "elf_read" /\ o = loc.memory
       \/ pc \in {"elf_open", "bin_open"} /\ loc'.fd \in FreeFds']_vars
=============================================================================
