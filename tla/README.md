# Formal model of the micro kernel

TLA+ modules for the x86 micro kernel in this repository, the TLC configurations
that check them on small instances, and TLAPS proofs of the central properties
for every value of the constants. `PROJECT.json` lists the runs, the mutants, the
source lines each definition stands for, the findings, the hazards and the
theorems. All paths below are relative to `src/`.

Contents: [the system](#1-the-system), [modules](#2-the-modules-and-the-code),
[runs](#3-runs), [fairness](#4-fairness), [proofs](#5-proofs),
[findings](#6-findings), [what is not modelled](#7-not-modelled-and-abstractions),
[plan](#8-plan).

## 1. The system

A single-processor kernel without preemption. It boots, loads `0:/shell.elf` from a
FAT16 disk and runs it in user mode. The shell starts other programs by a system
call; a program runs until it exits, faults, or starts another one.

| component | state | operations | correct when |
|---|---|---|---|
| heap (`mm/heap.c`, `mm/kheap.c`) | one flag byte per 4 KB block | `kmalloc`, `kzalloc`, `kfree` | allocations are disjoint and big enough; a free ends exactly one |
| processes (`kernel/sched.c`) | `processes[]`, `current_process`, `id`, `filetype`, allocations, arguments | load, switch, terminate, malloc/free | the table holds live processes only, and all of them |
| tasks (`kernel/task.c`) | doubly linked list, `current_task`, registers, page directory | insert, remove, switch, return, `task_next` | the list is the live tasks; what runs is what is current |
| system calls and interrupts (`kernel/isr80h.c`, `arch/x86/kernel/idt.*`) | handler tables | `int 0x80` commands 0-9, exceptions, IRQ 1 | the caller resumes as itself |
| keyboard (`kernel/keyboard.c`, `driver/keyboard/classic.c`) | a ring buffer per process, caps lock | key interrupt, `getkey`, backspace | a process reads the keys typed to it, in order |
| files (`fs/file.c`, `fs/fat/fat16.c`, `kernel/streamer.c`, `kernel/disk.c`) | descriptor table, file position, FAT on disk | `fopen`, `fread`, `fseek`, `fstat`, `fclose` | a read that succeeds has the file's bytes; what is opened is released |
| path parser (`fs/pparser.c`) | list of parts | parse, free | the parts are the path's; nothing leaks |
| ELF loader (`fs/elfloader.c`) | `elf_file` and its memory | `elf_load`, `elf_close` | every error path releases what it holds |
| paging (`arch/x86/kernel/paging.c`) | page directories | map, get, switch | a process can write to what it owns, and to nothing else |
| shell and library (`programs/shell`, `programs/stdlib`) | the line being typed, argument nodes | read a line, split it, run the command | a command is what was typed |
| terminal (`lib/print.c`) | cursor, cells | print a character, erase one | the screen shows what was typed and printed |

How they interact. An interrupt or system call enters the kernel with interrupts
disabled, saves the registers of `current_task`, switches to the kernel's page
directory, calls a handler and returns to the registers of the caller, unless the
handler itself resumed another task with `task_return`. Starting a program goes
through the path parser, the descriptor table, FAT16 and the disk stream, the ELF
loader, the heap, paging and the task list in one kernel entry; most of these steps
can fail, and the error paths undo the ones before. Ending one runs the same chain
backwards and picks the next task. Key interrupts arrive between any two
instructions of user code and go to the process that is current then.

What is hard to test here: error paths that start half way through a load; state
kept twice (`current_task` and `current_process`, the list and the table, `head`,
`tail` and `size`); boundaries (a heap run at the end of the table, sizes near 2^32,
a full ring, a read across a cluster); long sequences of legal calls that use
something up; and who gets the processor next. `PROJECT.json` lists each with its
line and the properties that cover it.

## 2. The modules and the code

| module | models |
|---|---|
| `HeapTable` | the block table as data: first fit, marking taken and free |
| `Heap` | `kmalloc` and `kfree` with word arithmetic modulo `WordMod` (2^32 in the code) |
| `AbstractHeap` | the promise, call by call: `kmalloc(size)` hands out just enough blocks that no live allocation has, NULL only when there are none; `kfree(ptr)` ends the allocation that starts at `ptr`, if there is one, and no other. `Heap` implements it, with `live` mapped to the runs the flag bytes spell |
| `HeapScan` | the loop of `heap_get_start_block`, one iteration per step, against the declarative first fit of `HeapTable` |
| `Sched` | process table, task list, current task and process, page directory loaded, registers; commands 6, 7 and 9, exceptions, all other kernel entries, boot |
| `RunQueue` | the promise of the scheduler, from the comment above `task_next`: a queue. `Sched` implements it with `queue` mapped to the chain of links |
| `Registers` | `Sched` with the general purpose registers: `pushad`/`popad`, `task_save_state`, `restore_general_purpose_registers` |
| `ProcessMemory` | heap, page directories and allocation tables of processes: commands 1, 4, 5, 6, 7, 9 with `copy_string_from_task`, the loops of `process_inject_argument` and those of `process_terminate` |
| `Keyboard` | scancode table and caps lock, a ring buffer per process, `getkey`, backspace, process switches |
| `KeyQueue` | the promise: a bounded first-in first-out queue per process, in which every character the driver delivers is queued as it is, and lost only when the queue is full. `Keyboard` implements it |
| `FatRead` | `fread` and `fseek` of one open file: loops over members, clusters and sectors |
| `ProgramLoad` | who owns which heap object during `elf_load`, `process_load_bin`, `fopen`, `fclose`, and when a process ends |
| `PathParser` | `pathparser_parse`, one character or allocation per step, and `pathparser_free` |
| `FatDirectory` | the mount (`fat16_resolve`), the walk of `fat16_get_directory_entry` one directory entry per step, 8.3 names, `fat16_close` |
| `FileOpen` | the composition of the two: `fopen` from the path to the item, and `fclose` |
| `Terminal` | the screen as data, and `itoa` |
| `Console` | the shell: prompt, `kernel_terminal_readline`, `strtok` and `kernel_parse_command`, `kernel_system`, with the keyboard of `KeyQueue` and the screen of `Terminal` |
| `MC*` | instances for TLC |
| `*Proofs` | theorems and proofs |

Grain of the steps. The IDT gates clear the interrupt flag, so a kernel entry is
atomic for everybody else. `Heap`, `Sched`, `Registers` and `Keyboard` therefore have
one action per kernel call or entry. `ProcessMemory` has one action per system call and
one per iteration of the loops behind it (strings of `process_inject_argument` and what
it takes back, allocations and strings of `process_terminate`); `pc` says in which loop
the kernel is, and no other call is made before it is left. Where the question is about
a loop or about the steps of an error path (`HeapScan`, `FatRead`, `ProgramLoad`,
`PathParser`, `FatDirectory`) there is one action per iteration or per step that can
fail. `Console`
is user code, which is interrupted: it has one action per system call, and a key may
be pressed between any two.

Names follow the code where they can: `task_list_remove`, `process_unlink`,
`keyboard_push`, `fat16_check_cluster_entry`. Definitions introduced by a comment
"Slip: ..." are plausible wrong versions of the definition that follows; no
specification uses them. A run in which one replaces its original must fail, which
shows that the property it belongs to depends on the code.

Choices worth knowing:

* `Sched` names a process and its task by one identity. `registers[t]` says whose
  state the registers saved in `t` are, and `cpu` whose registers the processor runs
  on. `id` is 0 until a load is complete, as after `kzalloc`. `Failures` selects
  the failures explored: `struct`, `file`, `stack`, `task`, `map` are where
  `process_load_for_slot` can fail; `argv` is `process_inject_argument`; `paging` is
  the unchecked allocation in `paging_new_4gb_chunk`, after which nothing is claimed
  (`mode = "wild"`).
* `Heap` lets callers free NULL, addresses outside the heap, starts of allocations
  and blocks that are already free (argument strings are freed twice when a process
  ends), but not the middle of an allocation, which no caller does. `req`, `freed` and
  `ret` are the argument and the result of the last call, so that the refinement is
  about that call.
* `Keyboard` reads a byte that the build may place after the scancode table for the
  scancode equal to the table's size, because the range check lets it through.
  `input` is the character given to `keyboard_push` last, beside a bit that each
  delivery flips: a key that is dropped is then a step like any other, which
  `KeyQueue` allows only with a full queue.
* `FatRead` names a byte of the disk by its address and records the addresses copied.
  Within one call memory is either there or not: the only allocation of the read
  path is a sector buffer that is freed before the next one is taken.
* `ProgramLoad` numbers objects by address and takes the lowest free one. `fopen`
  returns the number of an empty slot when its descriptor cannot be allocated,
  because `file_new_descriptor` writes through the null pointer and reads the index
  back. What `fopen` leaves allocated for good is one object (`forgotten`): the path of
  a file that was opened and, also when it fails, the arrays and the item that the walk
  through directories loses, which `FileOpen` has one by one.
* `Registers` names every value by the process and register it belongs to, so that
  one in the wrong place can be told. What `restore_general_purpose_registers` reads
  through the overwritten `ebx` is `Junk`.
* `ProcessMemory` has one page per block, which is what the heap gives out. A process
  is a page for its `task_struct` and one for program and stack, mapped at `Image`.
  Any process that exists may make the next call, which includes every order `Sched`
  allows. Programs pass pointers into their own memory or to pages that are not there,
  and neither free nor overwrite their arguments: `argv` lies in memory they can write,
  and `process_terminate_command_argument` frees what it finds there
  (`kernel/sched.c:434`), which the model keeps as it was injected. The part of a load that fails is in
  `ProgramLoad`; here a load succeeds when there is memory.
* `FatDirectory` has the entries of a directory in their order on the disk, deleted
  ones included, because the code counts without them and indexes with them. It
  stops at `"wild"` where the code follows a null pointer (no memory for `fat_private`
  or for a directory that is needed, or a directory without counted entries, for
  `kzalloc(0)` is NULL) or reads sectors that are no directory (`..` to
  the root names cluster 0). `faulty` records that something failed, so that
  `FindsNamed` can speak of the runs in which nothing did.
* `Console` has the byte behind the line buffer, which `kernel_terminal_readline`
  writes. A print without memory puts what the kernel's stack held on the screen
  (`Garbage`; `garbled` says that it happened to the prompt or the number). A load that
  fails may take the shell from the process table (`listed`), and then the end of the
  next program is the panic of finding 1; an injection that fails leaves the shell in
  the wrong address space, finding 2, where nothing is claimed (`pc = "wild"`).
  `Terminal` has no last row, since the code never scrolls.

## 3. Runs

| run | instance | shows |
|---|---|---|
| `heap` | 5 blocks of 2 bytes at address 2 of a 4-bit space; every size, every address | `WellFormed`, `BigEnough`, and `Implements` (`AbstractHeap`): also that a `kfree` of NULL, of a foreign address or of a freed block changes no allocation. Five blocks allow three allocations with holes between them; rounding size 15 up overflows as sizes near 2^32 do |
| `heap_scan` | every table of 5 flag bytes, every count up to 6 | `FirstFit`: what the loop returns is the first fit of `HeapTable` |
| `sched` | 4 processes, 3 slots, every failure of a load | of `Sched`: `ListIntegrity`, `SlotsComplete`, `ContextBound`, `OnlyTheRunnerEnds`, `ImplementsRunQueue`, `HeadRegainsControl`; of `Registers`: `CalleeSaved`. Four tasks give a list with two inner elements; three slots make the table fill up |
| `sched_slot_zero` | 3 processes, a load may fail at its file | violated: the panic with processes left (finding) |
| `sched_argv` | 3 processes, the injection of arguments may fail | violated: the caller resumes in the child's address space (finding) |
| `keyboard` | 2 processes, buffers of 3, a table of 3 keys and the byte after it | `RingInv`, `ImplementsKeyQueue`: no key is lost while there is room, and each is queued as typed; three places make the ring wrap and overflow |
| `fat_read` | files of 1 to 3 clusters of 2 sectors of 2 bytes, a directory, a chain through the refused number 0xFF0; sizes 0 to 12, up to 3 members, seeks around every boundary | `ExactRead`, `FirstClusterReads`, `MovesOnSuccess`, `ReadEnds` |
| `fat_whole_file` | a file of 2 clusters | violated: it cannot be read as a whole (finding) |
| `load_faults` | 2 descriptors, 13 objects, every failure | `OwnedOnce`, `NoStrayFree`, `OpenPerElfLoad`, `LosesOnlyAt` |
| `file_open` | every path of drive 0 with up to 8 characters more over a part character and the slash, limit 8; malformed ones; disks with three directories, one with deleted entries and one with a directory that has no others; every allocation and read may fail | of the parser: `PartFits`, `ParsesPath`, `NothingLost`; of the walk: `OpensNamed`, `FindsNamed`, `HoldsOnly`; `OpenEnds`. The names are chosen so that one is a prefix of another, a file and a directory share one, and three levels are walked |
| `process_memory` | 2 processes at a time, started again and again, 6 pages, tables of 2 allocations, sizes 1 and 2, argument lists of up to 2 nodes, 2 copies | `AllocationsAccounted`, `AllocationsMapped`, `Confined`, `NoForeignFree`, `ArgumentsArrive`, `EndsClean`, `InjectedWhole`. With a table of two an injection also fails after its first string; six pages run out before and during each operation |
| `console` | rows of 3 cells, lines of 4, nodes of 3, key buffer of 2, 5 keys out of a letter, space, backspace and Enter; numbers 0 and -10; prints that come out as a newline | `EchoAgrees`, `LineAsTyped`, `CommandIsLine`, `NumberShown`, `EnterEndsLine`. Lines and numbers cross the end of a row, the line buffer, the nodes and the key buffer all fill up |

The bounds are named constants of the modules or definitions of the `MC` modules:
`TotalBlocks`, `WordMod`, `MaxProcesses`, `BufferSize`, `NumObjects`,
`MaxDescriptors`, `MaxPath`, `NumPages`, `MaxAllocations`, `MaxArgs`, `MaxCopies`,
`Width`, `LineSize`, `MaxArgument`, `Bound`, `MaxKeys`. They stand for sizes of the code (`WordMod` for 2^32,
`MaxProcesses` for `KERNEL_MAX_PROCESSES`, and so on), except `MaxArgs`, `MaxCopies`
and `MaxKeys`, which only bound the exploration. Symmetry of process names is used in
`process_memory`, where only safety properties are checked.

The type invariants of `Heap`, `HeapScan`, `Sched` and `Keyboard` are proved (section 5)
and not checked again; those of the other modules are a conjunct of the first
structural invariant of the module (`ExactRead`, `OwnedOnce`, `HoldsOnly`,
`AllocationsAccounted`, `LineAsTyped`).

Some properties say something that may surprise. `SlotsComplete`: failed loads cost slot 0
its process (finding 1) and no other slot. `RunsAtAnEnd` (proved): only the oldest or
the newest task ever runs. `OpenPerElfLoad`: every ELF program started takes one
descriptor for good, so 512 programs are all that can be started between boots.
`LosesOnlyAt`: besides what `fopen` itself forgets, with success or without, `elf_load` and
`process_load_bin` lose memory at two failures: the buffer of an ELF file whose read
failed, and the private data of a file whose descriptor could not be allocated.
`HoldsOnly`: the file system loses the array of every directory it passes, and the
item a search ended at that failed; the rest it gives back. `FindsNamed`: on a disk
with deleted entries files may not be found, and a path through `..` to the root or
through a directory without entries goes astray. A deleted entry could be opened by a
path with its mark 0xE5; the keyboard cannot type it, and no path of the run has it.
`EnterEndsLine`: an Enter that waits for the shell ends a line unless finding 1 or
finding 2 comes first. `Confined`: after a copy from its memory
a program keeps a second, writeable address of the page it passed, at the address of
the page the kernel copied through, also after the page is freed; at the addresses
that pages are meant to be used at, it reaches only its own. `CalleeSaved`: `edx`,
`ecx` and `eax` are lost whenever another program runs in between, which the C calling
convention allows; `ebp` is lost too, and the stubs of the library restore it. And `ExactRead` is about
success: because of the finding below no read that reaches past the first cluster
succeeds, so what it excludes there is a wrong success.

Deadlock is checked except in `heap_scan` and `file_open`, which model one call
that ends, and in `process_memory`, where the last process may end, after which the
kernel panics.

## 4. Fairness

* `FatRead`, `FileOpen`: weak fairness of the steps of a call. The
  kernel is not preempted, so a call that was entered runs on.
* `Sched` (`FairSpec`) and `Registers` (`RSpec`): strong fairness of the end, by exit or by exception, of every
  running program other than the oldest one. The kernel gives no such guarantee by
  itself, since there is no timer; it is an assumption about programs, namely that
  utilities end. None is made about the shell, and none about scheduling.
* `Console`: weak fairness of the steps of the shell and of the programs it runs: the
  shell polls for keys without end, nothing preempts it, and the programs it runs are
  assumed to end, as above. None of keys being pressed.

## 5. Proofs

All proofs are checked by TLAPS with SMT, Zenon and PTL. Assumptions are those on the
constants, named `HeapAssumption`, `SchedAssumption` and so on in the modules that
declare them.

* `HeapProofs` begins with lemmas on one table: first fit returns a fitting free run;
  marking it taken or freeing a run keeps the flags consistent and changes the set of
  runs by exactly that run; freeing a free block changes nothing. Its theorems are
  `HeapSafety` (`TypeOK`, `WellFormed`, `BigEnough`), for which
  `WellFormed` is the inductive part: without it `heap_mark_blocks_free` may run past
  the end of its allocation. From it `HeapImplements` (`Spec => Implements`): each
  `kmalloc` maps to the abstract `Malloc` of its size and each `kfree` to the `Free` of its
  pointer, for which the block number that wraps is shown to be that of the pointer. `HeapWellFormed` and `HeapBigEnough` restate two conjuncts. The
  arithmetic that matters is in `BlocksForSize`: a size whose rounding wraps asks for no
  blocks. Its last part is about `HeapScan`: `ScanSafety`, the loop invariant, and
  `ScanFirstFit`.
* `KeyboardProofs`: `KeyboardSafety` (`TypeOK` and `RingInv`), inductive as they stand,
  and `KeyboardImplements`. The work is in the modular arithmetic of positions
  (`SlotInjective`, `SlotShift`) for a symbolic buffer size. Every delivery maps to a
  `Type` of that character, a dropped one included.
* `SchedProofs`: `SchedSafety`, `TypeOK`, `ListIntegrity`, `NoDanglingSlot`, `UserBound` and `RunsAtAnEnd`, for any
  number of processes and slots and with every failure. `ListIntegrity` alone is not
  inductive, since two cycles of links satisfy it; the invariant adds a rank that grows
  along `next` (`ListOK`), and that tasks not on the list have null links (`Fresh`).
  `SchedContext` and `SchedOnlyTheRunnerEnds` assume `"argv" \notin Failures`; run
  `sched_argv` shows that they need it. `SchedSlotsComplete` adds `SlotInv`: a process that
  does not exist has id 0, as `kzalloc` leaves it, so `process_unlink`, which a failed
  load calls before the id is set, reaches for slot 0 and no other. `SchedPanics` is the
  other side of finding 1: under `NoUnlinkedLoad` (loads fail, if at all, before they have
  a `task_struct`) every process is in the table (`AllListed`), and the kernel panics
  only when none is left.
* `SchedProofs`, of the order of the tasks: `SchedImplements` (`Spec => ImplementsRunQueue`).
  The mapping `Chain` follows the links recursively. A sequence that has exactly the tasks of
  the list, each once, and whose neighbours are linked (`Enumerates`) is what `Chain`
  computes (`ChainIs`): its prefixes satisfy the equations of the walk, and these have one
  solution (`WalkUnique`, by a lowest place where two differ). `Ordered`, that there is such a
  sequence, is kept: `task_insert` appends to it (`InsertEnumerates`), and `task_free`
  removes its k-th element and makes the k+1-st current, or the first (`FreeEnumerates`).
  `ProcsFinite` is needed here and nowhere else, since `Chain` walks as many steps as there
  are names.
* `SchedProofs`, of `Registers`: `RegistersCalleeSaved`. By `RegisterInv` every process has its own
  `edi`, `esi` and `ebx` in its task, and in the processor while it runs; `task.asm` loads
  these three no later than it overwrites its pointer `ebx` (`RestoreOK`). The theorem
  needs `SchedContext`, and with it that no injection of arguments fails.
* `ProcessMemoryProofs`: one theorem for each property of `process_memory`, for any number
  of processes, pages, table entries and arguments. The invariant `IInv` has three layers.
  `MemoryOK` is kept by every single operation, also half way through a loop: blocks are
  disjoint (`HeapOK`), data belongs to a table of a process that exists and each process
  has one image (`OwnersOK`), every table entry is a block of its process mapped to itself
  (`TableOK`). For a process that is not about to end, its image is mapped (`ImageOK`),
  every page writeable at its own address is in its table (`Guarded`), and each page of its
  arguments is an allocation of its own (`Single`). `AtInject`, `AtAllocations` and
  `AtArguments` say what the iterations before have done. Two points carry the argument.
  `Guarded` survives `copy_string_from_task` because the entry it leaves for the page
  `tmp`, which is free again, is that of the page copied from, and so never maps `tmp`
  to itself, writeable, whatever a program passes (`CopyOK`, `RemapOK`). And a string is an allocation of its own until its process
  ends and free after `process_terminate_allocations`, so the second `kfree` finds
  nothing at its address (`AtArguments`), and nothing of anybody else.
* `ProgramLoadProofs`: `LoadOwnedOnce`, `LoadNoStrayFree`, `LoadOpenPerElfLoad`,
  `LoadLosesOnlyAt`, and `LoadsBounded` (no more ELF files are loaded than there are
  descriptors), for every size of heap and table. `OwnedOnce` is not inductive, since the
  error paths free what the locals hold; `LInv` adds which locals are set at which step
  (`LoadAt`), states ownership slot by slot (`Apart`), and counts the open descriptors
  (`Counted`).
* `FatReadProofs`: `FatExactRead`, `FatFirstClusterReads`, `FatMovesOnSuccess` and
  `FatOneCluster`, for every size of sectors and clusters and every file. `FInv` counts
  the bytes copied at each step of the three loops. It rests on what finding 3 is about:
  bytes come from the first cluster only, and a loop that goes further ends in an error,
  so `FatOneCluster` is that finding for every geometry.
* `FileOpenProofs`, of the parser: `PathPartFits`, `PathNothingLost` and `PathParses`, for
  every set of paths. `PInv` says what is allocated at each step (`PCount`), where the
  parser is (`PFit`), and that there are places in the path at which the parts built so far
  begin, one behind the separator that ends the other (`PCuts`). `ParsesPath` defines
  the components of a path by such places, and not by the loop.
* `FileOpenProofs`, of the walk, for every set of disks: `OpenNoStrayFree` (no
  hypothesis), `OpenNamed`, `OpenHoldsOnly` and `OpenFindsNamed`. `WInv` says that
  `current_item` is the directory searched and `f_item` an entry looked at with the name
  (`Walk`), and that what will be freed is held (`Keeps`). On top of it `Exact` says what
  is held, `Routed` that the parts before lead to `current_item`, and `Complete` that
  every route goes through it. `fat16_to_proper_string`, which stops at the first space, is
  shown to give the name without its padding (`ProperString`).
  Two hypotheses are about data and not about the code. `CleanPaths`: no path has the
  character that marks deleted entries; with it a path could open one. `DistinctNames`:
  no two undeleted entries of a directory have one name, as on every sound disk; a second match
  takes the place of the first, whose item is lost, and leads elsewhere. The instance
  of `file_open` satisfies both.

* `ConsoleProofs`: `EchoHolds`, `LineHolds`, `CommandHolds` and `NumberHolds`, for every width of
  the screen, size of line and node, keyboard and number. `terminal_print`, `Digits`,
  `ValueOf` and `Session` are recursive functions. The induction theorems of the library take an
  operator and cannot be applied, so the module begins with its own: a recursion that goes
  down in rank has a solution, and only one (`RecursionExists`, `FollowsUnique`), by
  looking at a lowest counterexample. On it rest what printing does to cells and cursor
  (`PrintPlain`, `WriteBackspace`), that `itoa` writes a numeral of its argument
  (`ItoaNumeral`), and what one more key does to a session (`SessionAppend`).
  The invariant has, beside the types, five parts. `Waiting`: the keys typed are those consumed, the one in
  hand and those queued. `LineRead`: the buffer up to `i` is the line of the session, and from
  then on the line ended last. `Shown`: buffer and screen agree from the prompt on, with
  blanks behind, which is what makes an erasure at the start of a row come out right.
  `Words`: the nodes are the words of the line before `sp`, none left out. `Printed`: the
  number stands between `start` and the cursor. None of the four properties is inductive
  alone: `EchoAgrees` says nothing between two lines, and `CommandIsLine` nothing while
  the words are collected.

What the disk and the paths are is assumed by name: `DiskAssumption` (a directory is a
sequence of entries; names are not empty and padded at their end) and `PathAssumption`.

Only model-checked: the liveness properties (`ReadEnds`, `OpenEnds`, `HeadRegainsControl`,
`EnterEndsLine`), since liveness under fairness is out of the prover's reach; and the
three findings. `SchedPanics`, `SchedContext` and `FatOneCluster` prove where these end: the
first two that nothing else causes them, the third that every geometry has it. Every
invariant, action property and refinement that a passing run checks is proved.

## 6. Findings

1. `kernel/sched.c:452`: a failed load clears slot 0 of the process table. The shell
   loses its slot, and when the next program exits the kernel panics with "No processes
   to switch to" although the shell is alive. (`sched_slot_zero`)
2. `kernel/isr80h.c:101`: when argument injection fails, the system call returns to the
   caller's registers with the child's page directory loaded. (`sched_argv`)
3. `fs/fat/fat16.c:273`: files larger than one cluster cannot be read.
   (`fat_whole_file`)

## 7. Not modelled, and abstractions

* Contents of kernel memory and of strings on their way through the kernel; colours on
  the screen; the ATA and PS/2 port protocols (`kernel/disk.c`, `io.asm`); the GDT, the
  TSS and the descriptors of the IDT (constant tables); the boot sector.
* The numbers the kernel itself prints (`ulong_to_string`), `fat16_stat` (copies two
  fields), and the leaf functions of the string libraries that no modelled decision
  depends on. Programs other than the shell are the environment: they make any call in
  any order.
* Which bytes make an ELF header acceptable, and segment addresses: a nondeterministic
  outcome of `ElfProcess`.
* What happens after the kernel has used a null pointer or read sectors that are no
  directory: it depends on the build and the machine (`mode = "wild"`,
  `step = "wild"`, and `pc = "wild"` of `Console` in the wrong address space). What lies behind the screen's memory, for the same reason.
* The pages of the page tables and of the `thread_info` in `ProcessMemory`; failed
  loads there, which `ProgramLoad` and `Sched` have.
* Directories of more than one cluster: `FatRead` shows that the read of one fails.
* `lib/string.c:43`: `strncpy` writes a 0 behind its destination when it is full and
  nothing for an empty string; `lib/print.c:42`: the screen never scrolls. Both are
  about bytes the models do not have.
* 32-bit wrap-around of file positions; positions in `FatRead` are unbounded numbers.
* A parent that waits for its child's result: the exit value is stored in a
  `task_struct` that nothing reads (`kernel/isr80h.c:127`), and no process records
  its parent, so there is no protocol to model.

## 8. Plan

Done: every component above has its model and its run; the heap, the scheduler and the
keyboard have abstract specifications, and the refinement of each is proved; so are all
safety properties of the passing runs.

Next, if the code grows: loads that fail half way and memory accounting in one module
(`Sched` with `ProgramLoad` and `ProcessMemory`), and directories of more than one cluster
once `fat16.c` reads them.
