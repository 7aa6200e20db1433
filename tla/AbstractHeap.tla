---------------------------- MODULE AbstractHeap ----------------------------
(***************************************************************************)
(* What the kernel heap (mm/heap.c, mm/kheap.c) promises its callers, call *)
(* by call: kmalloc(size) hands out just enough blocks that no other live  *)
(* allocation has, or NULL when there are none; kfree(ptr) ends the        *)
(* allocation that starts at ptr, if there is one, and touches no other.   *)
(* Heap.tla is shown to implement this specification.                      *)
(***************************************************************************)
EXTENDS Integers

CONSTANTS
  TotalBlocks,   \* number of blocks the heap manages
  BlockSize,     \* bytes of a block
  SAddr,         \* address of the first block
  Sizes,         \* the sizes kmalloc is asked for
  Pointers       \* the addresses kfree is given

VARIABLES
  live,          \* the runs <<first, last>> handed out and not given back
  req,           \* the argument of the last call, if it was a kmalloc
  freed,         \* the argument of the last call, if it was a kfree
  ret            \* what the last call returned, NULL for a kfree

NULL == 0

Blocks == 0 .. TotalBlocks - 1

AllRuns == {r \in Blocks \X Blocks : r[1] <= r[2]}

(* The address of a block. *)
Address(block) == SAddr + block * BlockSize

(* Two runs that have no block in common. *)
Apart(r, q) == r[2] < q[1] \/ q[2] < r[1]

(* The runs a request may be given: they hold its bytes with no whole      *)
(* block to spare, and no live allocation shares a block with them.        *)
Candidates(size) ==
  {r \in AllRuns : /\ (r[2] - r[1] + 1) * BlockSize >= size
                   /\ (r[2] - r[1]) * BlockSize < size
                   /\ \A q \in live : Apart(r, q)}

(* The address ptr lies in the first block of run r. *)
StartsAt(r, ptr) == Address(r[1]) <= ptr /\ ptr < Address(r[1]) + BlockSize

Init ==
  /\ live = {}
  /\ req = 0
  /\ freed = NULL
  /\ ret = NULL

Malloc(size) ==
  /\ req' = size
  /\ freed' = NULL
  /\ \/ \E r \in Candidates(size) : ret' = Address(r[1]) /\ live' = live \cup {r}
     \/ Candidates(size) = {} /\ ret' = NULL /\ live' = live

Free(ptr) ==
  /\ req' = 0
  /\ freed' = ptr
  /\ ret' = NULL
  /\ live' = {r \in live : ~ StartsAt(r, ptr)}

Next ==
  \/ \E size \in Sizes : Malloc(size)
  \/ \E ptr \in Pointers : Free(ptr)

Spec == Init /\ [][Next]_<<live, req, freed, ret>>
=============================================================================
