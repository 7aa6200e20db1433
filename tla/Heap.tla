-------------------------------- MODULE Heap --------------------------------
(***************************************************************************)
(* The kernel heap: mm/heap.c with the global instance of mm/kheap.c.      *)
(*                                                                         *)
(* Addresses and sizes are the machine's: naturals below WordMod (2^32 in  *)
(* the build), so that rounding a request up, and the difference of two    *)
(* pointers, wrap as they do in C.                                         *)
(* The kernel runs with interrupts disabled: one call is one step.         *)
(***************************************************************************)
EXTENDS HeapTable

CONSTANTS
  BlockSize,     \* KERNEL_HEAP_BLOCK_SIZE
  SAddr,         \* heap->saddr, KERNEL_HEAP_ADDRESS
  WordMod,       \* 2^(bits of size_t and of a pointer)
  Sizes,         \* the request sizes explored
  Pointers       \* the addresses callers pass to kfree

NULL == 0

(* heap_create: both ends aligned, the table sized to the region; the      *)
(* region lies inside the address space and does not contain NULL.         *)
ASSUME HeapAssumption ==
  /\ BlockSize \in Nat \ {0}
  /\ SAddr \in Nat \ {0}
  /\ WordMod \in Nat \ {0}
  /\ WordMod % BlockSize = 0
  /\ SAddr % BlockSize = 0
  /\ SAddr + TotalBlocks * BlockSize < WordMod
  /\ Sizes \subseteq 0 .. WordMod - 1
  /\ Pointers \subseteq 0 .. WordMod - 1

VARIABLES
  table,   \* table->enteies: block -> flags of its byte
  ret,     \* what the last kmalloc/kzalloc returned (NULL after a kfree)
  req,     \* the size it was asked for
  freed    \* the address the last kfree was given (NULL after a kmalloc)

vars == <<table, ret, req, freed>>

-----------------------------------------------------------------------------
(* Arithmetic of sizes and addresses *)

(* Slip: rounding down.                                                    *)
AlignValueLower(size) == size - (size % BlockSize)

heap_align_value_upper(size) ==
  IF size % BlockSize = 0 THEN size
  ELSE (size - (size % BlockSize) + BlockSize) % WordMod

TotalBlocksFor(size) == heap_align_value_upper(size) \div BlockSize

heap_block_to_address(block) == SAddr + block * BlockSize

(* Slip: the quotient is one block too high.                               *)
AddressToBlockOffByOne(ptr) == ((ptr - SAddr + BlockSize) % WordMod) \div BlockSize

heap_address_to_block(ptr) == ((ptr - SAddr) % WordMod) \div BlockSize

-----------------------------------------------------------------------------
(* The calls *)

(* heap_create, called by kheap_init.  That its checks of the table and of   *)
(* the alignment succeed is HeapAssumption.                                 *)
Init ==
  /\ table = [i \in Blocks |-> FREE]
  /\ ret = NULL
  /\ req = 0
  /\ freed = NULL

(* kmalloc and kzalloc; kzalloc also clears the bytes of the blocks.       *)
heap_malloc(size) ==
  LET n == TotalBlocksFor(size)
      start == heap_get_start_block(table, n)
  IN  /\ req' = size
      /\ freed' = NULL
      /\ IF n = 0 \/ start < 0
         THEN ret' = NULL /\ UNCHANGED table
         ELSE /\ ret' = heap_block_to_address(start)
              /\ table' = heap_mark_blocks_taken(table, start, n)

(* What a caller may pass to kfree: NULL or another address outside the    *)
(* heap, the start of an allocation, or an address whose block is free     *)
(* already (an exiting process has its argument strings freed twice).      *)
MayFree(ptr) ==
  LET b == heap_address_to_block(ptr)
  IN  b \in Blocks => table[b] = FREE \/ "FIRST" \in table[b]

heap_free(ptr) ==
  /\ MayFree(ptr)
  /\ ret' = NULL
  /\ req' = 0
  /\ freed' = ptr
  /\ table' = IF ptr = NULL THEN table
              ELSE heap_mark_blocks_free(table, heap_address_to_block(ptr))

Next ==
  \/ \E size \in Sizes : heap_malloc(size)
  \/ \E ptr \in Pointers : heap_free(ptr)

Spec == Init /\ [][Next]_vars

-----------------------------------------------------------------------------
(* Properties *)

(* The table and the arguments and result of the last call have their types. *)
TypeOK ==
  /\ table \in [Blocks -> SUBSET Flags]
  /\ ret \in 0 .. WordMod - 1
  /\ req \in 0 .. WordMod - 1
  /\ freed \in 0 .. WordMod - 1

(* After any sequence of kmalloc and kfree, every flag byte agrees with    *)
(* its neighbours: a chain that says it goes on goes on into a taken block *)
(* that does not start another allocation, a block that is not the first   *)
(* of its allocation is reached from the block before it, and a free byte  *)
(* has no flag left over.  This is what heap_mark_blocks_free relies on to *)
(* stop exactly at the end of the allocation it was given.                 *)
WellFormed == Consistent(table)

(* A pointer kmalloc returns starts a run that holds all the bytes asked   *)
(* for, also where rounding the request up to whole blocks overflows.      *)
BigEnough ==
  ret # NULL =>
    \E r \in RunsOf(table) :
      /\ ret = heap_block_to_address(r[1])
      /\ (r[2] - r[1] + 1) * BlockSize >= req

(* heap.c keeps the promise of AbstractHeap, call by call.  A kmalloc      *)
(* hands out just enough blocks that no live allocation has, and returns   *)
(* NULL only when no such blocks are left (or for size 0).  A kfree of the *)
(* start of an allocation ends that one and no other, also after the       *)
(* pointer became a block number by a subtraction that may wrap; a kfree   *)
(* of NULL, of a foreign address or of a freed block changes no            *)
(* allocation.                                                             *)
Abstract == INSTANCE AbstractHeap WITH live <- RunsOf(table)

Implements == Abstract!Spec
=============================================================================
