----------------------------- MODULE HeapTable ------------------------------
(***************************************************************************)
(* The block table of mm/heap.c and the functions that read and write it.  *)
(*                                                                         *)
(* A byte of the table is the set of the flags set in it, {} being         *)
(* HEAP_BLOCK_TABLE_ENTRY_FREE.                                            *)
(***************************************************************************)
EXTENDS Integers

CONSTANT TotalBlocks      \* table->total

ASSUME TotalBlocksAssumption == TotalBlocks \in Nat \ {0}

Blocks == 0 .. TotalBlocks - 1

Flags == {"TAKEN", "FIRST", "NEXT"}
FREE == {}

heap_get_entry_type(entry) == entry \cap {"TAKEN"}

FreeRun(t, s, n) == \A i \in s .. s + n - 1 : heap_get_entry_type(t[i]) = FREE

(* The lowest block that starts n free blocks, -1 standing for -ENOMEM.    *)
(* HeapScan.tla models the loop itself and shows that it computes this.    *)
heap_get_start_block(t, n) ==
  LET fits == {s \in Blocks : s + n <= TotalBlocks /\ FreeRun(t, s, n)}
  IN  IF fits = {} THEN -1 ELSE CHOOSE s \in fits : \A q \in fits : s <= q

(* Slip: the last block of the run keeps HEAP_BLOCK_HAS_NEXT.              *)
MarkTakenNextOnLast(t, s, n) ==
  [i \in Blocks |->
     IF i < s \/ i > s + n - 1 THEN t[i]
     ELSE {"TAKEN", "NEXT"} \cup (IF i = s THEN {"FIRST"} ELSE {})]

heap_mark_blocks_taken(t, s, n) ==
  [i \in Blocks |->
     IF i < s \/ i > s + n - 1 THEN t[i]
     ELSE {"TAKEN"} \cup (IF i = s THEN {"FIRST"} ELSE {})
                    \cup (IF i < s + n - 1 THEN {"NEXT"} ELSE {})]

(* Slip: the loop ends one byte early, before the last of the run.         *)
MarkFreeStopsEarly(t, s) ==
  [i \in Blocks |->
     IF i >= s /\ \A j \in Blocks : s <= j /\ j <= i => "NEXT" \in t[j]
     THEN FREE ELSE t[i]]

(* Clears the bytes from s on, up to and including the first one that does *)
(* not have HEAP_BLOCK_HAS_NEXT, and never past the end of the table.      *)
heap_mark_blocks_free(t, s) ==
  [i \in Blocks |->
     IF i >= s /\ \A j \in Blocks : s <= j /\ j < i => "NEXT" \in t[j]
     THEN FREE ELSE t[i]]

-----------------------------------------------------------------------------
(* What a table says *)

(* Every byte agrees with its neighbours.                                  *)
Consistent(t) ==
  \A i \in Blocks :
    /\ t[i] # FREE => "TAKEN" \in t[i]
    /\ "NEXT" \in t[i] => /\ i + 1 \in Blocks
                          /\ "TAKEN" \in t[i + 1]
                          /\ "FIRST" \notin t[i + 1]
    /\ "TAKEN" \in t[i] /\ "FIRST" \notin t[i] => /\ i - 1 \in Blocks
                                                /\ "NEXT" \in t[i - 1]

(* The allocations the table describes, as runs of blocks.                 *)
RunsOf(t) ==
  {r \in Blocks \X Blocks :
     /\ r[1] <= r[2]
     /\ "FIRST" \in t[r[1]]
     /\ \A i \in r[1] .. r[2] - 1 : "NEXT" \in t[i]
     /\ "NEXT" \notin t[r[2]]}
=============================================================================
