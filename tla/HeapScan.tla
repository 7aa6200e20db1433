------------------------------ MODULE HeapScan ------------------------------
(***************************************************************************)
(* The loop of heap_get_start_block (mm/heap.c), one iteration per step,   *)
(* on an arbitrary block table.  Heap.tla uses the declarative             *)
(* heap_get_start_block of HeapTable; this module shows that the loop      *)
(* computes it.                                                            *)
(***************************************************************************)
EXTENDS HeapTable

CONSTANTS Tables,    \* the tables scanned
          Totals     \* the numbers of blocks asked for; 0 never gets here

ASSUME ScanAssumption ==
  /\ Tables \subseteq [Blocks -> SUBSET Flags]
  /\ Totals \subseteq Nat \ {0}

VARIABLES enteies, total_blocks,       \* the arguments
          i, bc, bs,                   \* the locals of the function
          pc, start_block              \* "loop", "out", "done"; the result

args == <<enteies, total_blocks>>
scanvars == <<enteies, total_blocks, i, bc, bs, pc, start_block>>

ENOMEM == 1       \* any positive number: only the sign of -ENOMEM is used

ScanInit ==
  /\ enteies \in Tables
  /\ total_blocks \in Totals
  /\ i = 0 /\ bc = 0 /\ bs = -1
  /\ pc = "loop"
  /\ start_block = 0

(* A taken block restarts the count.                                       *)
SkipTaken ==
  /\ pc = "loop" /\ i < TotalBlocks
  /\ heap_get_entry_type(enteies[i]) # FREE
  /\ bc' = 0 /\ bs' = -1 /\ i' = i + 1
  /\ UNCHANGED <<args, pc, start_block>>

(* A free one is counted; the loop is left when there are enough.          *)
CountFree ==
  /\ pc = "loop" /\ i < TotalBlocks
  /\ heap_get_entry_type(enteies[i]) = FREE
  /\ bs' = IF bs = -1 THEN i ELSE bs
  /\ bc' = bc + 1
  /\ IF bc + 1 = total_blocks THEN pc' = "out" /\ i' = i
                              ELSE pc' = "loop" /\ i' = i + 1
  /\ UNCHANGED <<args, start_block>>

EndOfTable ==
  /\ pc = "loop" /\ i >= TotalBlocks
  /\ pc' = "out"
  /\ UNCHANGED <<args, i, bc, bs, start_block>>

(* Slip: a run at the end of the table that is too short is returned.      *)
ReturnWithoutCount ==
  /\ pc = "out"
  /\ start_block' = IF bs = -1 THEN -ENOMEM ELSE bs
  /\ pc' = "done"
  /\ UNCHANGED <<args, i, bc, bs>>

Return ==
  /\ pc = "out"
  /\ start_block' = IF bs = -1 \/ bc # total_blocks THEN -ENOMEM ELSE bs
  /\ pc' = "done"
  /\ UNCHANGED <<args, i, bc, bs>>

ScanNext == SkipTaken \/ CountFree \/ EndOfTable \/ Return

ScanSpec == ScanInit /\ [][ScanNext]_scanvars

-----------------------------------------------------------------------------
(* Properties *)

(* The locals have their types.                                            *)
ScanTypeOK ==
  /\ enteies \in [Blocks -> SUBSET Flags]
  /\ total_blocks \in Nat \ {0}
  /\ i \in 0 .. TotalBlocks
  /\ bc \in 0 .. TotalBlocks
  /\ bs \in -1 .. TotalBlocks - 1
  /\ pc \in {"loop", "out", "done"}
  /\ start_block \in -1 .. TotalBlocks - 1

Fits(s) == s + total_blocks <= TotalBlocks /\ FreeRun(enteies, s, total_blocks)

(* While it counts, bs .. i - 1 is the maximal free run that ends at i and *)
(* is still too short, and no run that fits ends at or before i.           *)
LoopInv ==
  pc = "loop" =>
    /\ bc < total_blocks
    /\ bs = -1 => bc = 0
    /\ bs # -1 => bs + bc = i /\ FreeRun(enteies, bs, bc)
    /\ \A s \in Blocks : s + total_blocks <= i => ~ Fits(s)
    /\ \A s \in Blocks : s < i - bc =>
         \E j \in s .. i - bc - 1 : heap_get_entry_type(enteies[j]) # FREE

(* The loop is left either with the first fit counted or with none.        *)
OutInv ==
  pc = "out" =>
    \/ /\ bs \in Blocks /\ bc = total_blocks /\ Fits(bs)
       /\ \A s \in Blocks : Fits(s) => bs <= s
    \/ /\ bs = -1 \/ bc # total_blocks
       /\ \A s \in Blocks : ~ Fits(s)

(* The loop returns the lowest block that starts total_blocks free blocks, *)
(* and -ENOMEM exactly when there is none: nothing that fits is missed     *)
(* after a taken block, at the start or at the very end of the table.      *)
FirstFit == pc = "done" => start_block = heap_get_start_block(enteies, total_blocks)

(* At every point of the loop the locals of heap_get_start_block describe  *)
(* the run being counted, nothing that fits has been passed over, and what *)
(* it leaves the loop with is the first fit.                               *)
ScanInv == LoopInv /\ OutInv

=============================================================================
