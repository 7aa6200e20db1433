----------------------------- MODULE MCHeapScan -----------------------------
(* Every table of five bytes is scanned, over a free one and two of the    *)
(* taken ones heap.c writes, for every number of blocks up to one more     *)
(* than there are.                                                         *)
EXTENDS HeapScan

Bytes == {{}, {"TAKEN", "FIRST"}, {"TAKEN", "NEXT"}}

MCTables == [Blocks -> Bytes]
MCTotals == 1 .. TotalBlocks + 1
=============================================================================
