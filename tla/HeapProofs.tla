----------------------------- MODULE HeapProofs -----------------------------
(***************************************************************************)
(* Theorems about Heap: for every heap size, block size, base address and  *)
(* word width, the table stays consistent, kmalloc returns enough memory,  *)
(* and heap.c implements AbstractHeap.  The first half has lemmas about    *)
(* one table: what heap_get_start_block finds, and what marking and        *)
(* freeing do to its runs.  The last part is about HeapScan: its loop      *)
(* finds the first fit.                                                    *)
(***************************************************************************)
EXTENDS Heap, HeapScan, WellFoundedInduction, TLAPS

-----------------------------------------------------------------------------
(* The block table *)

TableType(t) == t \in [Blocks -> SUBSET Flags]

(* Every non-empty set of naturals has a least element.                    *)
LEMMA NatMin ==
  ASSUME NEW T \in SUBSET Nat, T # {}
  PROVE  \E x \in T : \A y \in T : x <= y
<1> DEFINE R == OpToRel(<, Nat)
<1>1. IsWellFoundedOn(R, Nat)
  BY NatLessThanWellFounded, Zenon
<1>2. ASSUME NEW a \in Nat, NEW b \in Nat PROVE a < b => <<a, b>> \in R
  BY DEF OpToRel
<1> HIDE DEF R
<1>3. PICK x \in T : \A y \in T : ~ (<<y, x>> \in R)
  BY <1>1, WFMin, Zenon
<1>4. ASSUME NEW y \in T PROVE x <= y
  <2>1. x \in Nat /\ y \in Nat
    OBVIOUS
  <2>2. ~ (y < x)
    BY <1>2, <1>3, <2>1, Zenon
  <2> QED BY <2>1, <2>2
<1> QED BY <1>4

-----------------------------------------------------------------------------
(* The block table *)

(* What heap_get_start_block returns, unless it fails, starts n free       *)
(* blocks inside the table.                                                *)
LEMMA StartBlockFits ==
  ASSUME NEW t, NEW n \in Nat \ {0},
         heap_get_start_block(t, n) # -1
  PROVE  LET s == heap_get_start_block(t, n)
         IN  s \in Blocks /\ s + n <= TotalBlocks /\ FreeRun(t, s, n)
<1> DEFINE fits == {s \in Blocks : s + n <= TotalBlocks /\ FreeRun(t, s, n)}
<1>1. fits # {}
  BY DEF heap_get_start_block
<1>2. fits \in SUBSET Nat
  BY TotalBlocksAssumption DEF Blocks
<1>3. \E s \in fits : \A q \in fits : s <= q
  BY <1>1, <1>2, NatMin
<1>4. heap_get_start_block(t, n) = CHOOSE s \in fits : \A q \in fits : s <= q
  BY <1>1 DEF heap_get_start_block
<1> HIDE DEF fits
<1>5. heap_get_start_block(t, n) \in fits
  BY <1>3, <1>4
<1> QED BY <1>5 DEF fits

(* The run of an allocation is determined by its first block.              *)
LEMMA RunUnique ==
  ASSUME NEW t, NEW r \in RunsOf(t), NEW q \in RunsOf(t), r[1] = q[1]
  PROVE  r = q
<1>1. /\ r \in Blocks \X Blocks /\ q \in Blocks \X Blocks
      /\ r[1] <= r[2] /\ q[1] <= q[2]
      /\ \A blk \in r[1] .. r[2] - 1 : "NEXT" \in t[blk]
      /\ \A blk \in q[1] .. q[2] - 1 : "NEXT" \in t[blk]
      /\ "NEXT" \notin t[r[2]] /\ "NEXT" \notin t[q[2]]
  BY DEF RunsOf
<1>2. r[1] \in Int /\ r[2] \in Int /\ q[1] \in Int /\ q[2] \in Int
  BY <1>1, TotalBlocksAssumption DEF Blocks
<1>3. ~ (r[2] < q[2]) /\ ~ (q[2] < r[2])
  BY <1>1, <1>2
<1>4. r[2] = q[2]
  BY <1>2, <1>3
<1>5. r = <<r[1], r[2]>> /\ q = <<q[1], q[2]>>
  BY <1>1
<1> QED BY <1>4, <1>5

(* A run and a stretch of free blocks have no block in common.             *)
LEMMA RunApartFromFree ==
  ASSUME NEW t, TableType(t), Consistent(t),
         NEW s \in Blocks, NEW n \in Nat \ {0}, s + n <= TotalBlocks,
         FreeRun(t, s, n), NEW r \in RunsOf(t)
  PROVE  r[2] < s \/ s + n - 1 < r[1]
<1>1. /\ r[1] \in Blocks /\ r[2] \in Blocks /\ r[1] <= r[2]
      /\ "FIRST" \in t[r[1]]
      /\ \A blk \in r[1] .. r[2] - 1 : "NEXT" \in t[blk]
  BY DEF RunsOf
<1>2. s \in Nat /\ r[1] \in Nat /\ r[2] \in Nat /\ TotalBlocks \in Nat
  BY <1>1, TotalBlocksAssumption DEF Blocks
<1>3. \A blk \in s .. s + n - 1 : "TAKEN" \notin t[blk]
  BY DEF FreeRun, heap_get_entry_type, FREE
<1>4. r[1] \notin s .. s + n - 1
  BY <1>1, <1>3 DEF Consistent, FREE
<1>5. ~ (r[1] < s /\ s <= r[2])
  <2> SUFFICES ASSUME r[1] < s, s <= r[2] PROVE FALSE
    OBVIOUS
  <2>1. s - 1 \in r[1] .. r[2] - 1 /\ s - 1 \in Blocks
    BY <1>2 DEF Blocks
  <2>2. "NEXT" \in t[s - 1]
    BY <1>1, <2>1
  <2>3. "TAKEN" \in t[(s - 1) + 1]
    BY <2>1, <2>2 DEF Consistent
  <2>4. (s - 1) + 1 = s /\ s \in s .. s + n - 1
    BY <1>2
  <2> QED BY <1>3, <2>3, <2>4
<1> QED BY <1>2, <1>4, <1>5

-----------------------------------------------------------------------------
(* heap_mark_blocks_taken *)

(* The flags after the marking, by where the block is.                     *)
LEMMA TakenFlags ==
  ASSUME NEW t, TableType(t),
         NEW s \in Blocks, NEW n \in Nat \ {0}, s + n <= TotalBlocks,
         NEW blk \in Blocks
  PROVE  LET u == heap_mark_blocks_taken(t, s, n)
         IN  /\ blk < s \/ blk > s + n - 1 => u[blk] = t[blk]
             /\ s <= blk /\ blk <= s + n - 1 =>
                  /\ "TAKEN" \in u[blk]
                  /\ "FIRST" \in u[blk] <=> blk = s
                  /\ "NEXT" \in u[blk] <=> blk < s + n - 1
             /\ u[blk] \in SUBSET Flags
<1> DEFINE u == heap_mark_blocks_taken(t, s, n)
<1>1. s \in Int /\ blk \in Int /\ n \in Int
  BY TotalBlocksAssumption DEF Blocks
<1>2. u[blk] = IF blk < s \/ blk > s + n - 1 THEN t[blk]
             ELSE {"TAKEN"} \cup (IF blk = s THEN {"FIRST"} ELSE {})
                            \cup (IF blk < s + n - 1 THEN {"NEXT"} ELSE {})
  BY DEF heap_mark_blocks_taken
<1>3. t[blk] \in SUBSET Flags
  BY DEF TableType
<1> HIDE DEF u
<1>4. CASE blk < s \/ blk > s + n - 1
  BY <1>1, <1>2, <1>3, <1>4 DEF u
<1>5. CASE ~ (blk < s \/ blk > s + n - 1)
  <2>1. u[blk] = {"TAKEN"} \cup (IF blk = s THEN {"FIRST"} ELSE {})
                         \cup (IF blk < s + n - 1 THEN {"NEXT"} ELSE {})
    BY <1>2, <1>5
  <2>2. /\ "TAKEN" \in u[blk] /\ u[blk] \in SUBSET Flags
        /\ "FIRST" \in u[blk] <=> blk = s
        /\ "NEXT" \in u[blk] <=> blk < s + n - 1
    BY <2>1 DEF Flags
  <2> QED BY <1>5, <2>2 DEF u
<1> QED BY <1>4, <1>5

(* A marked table is a table.                                              *)
LEMMA TakenType ==
  ASSUME NEW t, TableType(t),
         NEW s \in Blocks, NEW n \in Nat \ {0}, s + n <= TotalBlocks
  PROVE  TableType(heap_mark_blocks_taken(t, s, n))
<1> DEFINE u == heap_mark_blocks_taken(t, s, n)
<1>1. \A blk \in Blocks : u[blk] \in SUBSET Flags
  BY TakenFlags
<1>2. u = [blk \in Blocks |-> u[blk]]
  BY DEF heap_mark_blocks_taken
<1> QED BY <1>1, <1>2 DEF TableType

(* Marking free blocks keeps the table consistent.                         *)
LEMMA TakenConsistent ==
  ASSUME NEW t, TableType(t), Consistent(t),
         NEW s \in Blocks, NEW n \in Nat \ {0}, s + n <= TotalBlocks,
         FreeRun(t, s, n)
  PROVE  Consistent(heap_mark_blocks_taken(t, s, n))
<1> DEFINE u == heap_mark_blocks_taken(t, s, n)
<1> HIDE DEF u
<1>1. s \in Nat /\ TotalBlocks \in Nat
  BY TotalBlocksAssumption DEF Blocks
<1>2. \A blk \in s .. s + n - 1 : blk \in Blocks /\ "TAKEN" \notin t[blk] /\ t[blk] = FREE
  <2> SUFFICES ASSUME NEW blk \in s .. s + n - 1
               PROVE  blk \in Blocks /\ "TAKEN" \notin t[blk] /\ t[blk] = FREE
    OBVIOUS
  <2>1. blk \in Blocks
    BY <1>1 DEF Blocks
  <2>2. "TAKEN" \notin t[blk]
    BY DEF FreeRun, heap_get_entry_type, FREE
  <2> QED BY <2>1, <2>2 DEF Consistent
<1>3. \A blk \in Blocks :
        /\ blk < s \/ blk > s + n - 1 => u[blk] = t[blk]
        /\ s <= blk /\ blk <= s + n - 1 =>
              /\ "TAKEN" \in u[blk]
              /\ "FIRST" \in u[blk] <=> blk = s
              /\ "NEXT" \in u[blk] <=> blk < s + n - 1
  BY TakenFlags DEF u
<1> SUFFICES ASSUME NEW blk \in Blocks
             PROVE  /\ u[blk] # FREE => "TAKEN" \in u[blk]
                    /\ "NEXT" \in u[blk] => /\ blk + 1 \in Blocks
                                          /\ "TAKEN" \in u[blk + 1]
                                          /\ "FIRST" \notin u[blk + 1]
                    /\ "TAKEN" \in u[blk] /\ "FIRST" \notin u[blk] =>
                         /\ blk - 1 \in Blocks
                         /\ "NEXT" \in u[blk - 1]
  BY DEF Consistent, u
<1>4. blk \in Nat /\ blk < TotalBlocks
  BY <1>1 DEF Blocks
<1>5. CASE s <= blk /\ blk <= s + n - 1
  <2>1. "NEXT" \in u[blk] =>
          blk + 1 \in Blocks /\ "TAKEN" \in u[blk + 1] /\ "FIRST" \notin u[blk + 1]
    <3> SUFFICES ASSUME "NEXT" \in u[blk]
                 PROVE  blk + 1 \in Blocks /\ "TAKEN" \in u[blk + 1] /\ "FIRST" \notin u[blk + 1]
      OBVIOUS
    <3>1. blk < s + n - 1
      BY <1>3, <1>5
    <3>2. blk + 1 \in Blocks /\ s <= blk + 1 /\ blk + 1 <= s + n - 1 /\ blk + 1 # s
      BY <1>1, <1>4, <1>5, <3>1 DEF Blocks
    <3> QED BY <1>3, <3>2
  <2>2. "FIRST" \notin u[blk] => blk - 1 \in Blocks /\ "NEXT" \in u[blk - 1]
    <3> SUFFICES ASSUME "FIRST" \notin u[blk]
                 PROVE  blk - 1 \in Blocks /\ "NEXT" \in u[blk - 1]
      OBVIOUS
    <3>1. blk # s
      BY <1>3, <1>5
    <3>2. blk - 1 \in Blocks /\ s <= blk - 1 /\ blk - 1 < s + n - 1 /\ blk - 1 <= s + n - 1
      BY <1>1, <1>4, <1>5, <3>1 DEF Blocks
    <3> QED BY <1>3, <3>2
  <2>3. "TAKEN" \in u[blk]
    BY <1>3, <1>5
  <2> QED BY <2>1, <2>2, <2>3
<1>6. CASE blk < s \/ blk > s + n - 1
  <2>1. u[blk] = t[blk]
    BY <1>3, <1>6
  <2>2. "NEXT" \in t[blk] =>
          blk + 1 \in Blocks /\ "TAKEN" \in u[blk + 1] /\ "FIRST" \notin u[blk + 1]
    <3> SUFFICES ASSUME "NEXT" \in t[blk]
                 PROVE  blk + 1 \in Blocks /\ "TAKEN" \in u[blk + 1] /\ "FIRST" \notin u[blk + 1]
      OBVIOUS
    <3>1. blk + 1 \in Blocks /\ "TAKEN" \in t[blk + 1] /\ "FIRST" \notin t[blk + 1]
      BY DEF Consistent
    <3>2. blk + 1 \notin s .. s + n - 1
      BY <1>2, <3>1
    <3>3. blk + 1 < s \/ blk + 1 > s + n - 1
      BY <1>1, <1>4, <3>2
    <3> QED BY <1>3, <3>1, <3>3
  <2>3. "TAKEN" \in t[blk] /\ "FIRST" \notin t[blk] => blk - 1 \in Blocks /\ "NEXT" \in u[blk - 1]
    <3> SUFFICES ASSUME "TAKEN" \in t[blk], "FIRST" \notin t[blk]
                 PROVE  blk - 1 \in Blocks /\ "NEXT" \in u[blk - 1]
      OBVIOUS
    <3>1. blk - 1 \in Blocks /\ "NEXT" \in t[blk - 1]
      BY DEF Consistent
    <3>2. blk - 1 \notin s .. s + n - 1
      BY <1>2, <3>1 DEF FREE
    <3>3. blk - 1 < s \/ blk - 1 > s + n - 1
      BY <1>1, <1>4, <3>2
    <3> QED BY <1>3, <3>1, <3>3
  <2>4. t[blk] # FREE => "TAKEN" \in t[blk]
    BY DEF Consistent
  <2> QED BY <2>1, <2>2, <2>3, <2>4
<1> QED BY <1>1, <1>4, <1>5, <1>6

(* It adds exactly one run, the blocks that were free.                     *)
LEMMA TakenRuns ==
  ASSUME NEW t, TableType(t), Consistent(t),
         NEW s \in Blocks, NEW n \in Nat \ {0}, s + n <= TotalBlocks,
         FreeRun(t, s, n)
  PROVE  RunsOf(heap_mark_blocks_taken(t, s, n)) = RunsOf(t) \cup {<<s, s + n - 1>>}
<1> DEFINE u == heap_mark_blocks_taken(t, s, n)
<1> DEFINE e == s + n - 1
<1> HIDE DEF u
<1>1. s \in Nat /\ TotalBlocks \in Nat /\ e \in Blocks /\ s <= e
  BY TotalBlocksAssumption DEF Blocks
<1>3. \A blk \in Blocks :
        /\ blk < s \/ blk > e => u[blk] = t[blk]
        /\ s <= blk /\ blk <= e =>
              /\ "FIRST" \in u[blk] <=> blk = s
              /\ "NEXT" \in u[blk] <=> blk < e
  BY TakenFlags DEF u
<1>4. \A blk \in Blocks : blk \in Nat /\ blk < TotalBlocks
  BY <1>1 DEF Blocks
<1> HIDE DEF e
<1>5. ASSUME NEW r \in RunsOf(t) PROVE r \in RunsOf(u)
  <2>1. /\ r \in Blocks \X Blocks /\ r[1] \in Blocks /\ r[2] \in Blocks /\ r[1] <= r[2]
        /\ "FIRST" \in t[r[1]] /\ "NEXT" \notin t[r[2]]
        /\ \A blk \in r[1] .. r[2] - 1 : "NEXT" \in t[blk]
    BY DEF RunsOf
  <2>2. r[2] < s \/ e < r[1]
    BY RunApartFromFree DEF e
  <2>3. \A blk \in r[1] .. r[2] : blk \in Blocks /\ u[blk] = t[blk]
    <3> SUFFICES ASSUME NEW blk \in r[1] .. r[2] PROVE blk \in Blocks /\ u[blk] = t[blk]
      OBVIOUS
    <3>1. blk \in Blocks
      BY <1>1, <1>4, <2>1 DEF Blocks
    <3>2. /\ blk \in Int /\ s \in Int /\ e \in Int /\ r[1] \in Int /\ r[2] \in Int
          /\ r[1] <= blk /\ blk <= r[2]
      <4>1. e \in Int /\ r[1] \in Int /\ r[2] \in Int
        BY <1>1, <2>1, TotalBlocksAssumption DEF Blocks
      <4> QED BY <1>1, <4>1
    <3>3. blk < s \/ blk > e
      BY <2>2, <3>2
    <3> QED BY <1>3, <3>1, <3>3
  <2>4. r[1] \in r[1] .. r[2] /\ r[2] \in r[1] .. r[2]
    BY <1>4, <2>1
  <2>5. \A blk \in r[1] .. r[2] - 1 : blk \in r[1] .. r[2]
    BY <1>4, <2>1
  <2> QED BY <2>1, <2>3, <2>4, <2>5 DEF RunsOf
<1>6. <<s, e>> \in RunsOf(u)
  <2>1. \A blk \in s .. e - 1 : blk \in Blocks /\ s <= blk /\ blk <= e /\ blk < e
    BY <1>1, <1>4 DEF Blocks
  <2>2. \A blk \in s .. e - 1 : "NEXT" \in u[blk]
    BY <1>3, <2>1
  <2>3. "FIRST" \in u[s] /\ "NEXT" \notin u[e]
    BY <1>1, <1>3, <1>4
  <2> QED BY <1>1, <2>2, <2>3 DEF RunsOf
<1>7. ASSUME NEW r \in RunsOf(u) PROVE r \in RunsOf(t) \cup {<<s, e>>}
  <2>1. /\ r \in Blocks \X Blocks /\ r[1] \in Blocks /\ r[2] \in Blocks /\ r[1] <= r[2]
        /\ "FIRST" \in u[r[1]] /\ "NEXT" \notin u[r[2]]
        /\ \A blk \in r[1] .. r[2] - 1 : "NEXT" \in u[blk]
    BY DEF RunsOf
  <2>2. CASE r[1] = s
    BY <1>6, <2>2, RunUnique
  <2>3. CASE r[1] # s
    <3>1. ~ (s <= r[1] /\ r[1] <= e)
      BY <1>3, <2>1, <2>3
    <3>2. ~ (r[1] < s /\ s <= r[2])
      <4> SUFFICES ASSUME r[1] < s, s <= r[2] PROVE FALSE
        OBVIOUS
      <4>1. s - 1 \in r[1] .. r[2] - 1 /\ s - 1 \in Blocks /\ s - 1 < s
        BY <1>1, <1>4, <2>1 DEF Blocks
      <4>2. "NEXT" \in t[s - 1]
        BY <1>3, <2>1, <4>1
      <4>3. "TAKEN" \in t[(s - 1) + 1]
        BY <4>1, <4>2 DEF Consistent
      <4>4. (s - 1) + 1 = s /\ s \in s .. s + n - 1
        BY <1>1
      <4>5. "TAKEN" \notin t[s]
        BY <4>4 DEF FreeRun, heap_get_entry_type, FREE
      <4> QED BY <4>3, <4>4, <4>5
    <3>3. \A blk \in r[1] .. r[2] : blk \in Blocks /\ (blk < s \/ blk > e)
      BY <1>1, <1>4, <2>1, <3>1, <3>2 DEF Blocks
    <3>4. \A blk \in r[1] .. r[2] : u[blk] = t[blk]
      BY <1>3, <3>3
    <3>5. r[1] \in r[1] .. r[2] /\ r[2] \in r[1] .. r[2]
      BY <1>4, <2>1
    <3>6. \A blk \in r[1] .. r[2] - 1 : blk \in r[1] .. r[2]
      BY <1>4, <2>1
    <3>7. r \in RunsOf(t)
      BY <2>1, <3>4, <3>5, <3>6 DEF RunsOf
    <3> QED BY <3>7
  <2> QED BY <2>2, <2>3
<1> QED BY <1>5, <1>6, <1>7 DEF u, e

-----------------------------------------------------------------------------
(* heap_mark_blocks_free *)

(* Freeing at a block outside the table, or at a free one, does nothing.   *)
LEMMA FreeNoop ==
  ASSUME NEW t, TableType(t), NEW b \in Nat,
         b \in Blocks => t[b] = FREE
  PROVE  heap_mark_blocks_free(t, b) = t
<1> DEFINE u == heap_mark_blocks_free(t, b)
<1>1. ASSUME NEW blk \in Blocks PROVE u[blk] = t[blk]
  <2>1. u[blk] = IF blk >= b /\ \A j \in Blocks : b <= j /\ j < blk => "NEXT" \in t[j]
               THEN FREE ELSE t[blk]
    BY DEF heap_mark_blocks_free
  <2> HIDE DEF u
  <2>2. blk \in Nat /\ TotalBlocks \in Nat /\ blk < TotalBlocks
    BY TotalBlocksAssumption DEF Blocks
  <2>3. CASE blk < b
    BY <2>1, <2>2, <2>3
  <2>4. CASE blk = b
    BY <2>1, <2>2, <2>4
  <2>5. CASE blk > b
    <3>1. b \in Blocks /\ b <= b /\ b < blk
      BY <2>2, <2>5 DEF Blocks
    <3>2. "NEXT" \notin t[b]
      BY <3>1 DEF FREE
    <3> QED BY <2>1, <3>1, <3>2
  <2> QED BY <2>2, <2>3, <2>4, <2>5
<1>2. u = [blk \in Blocks |-> u[blk]] /\ t = [blk \in Blocks |-> t[blk]]
  BY DEF heap_mark_blocks_free, TableType
<1> QED BY <1>1, <1>2

(* From the first block of an allocation a run of the table leads to a     *)
(* block without HEAP_BLOCK_HAS_NEXT.                                      *)
LEMMA RunExists ==
  ASSUME NEW t, TableType(t), Consistent(t), NEW b \in Blocks, "FIRST" \in t[b]
  PROVE  \E e \in Blocks : <<b, e>> \in RunsOf(t)
<1> DEFINE S == {k \in Blocks : b <= k /\ "NEXT" \notin t[k]}
<1>1. TotalBlocks \in Nat \ {0} /\ b \in Nat
  BY TotalBlocksAssumption DEF Blocks
<1>2. TotalBlocks - 1 \in S
  <2>1. TotalBlocks - 1 \in Blocks /\ b <= TotalBlocks - 1
    BY <1>1 DEF Blocks
  <2>2. (TotalBlocks - 1) + 1 \notin Blocks
    BY <1>1 DEF Blocks
  <2> QED BY <2>1, <2>2 DEF Consistent
<1>3. S \in SUBSET Nat
  BY <1>1 DEF Blocks
<1>4. PICK e \in S : \A k \in S : e <= k
  BY <1>2, <1>3, NatMin
<1>5. e \in Blocks /\ e \in Nat /\ b <= e /\ "NEXT" \notin t[e]
  BY <1>3
<1>6. ASSUME NEW blk \in b .. e - 1 PROVE "NEXT" \in t[blk]
  <2>1. blk \in Blocks /\ b <= blk /\ ~ (e <= blk)
    BY <1>1, <1>5 DEF Blocks
  <2> QED BY <1>4, <2>1
<1> HIDE DEF S
<1>7. <<b, e>> \in RunsOf(t)
  BY <1>5, <1>6 DEF RunsOf
<1> QED BY <1>5, <1>7

(* A taken block belongs to a run: its allocation starts at the lowest     *)
(* block that reaches it through HEAP_BLOCK_HAS_NEXT.                      *)
LEMMA TakenInRun ==
  ASSUME NEW t, TableType(t), Consistent(t), NEW b \in Blocks, "TAKEN" \in t[b]
  PROVE  \E r \in RunsOf(t) : r[1] <= b /\ b <= r[2]
<1> DEFINE S == {k \in Blocks : k <= b /\ \A j \in k .. b - 1 : "NEXT" \in t[j]}
<1>1. \A k \in Blocks : k \in Nat /\ k < TotalBlocks
  BY TotalBlocksAssumption DEF Blocks
<1>2. b \in S
  BY <1>1
<1>3. S \in SUBSET Nat
  BY <1>1
<1>4. PICK k \in S : \A j \in S : k <= j
  BY <1>2, <1>3, NatMin
<1>5. k \in Blocks /\ k \in Nat /\ b \in Nat /\ k <= b /\ \A j \in k .. b - 1 : "NEXT" \in t[j]
  BY <1>1, <1>4
<1>6. "TAKEN" \in t[k]
  <2>1. CASE k = b
    BY <2>1
  <2>2. CASE k # b
    <3>1. k \in k .. b - 1
      BY <1>5, <2>2
    <3> QED BY <1>5, <3>1 DEF Consistent, FREE
  <2> QED BY <2>1, <2>2
<1>7. "FIRST" \in t[k]
  <2> SUFFICES ASSUME "FIRST" \notin t[k] PROVE FALSE
    OBVIOUS
  <2>1. k - 1 \in Blocks /\ "NEXT" \in t[k - 1]
    BY <1>5, <1>6 DEF Consistent
  <2>2. \A j \in k - 1 .. b - 1 : j = k - 1 \/ j \in k .. b - 1
    BY <1>5
  <2>3. k - 1 \in S
    BY <1>5, <2>1, <2>2
  <2>4. ~ (k <= k - 1)
    BY <1>5
  <2> QED BY <1>4, <2>3, <2>4
<1> HIDE DEF S
<1>8. PICK e \in Blocks : <<k, e>> \in RunsOf(t)
  BY <1>5, <1>7, RunExists
<1>9. e \in Nat /\ k <= e /\ "NEXT" \notin t[e]
  BY <1>1, <1>8 DEF RunsOf
<1>10. b <= e
  <2> SUFFICES ASSUME ~ (b <= e) PROVE FALSE
    OBVIOUS
  <2>1. e \in k .. b - 1
    BY <1>5, <1>9
  <2> QED BY <1>5, <1>9, <2>1
<1> QED BY <1>5, <1>8, <1>10

(* Freeing at the first block of a run clears that run and nothing else.   *)
LEMMA FreeFlags ==
  ASSUME NEW t, TableType(t), Consistent(t),
         NEW b \in Blocks, NEW e \in Blocks, <<b, e>> \in RunsOf(t),
         NEW blk \in Blocks
  PROVE  heap_mark_blocks_free(t, b)[blk] = IF b <= blk /\ blk <= e THEN FREE ELSE t[blk]
<1>1. /\ b <= e /\ "FIRST" \in t[b] /\ "NEXT" \notin t[e]
      /\ \A k \in b .. e - 1 : "NEXT" \in t[k]
  BY DEF RunsOf
<1>2. b \in Nat /\ e \in Nat /\ blk \in Nat
  BY TotalBlocksAssumption DEF Blocks
<1>3. heap_mark_blocks_free(t, b)[blk] =
        IF blk >= b /\ \A j \in Blocks : b <= j /\ j < blk => "NEXT" \in t[j]
        THEN FREE ELSE t[blk]
  BY DEF heap_mark_blocks_free
<1>4. CASE blk < b
  BY <1>2, <1>3, <1>4
<1>5. CASE b <= blk /\ blk <= e
  <2>1. ASSUME NEW j \in Blocks, b <= j, j < blk PROVE "NEXT" \in t[j]
    <3>1. j \in Nat
      BY TotalBlocksAssumption DEF Blocks
    <3>2. j \in b .. e - 1
      BY <1>2, <1>5, <2>1, <3>1
    <3> QED BY <1>1, <3>2
  <2> QED BY <1>2, <1>3, <1>5, <2>1
<1>6. CASE e < blk
  <2>1. e \in Blocks /\ b <= e /\ e < blk /\ "NEXT" \notin t[e]
    BY <1>1, <1>6
  <2>2. heap_mark_blocks_free(t, b)[blk] = t[blk]
    BY <1>3, <2>1
  <2>3. ~ (blk <= e)
    BY <1>2, <1>6
  <2> QED BY <2>2, <2>3
<1> QED BY <1>2, <1>4, <1>5, <1>6

(* A table with a run freed is a table, and consistent.                    *)
LEMMA FreeConsistent ==
  ASSUME NEW t, TableType(t), Consistent(t),
         NEW b \in Blocks, NEW e \in Blocks, <<b, e>> \in RunsOf(t)
  PROVE  /\ TableType(heap_mark_blocks_free(t, b))
         /\ Consistent(heap_mark_blocks_free(t, b))
<1> DEFINE u == heap_mark_blocks_free(t, b)
<1>1. u = [blk \in Blocks |-> u[blk]]
  BY DEF heap_mark_blocks_free
<1> HIDE DEF u
<1>2. \A blk \in Blocks : u[blk] = IF b <= blk /\ blk <= e THEN FREE ELSE t[blk]
  BY FreeFlags DEF u
<1>3. \A blk \in Blocks : u[blk] \in SUBSET Flags
  BY <1>2 DEF TableType, FREE
<1>4. TableType(u)
  BY <1>1, <1>3 DEF TableType
<1>5. b \in Nat /\ e \in Nat /\ b <= e /\ "FIRST" \in t[b] /\ "NEXT" \notin t[e]
  BY TotalBlocksAssumption DEF Blocks, RunsOf
<1>6. ASSUME NEW blk \in Blocks
      PROVE  /\ u[blk] # FREE => "TAKEN" \in u[blk]
             /\ "NEXT" \in u[blk] => /\ blk + 1 \in Blocks
                                   /\ "TAKEN" \in u[blk + 1]
                                   /\ "FIRST" \notin u[blk + 1]
             /\ "TAKEN" \in u[blk] /\ "FIRST" \notin u[blk] =>
                  /\ blk - 1 \in Blocks
                  /\ "NEXT" \in u[blk - 1]
  <2>1. blk \in Nat
    BY TotalBlocksAssumption DEF Blocks
  <2>2. CASE b <= blk /\ blk <= e
    BY <1>2, <2>2 DEF FREE
  <2>3. CASE ~ (b <= blk /\ blk <= e)
    <3>1. u[blk] = t[blk]
      BY <1>2, <2>3
    <3>2. "NEXT" \in t[blk] =>
            blk + 1 \in Blocks /\ "TAKEN" \in u[blk + 1] /\ "FIRST" \notin u[blk + 1]
      <4> SUFFICES ASSUME "NEXT" \in t[blk]
                   PROVE  blk + 1 \in Blocks /\ "TAKEN" \in u[blk + 1] /\ "FIRST" \notin u[blk + 1]
        OBVIOUS
      <4>1. blk + 1 \in Blocks /\ "TAKEN" \in t[blk + 1] /\ "FIRST" \notin t[blk + 1]
        BY DEF Consistent
      <4>2. blk + 1 # b
        BY <1>5, <4>1
      <4>3. ~ (b <= blk + 1 /\ blk + 1 <= e)
        BY <1>5, <2>1, <2>3, <4>2
      <4> QED BY <1>2, <4>1, <4>3
    <3>3. "TAKEN" \in t[blk] /\ "FIRST" \notin t[blk] => blk - 1 \in Blocks /\ "NEXT" \in u[blk - 1]
      <4> SUFFICES ASSUME "TAKEN" \in t[blk], "FIRST" \notin t[blk]
                   PROVE  blk - 1 \in Blocks /\ "NEXT" \in u[blk - 1]
        OBVIOUS
      <4>1. blk - 1 \in Blocks /\ "NEXT" \in t[blk - 1]
        BY DEF Consistent
      <4>2. blk - 1 # e
        BY <1>5, <4>1
      <4>3. ~ (b <= blk - 1 /\ blk - 1 <= e)
        BY <1>5, <2>1, <2>3, <4>2
      <4> QED BY <1>2, <4>1, <4>3
    <3>4. t[blk] # FREE => "TAKEN" \in t[blk]
      BY DEF Consistent
    <3> QED BY <3>1, <3>2, <3>3, <3>4
  <2> QED BY <2>2, <2>3
<1>7. Consistent(u)
  BY <1>6 DEF Consistent
<1> QED BY <1>4, <1>7 DEF u

(* It removes exactly that run.                                            *)
LEMMA FreeRuns ==
  ASSUME NEW t, TableType(t), Consistent(t),
         NEW b \in Blocks, NEW e \in Blocks, <<b, e>> \in RunsOf(t)
  PROVE  RunsOf(heap_mark_blocks_free(t, b)) = RunsOf(t) \ {<<b, e>>}
<1> DEFINE u == heap_mark_blocks_free(t, b)
<1> HIDE DEF u
<1>1. \A blk \in Blocks : u[blk] = IF b <= blk /\ blk <= e THEN FREE ELSE t[blk]
  BY FreeFlags DEF u
<1>2. b \in Nat /\ e \in Nat /\ b <= e /\ "FIRST" \in t[b] /\ "NEXT" \notin t[e]
  BY TotalBlocksAssumption DEF Blocks, RunsOf
<1>3. \A k \in b .. e - 1 : "NEXT" \in t[k]
  BY DEF RunsOf
<1>4. /\ TotalBlocks \in Nat /\ b < TotalBlocks
      /\ \A k \in Blocks : k \in Nat /\ k < TotalBlocks
  BY TotalBlocksAssumption DEF Blocks
<1>5. b - 1 \in Blocks => "NEXT" \notin t[b - 1]
  <2>1. (b - 1) + 1 = b
    BY <1>2
  <2> QED BY <1>2, <2>1 DEF Consistent
<1>6. ASSUME NEW r \in RunsOf(u) PROVE r \in RunsOf(t) /\ r # <<b, e>>
  <2>1. /\ r \in Blocks \X Blocks /\ r[1] \in Blocks /\ r[2] \in Blocks /\ r[1] <= r[2]
        /\ "FIRST" \in u[r[1]] /\ "NEXT" \notin u[r[2]]
        /\ \A blk \in r[1] .. r[2] - 1 : "NEXT" \in u[blk]
    BY DEF RunsOf
  <2>2. r[1] \in Nat /\ r[2] \in Nat /\ r[1] < TotalBlocks /\ r[2] < TotalBlocks
    BY <1>4, <2>1
  <2>3. ~ (b <= r[1] /\ r[1] <= e)
    BY <1>1, <2>1 DEF FREE
  <2>4. ~ (r[1] < b /\ b <= r[2])
    <3> SUFFICES ASSUME r[1] < b, b <= r[2] PROVE FALSE
      OBVIOUS
    <3>1. b - 1 \in r[1] .. r[2] - 1 /\ ~ (b <= b - 1)
      BY <1>2, <2>2
    <3>2. b - 1 \in Blocks
      BY <1>2, <1>4, <2>2 DEF Blocks
    <3> QED BY <1>1, <1>5, <2>1, <3>1, <3>2
  <2>5. ASSUME NEW blk \in r[1] .. r[2] PROVE blk \in Blocks /\ u[blk] = t[blk]
    <3>1. blk \in Blocks
      BY <1>4, <2>1, <2>2 DEF Blocks
    <3>2. ~ (b <= blk /\ blk <= e)
      BY <1>2, <2>2, <2>3, <2>4
    <3> QED BY <1>1, <3>1, <3>2
  <2>6. r[1] \in r[1] .. r[2] /\ r[2] \in r[1] .. r[2]
    BY <2>1, <2>2
  <2>7. \A blk \in r[1] .. r[2] - 1 : blk \in r[1] .. r[2]
    BY <2>1, <2>2
  <2>8. r \in RunsOf(t)
    BY <2>1, <2>5, <2>6, <2>7 DEF RunsOf
  <2>9. r # <<b, e>>
    BY <1>2, <2>3
  <2> QED BY <2>8, <2>9
<1>7. ASSUME NEW r \in RunsOf(t), r # <<b, e>> PROVE r \in RunsOf(u)
  <2>1. /\ r \in Blocks \X Blocks /\ r[1] \in Blocks /\ r[2] \in Blocks /\ r[1] <= r[2]
        /\ "FIRST" \in t[r[1]] /\ "NEXT" \notin t[r[2]]
        /\ \A blk \in r[1] .. r[2] - 1 : "NEXT" \in t[blk]
    BY DEF RunsOf
  <2>2. r[1] \in Nat /\ r[2] \in Nat /\ r[1] < TotalBlocks /\ r[2] < TotalBlocks
    BY <1>4, <2>1
  <2>3. r[1] # b
    BY <1>7, RunUnique
  <2>4. ~ (b <= r[1] /\ r[1] <= e)
    <3> SUFFICES ASSUME b <= r[1], r[1] <= e PROVE FALSE
      OBVIOUS
    <3>1. r[1] - 1 \in b .. e - 1 /\ (r[1] - 1) + 1 = r[1]
      BY <1>2, <2>2, <2>3
    <3>2. r[1] - 1 \in Blocks
      BY <1>2, <1>4, <2>1, <3>1 DEF Blocks
    <3>3. "FIRST" \notin t[r[1]]
      BY <1>3, <3>1, <3>2 DEF Consistent
    <3> QED BY <2>1, <3>3
  <2>5. ~ (r[1] < b /\ b <= r[2])
    <3> SUFFICES ASSUME r[1] < b, b <= r[2] PROVE FALSE
      OBVIOUS
    <3>1. b - 1 \in r[1] .. r[2] - 1
      BY <1>2, <2>2
    <3>2. b - 1 \in Blocks
      BY <1>2, <1>4, <2>2 DEF Blocks
    <3> QED BY <1>5, <2>1, <3>1, <3>2
  <2>6. ASSUME NEW blk \in r[1] .. r[2] PROVE blk \in Blocks /\ u[blk] = t[blk]
    <3>1. blk \in Blocks
      BY <1>4, <2>1, <2>2 DEF Blocks
    <3>2. ~ (b <= blk /\ blk <= e)
      BY <1>2, <2>2, <2>4, <2>5
    <3> QED BY <1>1, <3>1, <3>2
  <2>7. r[1] \in r[1] .. r[2] /\ r[2] \in r[1] .. r[2]
    BY <2>1, <2>2
  <2>8. \A blk \in r[1] .. r[2] - 1 : blk \in r[1] .. r[2]
    BY <2>1, <2>2
  <2> QED BY <2>1, <2>6, <2>7, <2>8 DEF RunsOf
<1> QED BY <1>6, <1>7 DEF u

-----------------------------------------------------------------------------
(* Arithmetic *)

(* Division with remainder, as the C operators / and % on size_t.          *)
LEMMA DivMod ==
  ASSUME NEW a \in Int, NEW b \in Nat \ {0}
  PROVE  /\ a % b \in 0 .. b - 1
         /\ a \div b \in Int
         /\ a = b * (a \div b) + (a % b)
  OBVIOUS

(* The quotient of naturals is a natural.                                  *)
LEMMA DivNat ==
  ASSUME NEW a \in Nat, NEW b \in Nat \ {0}
  PROVE  a \div b \in Nat
  OBVIOUS

(* Multiplication by a block size is monotone.                             *)
LEMMA MulMono ==
  ASSUME NEW a \in Nat, NEW c \in Nat, NEW b \in Nat, a <= c
  PROVE  a * b <= c * b
  OBVIOUS

(* It is strictly monotone, read backwards.                                *)
LEMMA MulStrict ==
  ASSUME NEW a \in Int, NEW c \in Int, NEW b \in Nat \ {0}, a * b < c * b
  PROVE  a < c
  OBVIOUS

(* heap_address_to_block yields a natural for every pointer; a pointer     *)
(* below the heap wraps to one, it never becomes negative.                 *)
LEMMA AddressToBlockNat ==
  ASSUME NEW ptr \in 0 .. WordMod - 1
  PROVE  heap_address_to_block(ptr) \in Nat
<1>1. ptr - SAddr \in Int
  BY HeapAssumption
<1>2. (ptr - SAddr) % WordMod \in Nat
  BY <1>1, DivMod, HeapAssumption
<1> QED BY <1>2, DivNat, HeapAssumption DEF heap_address_to_block

(* heap_address_to_block finds the block an address lies in, and no block  *)
(* for an address outside the heap.                                        *)
LEMMA AddressInBlock ==
  ASSUME NEW ptr \in 0 .. WordMod - 1, NEW b \in Blocks
  PROVE  heap_address_to_block(ptr) = b <=>
           heap_block_to_address(b) <= ptr /\ ptr < heap_block_to_address(b) + BlockSize
<1> DEFINE d == (ptr - SAddr) % WordMod
<1> DEFINE q == d \div BlockSize
<1>1. /\ ptr \in Nat /\ ptr < WordMod /\ BlockSize \in Nat \ {0} /\ WordMod \in Nat \ {0}
      /\ SAddr \in Nat /\ b \in Nat /\ b + 1 <= TotalBlocks /\ TotalBlocks \in Nat
      /\ SAddr + TotalBlocks * BlockSize < WordMod
  BY HeapAssumption, TotalBlocksAssumption DEF Blocks
<1>2. b * BlockSize \in Nat /\ SAddr + b * BlockSize + BlockSize < WordMod
  <2>1. (b + 1) * BlockSize <= TotalBlocks * BlockSize /\ TotalBlocks * BlockSize \in Nat
    BY <1>1, MulMono
  <2>2. (b + 1) * BlockSize = b * BlockSize + BlockSize /\ b * BlockSize \in Nat
    BY <1>1
  <2> QED BY <1>1, <2>1, <2>2
<1>3. d \in Nat /\ (ptr >= SAddr => d = ptr - SAddr) /\ (ptr < SAddr => d = ptr - SAddr + WordMod)
  <2>1. CASE ptr >= SAddr
    BY <1>1, <2>1
  <2>2. CASE ptr < SAddr
    BY <1>1, <2>2
  <2> QED BY <1>1, <2>1, <2>2
<1>4. heap_address_to_block(ptr) = q
  BY DEF heap_address_to_block
<1>5. q \in Nat /\ q * BlockSize <= d /\ d < q * BlockSize + BlockSize
  <2>1. d \in Int /\ q \in Nat
    BY <1>1, <1>3, DivNat
  <2>2. d % BlockSize \in 0 .. BlockSize - 1 /\ d = BlockSize * q + (d % BlockSize)
    BY <1>1, <2>1, DivMod
  <2> QED BY <1>1, <2>1, <2>2
<1> HIDE DEF d, q
<1>6. q = b <=> b * BlockSize <= d /\ d < b * BlockSize + BlockSize
  <2>1. ASSUME q < b PROVE ~ (b * BlockSize <= d)
    <3>1. (q + 1) * BlockSize <= b * BlockSize
      BY <1>1, <1>5, <2>1, MulMono
    <3>2. (q + 1) * BlockSize = q * BlockSize + BlockSize
      BY <1>1, <1>5
    <3>3. q * BlockSize \in Nat
      BY <1>1, <1>5
    <3> QED BY <1>1, <1>2, <1>3, <1>5, <3>1, <3>2, <3>3
  <2>2. ASSUME b < q PROVE ~ (d < b * BlockSize + BlockSize)
    <3>1. (b + 1) * BlockSize <= q * BlockSize
      BY <1>1, <1>5, <2>2, MulMono
    <3>2. (b + 1) * BlockSize = b * BlockSize + BlockSize
      BY <1>1
    <3>3. q * BlockSize \in Nat
      BY <1>1, <1>5
    <3> QED BY <1>1, <1>2, <1>3, <1>5, <3>1, <3>2, <3>3
  <2> QED BY <1>1, <1>5, <2>1, <2>2
<1>7. /\ b * BlockSize <= d <=> SAddr + b * BlockSize <= ptr \/ ptr < SAddr
      /\ ptr < SAddr => ~ (d < b * BlockSize + BlockSize)
      /\ ptr >= SAddr => (d < b * BlockSize + BlockSize <=> ptr < SAddr + b * BlockSize + BlockSize)
  BY <1>1, <1>2, <1>3
<1>8. ptr < SAddr => ~ (SAddr + b * BlockSize <= ptr)
  BY <1>1, <1>2
<1> QED BY <1>1, <1>4, <1>6, <1>7, <1>8 DEF heap_block_to_address

(* The number of blocks of a request: natural, and just enough for the     *)
(* size, unless it is 0: then the size is 0 or rounding it up overflowed.  *)
LEMMA BlocksForSize ==
  ASSUME NEW size \in 0 .. WordMod - 1
  PROVE  /\ TotalBlocksFor(size) \in Nat
         /\ TotalBlocksFor(size) # 0 => /\ TotalBlocksFor(size) * BlockSize >= size
                                        /\ (TotalBlocksFor(size) - 1) * BlockSize < size
         /\ TotalBlocksFor(size) = 0 => size = 0 \/ size > WordMod - BlockSize
<1> DEFINE q == size \div BlockSize
<1> DEFINE r == size % BlockSize
<1> DEFINE w == WordMod \div BlockSize
<1>1. /\ size \in Nat /\ BlockSize \in Nat \ {0} /\ WordMod \in Nat \ {0}
      /\ WordMod % BlockSize = 0
  BY HeapAssumption
<1>2. /\ q \in Nat /\ r \in 0 .. BlockSize - 1 /\ size = BlockSize * q + r
  <2>1. q \in Nat
    BY <1>1, DivNat
  <2>2. size \in Int
    BY <1>1
  <2>3. r \in 0 .. BlockSize - 1 /\ size = BlockSize * q + r
    BY <1>1, <2>2, DivMod
  <2> QED BY <2>1, <2>3
<1>3. w \in Nat /\ WordMod = BlockSize * w
  BY <1>1, DivMod, DivNat
<1> HIDE DEF q, w
<1>4. CASE r = 0
  <2>1. heap_align_value_upper(size) = size
    BY <1>4 DEF heap_align_value_upper
  <2>2. TotalBlocksFor(size) = q
    BY <2>1 DEF TotalBlocksFor, q
  <2> QED BY <1>1, <1>2, <1>4, <2>2
<1>5. CASE r # 0
  <2>1. heap_align_value_upper(size) = (size - r + BlockSize) % WordMod
    BY <1>5 DEF heap_align_value_upper
  <2> HIDE DEF r
  <2>2. size - r + BlockSize = BlockSize * (q + 1)
    BY <1>1, <1>2
  <2>3. q < w
    <3>1. q * BlockSize < w * BlockSize
      BY <1>1, <1>2, <1>3, <1>5
    <3> QED BY <1>1, <1>2, <1>3, <3>1, MulStrict
  <2>4. CASE q + 1 = w
    <3>1. heap_align_value_upper(size) = 0
      BY <1>1, <1>3, <2>1, <2>2, <2>4
    <3>2. TotalBlocksFor(size) = 0
      BY <1>1, <3>1 DEF TotalBlocksFor
    <3>3. size > WordMod - BlockSize
      BY <1>1, <1>2, <1>3, <1>5, <2>4
    <3> QED BY <3>2, <3>3
  <2>5. CASE q + 1 < w
    <3>1. BlockSize * (q + 1) < WordMod
      BY <1>1, <1>2, <1>3, <2>5
    <3>2. BlockSize * (q + 1) \in Nat
      BY <1>1, <1>2
    <3>3. heap_align_value_upper(size) = BlockSize * (q + 1)
      BY <1>1, <2>1, <2>2, <3>1, <3>2
    <3>4. TotalBlocksFor(size) = q + 1
      BY <1>1, <1>2, <3>3 DEF TotalBlocksFor
    <3>5. (q + 1) * BlockSize >= size /\ q * BlockSize < size
      BY <1>1, <1>2, <1>5
    <3> QED BY <1>2, <3>4, <3>5
  <2> QED BY <1>2, <1>3, <2>3, <2>4, <2>5
<1> QED BY <1>4, <1>5

-----------------------------------------------------------------------------
(* The steps *)

(* A request that heap_malloc refuses has no candidate: some block of      *)
(* every run long enough is taken, or no run is long enough.               *)
LEMMA NoCandidates ==
  ASSUME TypeOK, WellFormed, NEW size \in 0 .. WordMod - 1,
         TotalBlocksFor(size) = 0 \/ heap_get_start_block(table, TotalBlocksFor(size)) = -1
  PROVE  Abstract!Candidates(size) = {}
<1> SUFFICES ASSUME NEW r \in Abstract!Candidates(size) PROVE FALSE
  OBVIOUS
<1> DEFINE n == TotalBlocksFor(size)
<1> DEFINE len == r[2] - r[1] + 1
<1>1. /\ r[1] \in Blocks /\ r[2] \in Blocks /\ r[1] <= r[2]
      /\ len * BlockSize >= size /\ (r[2] - r[1]) * BlockSize < size
      /\ \A q \in RunsOf(table) : r[2] < q[1] \/ q[2] < r[1]
  BY DEF Abstract!Candidates, Abstract!AllRuns, Abstract!Blocks, Abstract!Apart, Blocks
<1>2. /\ r[1] \in Nat /\ r[2] \in Nat /\ r[2] < TotalBlocks /\ TotalBlocks \in Nat
      /\ BlockSize \in Nat \ {0} /\ WordMod \in Nat /\ size \in Nat
  BY <1>1, TotalBlocksAssumption, HeapAssumption DEF Blocks
<1>3. len \in Nat \ {0} /\ len <= TotalBlocks /\ r[2] = r[1] + len - 1
  BY <1>1, <1>2
<1>4. TableType(table) /\ Consistent(table)
  BY DEF TypeOK, WellFormed, TableType
<1>5. \A k \in r[1] .. r[2] : heap_get_entry_type(table[k]) = FREE
  <2> SUFFICES ASSUME NEW k \in r[1] .. r[2], "TAKEN" \in table[k] PROVE FALSE
    BY DEF heap_get_entry_type, FREE
  <2>1. k \in Blocks
    BY <1>2 DEF Blocks
  <2>2. PICK q \in RunsOf(table) : q[1] <= k /\ k <= q[2]
    BY <1>4, <2>1, TakenInRun
  <2>3. q[1] \in Nat /\ q[2] \in Nat
    BY TotalBlocksAssumption DEF RunsOf, Blocks
  <2> QED BY <1>1, <1>2, <2>2, <2>3
<1>6. /\ n \in Nat /\ (n # 0 => (n - 1) * BlockSize < size)
      /\ n = 0 => size = 0 \/ size > WordMod - BlockSize
  BY BlocksForSize
<1> HIDE DEF n, len
<1>7. CASE n = 0
  <2>1. size # 0
    <3>1. (r[2] - r[1]) * BlockSize \in Nat
      BY <1>1, <1>2
    <3> QED BY <1>1, <3>1
  <2>2. len * BlockSize <= TotalBlocks * BlockSize /\ len * BlockSize \in Nat
    BY <1>2, <1>3, MulMono
  <2>3. TotalBlocks * BlockSize \in Nat
    BY <1>2
  <2>4. SAddr >= BlockSize
    BY HeapAssumption
  <2>5. size > WordMod - BlockSize /\ size <= len * BlockSize
    BY <1>1, <1>2, <1>6, <1>7, <2>1, <2>2
  <2> QED BY <1>2, <2>2, <2>3, <2>4, <2>5, HeapAssumption
<1>8. CASE n # 0
  <2>1. (n - 1) * BlockSize < len * BlockSize
    <3>1. (n - 1) * BlockSize \in Int /\ len * BlockSize \in Int
      BY <1>2, <1>3, <1>6
    <3> QED BY <1>1, <1>2, <1>6, <1>8, <3>1
  <2>2. n - 1 < len
    BY <1>2, <1>3, <1>6, <2>1, MulStrict
  <2>3. r[1] + n <= TotalBlocks
    BY <1>2, <1>3, <1>6, <2>2
  <2>4. \A k \in r[1] .. r[1] + n - 1 : k \in r[1] .. r[2]
    BY <1>2, <1>3, <1>6, <2>2
  <2>5. FreeRun(table, r[1], n)
    BY <1>5, <2>4 DEF FreeRun
  <2> DEFINE fits == {k \in Blocks : k + n <= TotalBlocks /\ FreeRun(table, k, n)}
  <2>6. r[1] \in fits
    BY <1>1, <2>3, <2>5
  <2>7. heap_get_start_block(table, n) = CHOOSE k \in fits : \A j \in fits : k <= j
    BY <2>6 DEF heap_get_start_block
  <2>8. fits \in SUBSET Nat
    BY TotalBlocksAssumption DEF Blocks
  <2>9. \E k \in fits : \A j \in fits : k <= j
    BY <2>6, <2>8, NatMin
  <2> HIDE DEF fits
  <2>10. heap_get_start_block(table, n) \in fits
    BY <2>7, <2>9
  <2>11. heap_get_start_block(table, n) = -1
    BY <1>8 DEF n
  <2> QED BY <2>8, <2>10, <2>11
<1> QED BY <1>7, <1>8

(* A kmalloc keeps the invariants, returns enough memory, and is the       *)
(* abstract call.                                                          *)
LEMMA MallocStep ==
  ASSUME TypeOK, WellFormed, NEW size \in Sizes, heap_malloc(size)
  PROVE  /\ TypeOK' /\ WellFormed' /\ BigEnough'
         /\ Abstract!Malloc(size)
<1> DEFINE n == TotalBlocksFor(size)
<1> DEFINE s == heap_get_start_block(table, n)
<1>1. size \in 0 .. WordMod - 1
  BY HeapAssumption
<1>2. n \in Nat /\ (n # 0 => n * BlockSize >= size /\ (n - 1) * BlockSize < size)
  BY <1>1, BlocksForSize
<1>3. TableType(table) /\ Consistent(table)
  BY DEF TypeOK, WellFormed, TableType
<1>4. /\ req' = size /\ freed' = NULL
      /\ n = 0 \/ s < 0 => ret' = NULL /\ table' = table
      /\ ~ (n = 0 \/ s < 0) => /\ ret' = heap_block_to_address(s)
                              /\ table' = heap_mark_blocks_taken(table, s, n)
  BY DEF heap_malloc
<1>5a. n # 0 /\ s < 0 => s = -1
  <2> SUFFICES ASSUME n # 0, s < 0, s # -1 PROVE FALSE
    OBVIOUS
  <2>1. s \in Blocks
    BY <1>2, StartBlockFits
  <2> QED BY <2>1, TotalBlocksAssumption DEF Blocks
<1>5b. n = 0 \/ s = -1 => Abstract!Candidates(size) = {}
  BY <1>1, NoCandidates
<1>5c. freed' \in 0 .. WordMod - 1
  BY <1>4, HeapAssumption DEF NULL
<1> HIDE DEF n, s
<1>5. CASE n = 0 \/ s < 0
  <2>1. ret' = NULL /\ table' = table /\ req' = size
    BY <1>4, <1>5
  <2>2. ret' \in 0 .. WordMod - 1
    BY <2>1, HeapAssumption DEF NULL
  <2>3. Abstract!Candidates(size) = {}
    BY <1>5, <1>5a, <1>5b
  <2>4. Abstract!Malloc(size)
    BY <1>4, <2>1, <2>3 DEF Abstract!Malloc, Abstract!NULL, NULL
  <2> QED BY <1>1, <1>5c, <2>1, <2>2, <2>4 DEF TypeOK, WellFormed, BigEnough
<1>6. CASE ~ (n = 0 \/ s < 0)
  <2>1. n \in Nat \ {0} /\ s # -1
    BY <1>2, <1>6
  <2>2. s \in Blocks /\ s + n <= TotalBlocks /\ FreeRun(table, s, n)
    BY <2>1, StartBlockFits DEF s
  <2>3. /\ ret' = heap_block_to_address(s) /\ req' = size
        /\ table' = heap_mark_blocks_taken(table, s, n)
    BY <1>4, <1>6
  <2>4. TableType(table') /\ Consistent(table')
    BY <1>3, <2>1, <2>2, <2>3, TakenType, TakenConsistent
  <2>5. RunsOf(table') = RunsOf(table) \cup {<<s, s + n - 1>>}
    BY <1>3, <2>1, <2>2, <2>3, TakenRuns
  <2>6. ret' \in 0 .. WordMod - 1
    <3>1. s \in Nat /\ TotalBlocks \in Nat /\ s <= TotalBlocks
      BY <2>2, TotalBlocksAssumption DEF Blocks
    <3>2. s * BlockSize <= TotalBlocks * BlockSize /\ s * BlockSize \in Nat
      BY <3>1, MulMono, HeapAssumption
    <3> QED BY <2>3, <3>1, <3>2, HeapAssumption DEF heap_block_to_address
  <2>7. TypeOK' /\ WellFormed'
    BY <1>1, <1>5c, <2>3, <2>4, <2>6 DEF TypeOK, WellFormed, TableType
  <2>8. BigEnough'
    <3> DEFINE r == <<s, s + n - 1>>
    <3>1. r \in RunsOf(table')
      BY <2>5
    <3>2. s \in Int
      BY <2>2, TotalBlocksAssumption DEF Blocks
    <3>3. r[2] - r[1] + 1 = n
      BY <2>1, <3>2
    <3>4. ret' = heap_block_to_address(r[1]) /\ (r[2] - r[1] + 1) * BlockSize >= req'
      BY <1>2, <2>1, <2>3, <3>3
    <3> HIDE DEF r
    <3>5. \E q \in RunsOf(table') :
            ret' = heap_block_to_address(q[1]) /\ (q[2] - q[1] + 1) * BlockSize >= req'
      BY <3>1, <3>4
    <3> QED BY <3>5 DEF BigEnough
  <2>9. Abstract!Malloc(size)
    <3> DEFINE r == <<s, s + n - 1>>
    <3>1. s \in Nat /\ TotalBlocks \in Nat /\ s + n - 1 \in Blocks /\ s <= s + n - 1
      BY <2>1, <2>2, TotalBlocksAssumption DEF Blocks
    <3>2. r \in Abstract!AllRuns
      BY <2>2, <3>1 DEF Abstract!AllRuns, Abstract!Blocks, Blocks
    <3>3. \A q \in RunsOf(table) : Abstract!Apart(r, q)
      BY <1>3, <2>1, <2>2, RunApartFromFree DEF Abstract!Apart
    <3>4. r[1] = s /\ r[2] - r[1] + 1 = n /\ r[2] - r[1] = n - 1
      BY <2>1, <3>1
    <3>5. ret' = Abstract!Address(r[1]) /\ RunsOf(table') = RunsOf(table) \cup {r}
      BY <2>3, <2>5, <3>4 DEF Abstract!Address, heap_block_to_address
    <3> HIDE DEF r
    <3>6. r \in Abstract!Candidates(size)
      BY <1>2, <2>1, <3>2, <3>3, <3>4 DEF Abstract!Candidates
    <3> QED BY <1>4, <3>5, <3>6 DEF Abstract!Malloc, Abstract!NULL, NULL
  <2> QED BY <2>7, <2>8, <2>9
<1> QED BY <1>5, <1>6

(* The runs that start in the block of an address are those that an        *)
(* abstract kfree of the address ends.                                     *)
LEMMA StartsAtBlock ==
  ASSUME NEW ptr \in 0 .. WordMod - 1, NEW r \in RunsOf(table)
  PROVE  Abstract!StartsAt(r, ptr) <=> r[1] = heap_address_to_block(ptr)
<1>1. r[1] \in Blocks
  BY DEF RunsOf
<1> QED BY <1>1, AddressInBlock DEF Abstract!StartsAt, Abstract!Address, heap_block_to_address

(* A kfree within the callers' contract keeps the invariants, and is the   *)
(* abstract call.                                                          *)
LEMMA FreeStep ==
  ASSUME TypeOK, WellFormed, NEW ptr \in Pointers, heap_free(ptr)
  PROVE  /\ TypeOK' /\ WellFormed' /\ BigEnough'
         /\ Abstract!Free(ptr)
<1> DEFINE b == heap_address_to_block(ptr)
<1>0. ptr \in 0 .. WordMod - 1
  BY HeapAssumption
<1>1. b \in Nat
  BY <1>0, AddressToBlockNat
<1>2. TableType(table) /\ Consistent(table)
  BY DEF TypeOK, WellFormed, TableType
<1>3. /\ ret' = NULL /\ req' = 0 /\ freed' = ptr
      /\ table' = IF ptr = NULL THEN table ELSE heap_mark_blocks_free(table, b)
      /\ b \in Blocks => table[b] = FREE \/ "FIRST" \in table[b]
  BY DEF heap_free, MayFree
<1>4. BigEnough'
  BY <1>3 DEF BigEnough
<1>5. ret' \in 0 .. WordMod - 1 /\ req' \in 0 .. WordMod - 1 /\ freed' \in 0 .. WordMod - 1
  BY <1>0, <1>3, HeapAssumption DEF NULL
<1>6. \A r \in RunsOf(table) : Abstract!StartsAt(r, ptr) <=> r[1] = b
  BY <1>0, StartsAtBlock
<1>7. SUFFICES /\ TypeOK' /\ WellFormed'
               /\ RunsOf(table') = {r \in RunsOf(table) : r[1] # b}
  BY <1>3, <1>4, <1>6 DEF Abstract!Free, Abstract!NULL, NULL
(* The null pointer lies in no block of the heap.                          *)
<1>8. CASE ptr = NULL
  <2>1. ASSUME NEW r \in RunsOf(table) PROVE r[1] # b
    <3>1. r[1] \in Nat
      BY TotalBlocksAssumption DEF RunsOf, Blocks
    <3>2. r[1] * BlockSize \in Nat
      BY <3>1, HeapAssumption
    <3>3. ~ Abstract!StartsAt(r, ptr)
      BY <1>8, <3>2, HeapAssumption DEF Abstract!StartsAt, Abstract!Address, NULL
    <3> QED BY <1>6, <3>3
  <2>2. table' = table
    BY <1>3, <1>8
  <2> HIDE DEF b
  <2> QED BY <1>5, <2>1, <2>2 DEF TypeOK, WellFormed
<1> HIDE DEF b
(* Neither does a foreign address, and a free block starts no run.         *)
<1>9. CASE ptr # NULL /\ (b \in Blocks => table[b] = FREE)
  <2>1. table' = table
    BY <1>1, <1>2, <1>3, <1>9, FreeNoop
  <2>2. ASSUME NEW r \in RunsOf(table) PROVE r[1] # b
    BY <1>9 DEF RunsOf, FREE
  <2> QED BY <1>5, <2>1, <2>2 DEF TypeOK, WellFormed
<1>10. CASE ptr # NULL /\ b \in Blocks /\ table[b] # FREE
  <2>1. table' = heap_mark_blocks_free(table, b)
    BY <1>3, <1>10
  <2>3. "FIRST" \in table[b]
    BY <1>3, <1>10
  <2>4. PICK e \in Blocks : <<b, e>> \in RunsOf(table)
    BY <1>2, <1>10, <2>3, RunExists
  <2>5. TableType(table') /\ Consistent(table')
    BY <1>2, <1>10, <2>1, <2>4, FreeConsistent
  <2>6. RunsOf(table') = RunsOf(table) \ {<<b, e>>}
    BY <1>2, <1>10, <2>1, <2>4, FreeRuns
  <2>7. \A r \in RunsOf(table) : r[1] = b <=> r = <<b, e>>
    BY <2>4, RunUnique
  <2> QED BY <1>5, <2>5, <2>6, <2>7 DEF TypeOK, WellFormed, TableType
<1> QED BY <1>8, <1>9, <1>10

(* The initial table is well formed and describes no allocation.           *)
LEMMA HeapInit ==
  ASSUME Init
  PROVE  TypeOK /\ WellFormed /\ BigEnough /\ RunsOf(table) = {}
<1>1. \A blk \in Blocks : table[blk] = {}
  BY DEF Init, FREE
<1>2. TypeOK
  BY HeapAssumption DEF Init, TypeOK, FREE, NULL
<1>3. WellFormed
  BY <1>1 DEF WellFormed, Consistent, FREE
<1>4. RunsOf(table) = {}
  BY <1>1 DEF RunsOf
<1> QED BY <1>2, <1>3, <1>4 DEF Init, BigEnough

(* The invariants hold in every reachable state of every heap: the types,  *)
(* the agreement of the flags of neighbouring bytes that mm/heap.c relies  *)
(* on, and that kmalloc returns as many bytes as it was asked for.         *)
THEOREM HeapSafety == Spec => [](TypeOK /\ WellFormed /\ BigEnough)
<1>1. Init => TypeOK /\ WellFormed /\ BigEnough
  BY HeapInit
<1>2. TypeOK /\ WellFormed /\ BigEnough /\ [Next]_vars => (TypeOK /\ WellFormed /\ BigEnough)'
  <2> SUFFICES ASSUME TypeOK, WellFormed, BigEnough, [Next]_vars
               PROVE  (TypeOK /\ WellFormed /\ BigEnough)'
    OBVIOUS
  <2>1. ASSUME NEW size \in Sizes, heap_malloc(size)
        PROVE  (TypeOK /\ WellFormed /\ BigEnough)'
    BY <2>1, MallocStep
  <2>2. ASSUME NEW ptr \in Pointers, heap_free(ptr)
        PROVE  (TypeOK /\ WellFormed /\ BigEnough)'
    BY <2>2, FreeStep
  <2>3. CASE UNCHANGED vars
    BY <2>3 DEF vars, TypeOK, WellFormed, BigEnough
  <2> QED BY <2>1, <2>2, <2>3 DEF Next
<1> QED BY <1>1, <1>2, PTL DEF Spec

(* mm/heap.c implements AbstractHeap, call by call and for every size of   *)
(* heap: kmalloc hands out exactly as many blocks as the request needs,    *)
(* shared with no live allocation, and fails only when there are none;     *)
(* kfree ends the allocation its pointer starts and no other.              *)
THEOREM HeapImplements == Spec => Implements
<1>1. Init => Abstract!Init
  BY HeapInit DEF Abstract!Init, Init, Abstract!NULL, NULL
<1>2. TypeOK /\ WellFormed /\ [Next]_vars => [Abstract!Next]_(<<RunsOf(table), req, freed, ret>>)
  <2> SUFFICES ASSUME TypeOK, WellFormed, [Next]_vars
               PROVE  Abstract!Next \/ UNCHANGED <<RunsOf(table), req, freed, ret>>
    OBVIOUS
  <2>1. ASSUME NEW size \in Sizes, heap_malloc(size)
        PROVE  Abstract!Next
    BY <2>1, MallocStep DEF Abstract!Next
  <2>2. ASSUME NEW ptr \in Pointers, heap_free(ptr)
        PROVE  Abstract!Next
    BY <2>2, FreeStep DEF Abstract!Next
  <2>3. CASE UNCHANGED vars
    <3>1. RunsOf(table)' = RunsOf(table)
      BY <2>3 DEF vars, RunsOf
    <3> QED BY <2>3, <3>1 DEF vars
  <2> QED BY <2>1, <2>2, <2>3 DEF Next
<1> QED BY <1>1, <1>2, HeapSafety, PTL DEF Spec, Implements, Abstract!Spec

(* The flags of neighbouring bytes agree in every reachable state.         *)
THEOREM HeapWellFormed == Spec => []WellFormed
  BY HeapSafety, PTL

(* kmalloc never returns fewer bytes than it was asked for, for any block  *)
(* size, heap size and word width.                                         *)
THEOREM HeapBigEnough == Spec => []BigEnough
  BY HeapSafety, PTL

-----------------------------------------------------------------------------
(* The loop of heap_get_start_block *)

ScanIInv == ScanTypeOK /\ ScanInv /\ FirstFit

(* Whether a block fits depends on the arguments only.                     *)
LEMMA FitsStable ==
  ASSUME UNCHANGED args, NEW s
  PROVE  /\ Fits(s)' <=> Fits(s)
         /\ enteies' = enteies /\ total_blocks' = total_blocks
  BY DEF args, Fits, FreeRun

(* A block before a taken one starts nothing that reaches past it.         *)
LEMMA BlockedByTaken ==
  ASSUME ScanTypeOK, NEW s \in Blocks, NEW j \in Blocks, s <= j, j < s + total_blocks,
         heap_get_entry_type(enteies[j]) # FREE
  PROVE  ~ Fits(s)
<1>1. s \in Nat /\ j \in Nat /\ total_blocks \in Nat
  BY TotalBlocksAssumption DEF Blocks, ScanTypeOK
<1>2. j \in s .. s + total_blocks - 1
  BY <1>1
<1> QED BY <1>2 DEF Fits, FreeRun

(* A free run grows by the free block after it.                            *)
LEMMA FreeRunExtend ==
  ASSUME NEW t, NEW s \in Nat, NEW n \in Nat, FreeRun(t, s, n),
         heap_get_entry_type(t[s + n]) = FREE
  PROVE  FreeRun(t, s, n + 1)
<1> SUFFICES ASSUME NEW k \in s .. s + (n + 1) - 1
             PROVE  heap_get_entry_type(t[k]) = FREE
  BY DEF FreeRun
<1>1. k \in s .. s + n - 1 \/ k = s + n
  OBVIOUS
<1> QED BY <1>1 DEF FreeRun

(* The initial state.                                                      *)
LEMMA ScanInitIInv == ScanInit => ScanIInv
<1> SUFFICES ASSUME ScanInit PROVE ScanIInv
  OBVIOUS
<1>1. ScanTypeOK
  BY ScanAssumption, TotalBlocksAssumption DEF ScanInit, ScanTypeOK
<1>2. LoopInv
  <2>1. total_blocks \in Nat \ {0} /\ bc = 0 /\ bs = -1 /\ i = 0
    BY <1>1 DEF ScanInit, ScanTypeOK
  <2>2. \A s \in Blocks : ~ (s + total_blocks <= i) /\ ~ (s < i - bc)
    BY <2>1, TotalBlocksAssumption DEF Blocks
  <2> QED BY <2>1, <2>2 DEF LoopInv
<1> QED BY <1>1, <1>2 DEF ScanInit, ScanIInv, ScanInv, OutInv, FirstFit

(* A taken block.                                                          *)
LEMMA SkipTakenStep == ScanIInv /\ SkipTaken => ScanIInv'
<1> SUFFICES ASSUME ScanIInv, SkipTaken PROVE ScanIInv'
  OBVIOUS
<1>1. /\ pc = "loop" /\ pc' = "loop" /\ i < TotalBlocks /\ start_block' = start_block
      /\ bc' = 0 /\ bs' = -1 /\ i' = i + 1 /\ UNCHANGED args
      /\ heap_get_entry_type(enteies[i]) # FREE
  BY DEF SkipTaken, args
<1>2. ScanTypeOK /\ LoopInv /\ enteies' = enteies /\ total_blocks' = total_blocks
  BY <1>1 DEF ScanIInv, ScanInv, args
<1>3. i \in Nat /\ total_blocks \in Nat \ {0} /\ bc \in Nat /\ i \in Blocks
  BY <1>1, <1>2, TotalBlocksAssumption DEF ScanTypeOK, Blocks
<1>4. ScanTypeOK'
  BY <1>1, <1>2, <1>3, TotalBlocksAssumption DEF ScanTypeOK
<1>5. ASSUME NEW s \in Blocks, s + total_blocks' <= i' PROVE ~ Fits(s)'
  <2>1. s \in Nat
    BY TotalBlocksAssumption DEF Blocks
  <2>2. CASE s + total_blocks <= i
    BY <1>1, <1>2, <2>2, FitsStable DEF LoopInv
  <2>3. CASE ~ (s + total_blocks <= i)
    <3>1. s <= i /\ i < s + total_blocks
      BY <1>1, <1>2, <1>3, <1>5, <2>1, <2>3
    <3> QED BY <1>1, <1>2, <1>3, <3>1, BlockedByTaken, FitsStable
  <2> QED BY <2>2, <2>3
<1>6. ASSUME NEW s \in Blocks, s < i' - bc'
      PROVE  \E j \in s .. i' - bc' - 1 : heap_get_entry_type(enteies'[j]) # FREE
  <2>1. s \in Nat
    BY TotalBlocksAssumption DEF Blocks
  <2>2. i \in s .. i' - bc' - 1
    BY <1>1, <1>3, <1>6, <2>1
  <2> QED BY <1>1, <1>2, <2>2
<1>7. LoopInv'
  BY <1>1, <1>2, <1>3, <1>5, <1>6 DEF LoopInv
<1> QED BY <1>1, <1>4, <1>7 DEF ScanIInv, ScanInv, OutInv, FirstFit

(* A free block.                                                           *)
LEMMA CountFreeStep == ScanIInv /\ CountFree => ScanIInv'
<1> SUFFICES ASSUME ScanIInv, CountFree PROVE ScanIInv'
  OBVIOUS
<1>1. /\ pc = "loop" /\ i < TotalBlocks /\ start_block' = start_block /\ UNCHANGED args
      /\ heap_get_entry_type(enteies[i]) = FREE
      /\ bs' = IF bs = -1 THEN i ELSE bs
      /\ bc' = bc + 1
      /\ \/ bc + 1 = total_blocks /\ pc' = "out" /\ i' = i
         \/ bc + 1 # total_blocks /\ pc' = "loop" /\ i' = i + 1
  BY DEF CountFree, args
<1>2. ScanTypeOK /\ LoopInv /\ enteies' = enteies /\ total_blocks' = total_blocks
  BY <1>1 DEF ScanIInv, ScanInv, args
<1>3. /\ i \in Nat /\ total_blocks \in Nat \ {0} /\ bc \in Nat /\ i \in Blocks
      /\ bs \in Int /\ TotalBlocks \in Nat /\ bc < total_blocks
  BY <1>1, <1>2, TotalBlocksAssumption DEF ScanTypeOK, Blocks, LoopInv
<1>4. bs' \in Nat /\ bs' + bc = i /\ FreeRun(enteies, bs', bc)
  <2>1. CASE bs = -1
    <3>1. bc = 0 /\ bs' = i
      BY <1>1, <1>2, <2>1 DEF LoopInv
    <3>2. FreeRun(enteies, i, 0)
      BY <1>3 DEF FreeRun
    <3> QED BY <1>3, <3>1, <3>2
  <2>2. CASE bs # -1
    <3>1. bs' = bs /\ bs + bc = i /\ FreeRun(enteies, bs, bc)
      BY <1>1, <1>2, <2>2 DEF LoopInv
    <3>2. bs \in Nat
      BY <1>2, <2>2, TotalBlocksAssumption DEF ScanTypeOK
    <3> QED BY <3>1, <3>2
  <2> QED BY <2>1, <2>2
<1>4a. PICK b \in Nat : b = bs' /\ b + bc = i
  BY <1>4
<1>4b. b <= i /\ i - bc = b
  <2>1. b + bc = i
    BY <1>4a
  <2> QED BY <1>3, <2>1
<1>5. FreeRun(enteies, bs', bc + 1)
  BY <1>1, <1>3, <1>4, FreeRunExtend
<1>6. bs' \in Blocks /\ bc' \in 0 .. TotalBlocks /\ bc' \in Nat
  BY <1>1, <1>3, <1>4 DEF Blocks
<1>7. ScanTypeOK'
  <2>1. bs' \in -1 .. TotalBlocks - 1
    BY <1>3, <1>6 DEF Blocks
  <2>2. i' \in 0 .. TotalBlocks /\ pc' \in {"loop", "out", "done"}
    BY <1>1, <1>3
  <2> QED BY <1>1, <1>2, <1>6, <2>1, <2>2 DEF ScanTypeOK
(* Every block before the run is followed by a taken one.                 *)
<1>8. ASSUME NEW s \in Blocks, s < b
      PROVE  \E j \in s .. b - 1 : heap_get_entry_type(enteies[j]) # FREE
  <2>1. s < i - bc
    BY <1>8, <1>4b
  <2>2. PICK j \in s .. i - bc - 1 : heap_get_entry_type(enteies[j]) # FREE
    BY <1>1, <1>2, <2>1 DEF LoopInv
  <2> QED BY <1>4b, <2>2
<1>9. CASE bc + 1 = total_blocks
  <2>1. pc' = "out" /\ i' = i /\ bc' = total_blocks
    BY <1>1, <1>9
  <2>2. bs' + total_blocks <= TotalBlocks
    BY <1>1, <1>3, <1>4, <1>9
  <2>3. Fits(bs')
    BY <1>5, <1>9, <2>2 DEF Fits
  <2>4. ASSUME NEW s \in Blocks, Fits(s) PROVE bs' <= s
    <3> SUFFICES ASSUME ~ (bs' <= s) PROVE FALSE
      OBVIOUS
    <3>1. s \in Nat /\ s < b
      <4>1. s \in Nat /\ ~ (b <= s)
        BY <1>4a, TotalBlocksAssumption DEF Blocks
      <4> QED BY <4>1
    <3>2. ~ (s + total_blocks <= i)
      BY <1>1, <1>2, <2>4 DEF LoopInv
    <3>3. PICK j \in s .. b - 1 : heap_get_entry_type(enteies[j]) # FREE
      BY <1>8, <3>1
    <3>4. j \in Blocks /\ s <= j /\ j < s + total_blocks
      <4>2. j \in Int /\ s <= j /\ j < b /\ b <= i
        BY <1>4b, <3>1
      <4> QED BY <1>1, <1>3, <3>1, <3>2, <4>2 DEF Blocks
    <3> QED BY <1>2, <2>4, <3>3, <3>4, BlockedByTaken
  <2>5. Fits(bs)'
    BY <1>2, <2>3 DEF Fits
  <2>6. \A s \in Blocks : Fits(s)' => bs' <= s
    BY <1>1, <2>4, FitsStable
  <2>7. OutInv'
    BY <1>2, <1>6, <2>1, <2>5, <2>6 DEF OutInv
  <2> QED BY <1>7, <2>1, <2>7 DEF ScanIInv, ScanInv, LoopInv, FirstFit
<1>10. CASE bc + 1 # total_blocks
  <2>1. pc' = "loop" /\ i' = i + 1 /\ bc' < total_blocks'
    BY <1>1, <1>2, <1>3, <1>10
  <2>2. i' - bc' = bs' /\ bs' + bc' = i' /\ bs' # -1
    BY <1>1, <1>3, <1>4, <2>1
  <2>3. ASSUME NEW s \in Blocks, s + total_blocks' <= i' PROVE ~ Fits(s)'
    <3>1. s \in Nat
      BY TotalBlocksAssumption DEF Blocks
    <3>2. s < b
      <4>1. s + total_blocks <= i + 1
        BY <1>2, <2>1, <2>3
      <4> QED BY <1>1, <1>3, <1>4b, <1>10, <3>1, <4>1
    <3>3. CASE s + total_blocks <= i
      BY <1>1, <1>2, <3>3, FitsStable DEF LoopInv
    <3>4. CASE ~ (s + total_blocks <= i)
      <4>1. PICK j \in s .. b - 1 : heap_get_entry_type(enteies[j]) # FREE
        BY <1>8, <3>2
      <4>2. j \in Blocks /\ s <= j /\ j < s + total_blocks
        <5>2. j \in Int /\ s <= j /\ j < b /\ b <= i
          BY <1>4b, <3>1
        <5> QED BY <1>1, <1>3, <3>1, <3>4, <5>2 DEF Blocks
      <4> QED BY <1>1, <1>2, <4>1, <4>2, BlockedByTaken, FitsStable
    <3> QED BY <3>3, <3>4
  <2>4. FreeRun(enteies', bs', bc')
    BY <1>1, <1>2, <1>5
  <2>5. \A s \in Blocks : s < i' - bc' =>
          \E j \in s .. i' - bc' - 1 : heap_get_entry_type(enteies'[j]) # FREE
    BY <1>2, <1>4a, <1>8, <2>2
  <2>6. LoopInv'
    BY <2>1, <2>2, <2>3, <2>4, <2>5 DEF LoopInv
  <2> QED BY <1>7, <2>1, <2>6 DEF ScanIInv, ScanInv, OutInv, FirstFit
<1> QED BY <1>9, <1>10

(* The end of the table.                                                   *)
LEMMA EndOfTableStep == ScanIInv /\ EndOfTable => ScanIInv'
<1> SUFFICES ASSUME ScanIInv, EndOfTable PROVE ScanIInv'
  OBVIOUS
<1>1. /\ pc = "loop" /\ pc' = "out" /\ i >= TotalBlocks /\ UNCHANGED args
      /\ i' = i /\ bc' = bc /\ bs' = bs /\ start_block' = start_block
  BY DEF EndOfTable, args
<1>2. ScanTypeOK /\ LoopInv /\ enteies' = enteies /\ total_blocks' = total_blocks
  BY <1>1 DEF ScanIInv, ScanInv, args
<1>3. ScanTypeOK'
  BY <1>1, <1>2 DEF ScanTypeOK
<1>4. i = TotalBlocks /\ bc # total_blocks
  BY <1>1, <1>2, TotalBlocksAssumption DEF ScanTypeOK, LoopInv
<1>5. \A s \in Blocks : ~ Fits(s)
  BY <1>1, <1>2, <1>4 DEF LoopInv, Fits
<1>6. \A s \in Blocks : ~ Fits(s)'
  BY <1>1, <1>5, FitsStable
<1>7. OutInv'
  BY <1>1, <1>2, <1>4, <1>6 DEF OutInv
<1> QED BY <1>1, <1>3, <1>7 DEF ScanIInv, ScanInv, LoopInv, FirstFit

(* The return: the least fit is the one CHOOSE picks.                      *)
LEMMA ReturnStep == ScanIInv /\ Return => ScanIInv'
<1> SUFFICES ASSUME ScanIInv, Return PROVE ScanIInv'
  OBVIOUS
<1>1. /\ pc = "out" /\ pc' = "done" /\ UNCHANGED args
      /\ i' = i /\ bc' = bc /\ bs' = bs
      /\ start_block' = IF bs = -1 \/ bc # total_blocks THEN -1 ELSE bs
  BY DEF Return, args, ENOMEM
<1>2. ScanTypeOK /\ OutInv /\ enteies' = enteies /\ total_blocks' = total_blocks
  BY <1>1 DEF ScanIInv, ScanInv, args
<1> DEFINE fits == {s \in Blocks : Fits(s)}
<1>3. heap_get_start_block(enteies, total_blocks) =
        IF fits = {} THEN -1 ELSE CHOOSE s \in fits : \A q \in fits : s <= q
  BY DEF heap_get_start_block, Fits
<1>4. start_block' = heap_get_start_block(enteies, total_blocks)
  <2>1. CASE /\ bs \in Blocks /\ bc = total_blocks /\ Fits(bs)
             /\ \A s \in Blocks : Fits(s) => bs <= s
    <3>1. bs \in fits /\ \A q \in fits : bs <= q
      BY <2>1
    <3>2. \A s \in fits : s \in Int
      BY TotalBlocksAssumption DEF Blocks
    <3>3. start_block' = bs
      BY <1>1, <2>1, <3>1, <3>2, TotalBlocksAssumption DEF Blocks
    <3> HIDE DEF fits
    <3>4. \A s \in fits : (\A q \in fits : s <= q) => s = bs
      BY <3>1, <3>2
    <3>5. (CHOOSE s \in fits : \A q \in fits : s <= q) = bs
      BY <3>1, <3>4
    <3> QED BY <1>3, <3>1, <3>3, <3>5
  <2>2. CASE (bs = -1 \/ bc # total_blocks) /\ \A s \in Blocks : ~ Fits(s)
    <3>1. fits = {}
      BY <2>2
    <3> QED BY <1>1, <1>3, <2>2, <3>1
  <2> QED BY <1>1, <1>2, <2>1, <2>2 DEF OutInv
<1>5. FirstFit'
  BY <1>1, <1>2, <1>4 DEF FirstFit
<1>6. ScanTypeOK'
  <2>1. start_block' \in -1 .. TotalBlocks - 1
    BY <1>1, <1>2, TotalBlocksAssumption DEF ScanTypeOK
  <2> QED BY <1>1, <1>2, <2>1 DEF ScanTypeOK
<1> QED BY <1>1, <1>5, <1>6 DEF ScanIInv, ScanInv, LoopInv, OutInv

(* The invariant of the scan holds throughout.                             *)
THEOREM ScanSafety == ScanSpec => []ScanIInv
<1>1. ScanIInv /\ [ScanNext]_scanvars => ScanIInv'
  <2> SUFFICES ASSUME ScanIInv, [ScanNext]_scanvars PROVE ScanIInv'
    OBVIOUS
  <2>1. CASE UNCHANGED scanvars
    BY <2>1 DEF scanvars, ScanIInv, ScanTypeOK, ScanInv, LoopInv, OutInv, FirstFit, Fits, FreeRun
  <2> QED BY <2>1, SkipTakenStep, CountFreeStep, EndOfTableStep, ReturnStep DEF ScanNext
<1> QED BY <1>1, ScanInitIInv, PTL DEF ScanSpec

(* The loop of heap_get_start_block returns the first fit, and -ENOMEM     *)
(* exactly when no run of free blocks is long enough, for every table.     *)
THEOREM ScanFirstFit == ScanSpec => []FirstFit
<1>1. ScanIInv => FirstFit
  BY DEF ScanIInv
<1> QED BY <1>1, ScanSafety, PTL
=============================================================================
