------------------------------ MODULE FatRead ------------------------------
(***************************************************************************)
(* Reading an open file: fread and fseek of fs/file.c, fat16_read,         *)
(* fat16_seek and the cluster loops of fs/fat/fat16.c, and the sector loop *)
(* of diskstream_read (kernel/streamer.c), one loop iteration per step.    *)
(*                                                                         *)
(* A byte of the disk is named by its address, counted from the end of the *)
(* root directory, and out is what the caller's buffer holds: every write  *)
(* goes right after the last one.  The reads of one call see one state of  *)
(* the heap, for the kernel is not preempted: either each kmalloc of a     *)
(* sector buffer, freed again before the next, succeeds or none does.      *)
(***************************************************************************)
EXTENDS Integers, Sequences

CONSTANTS
  SectorSize,          \* KERNEL_SECTOR_SIZE, the sector_size of the disk
  SectorsPerCluster,   \* sectors_per_cluster
  Files,               \* the files on the disk
  Sizes, Members, Offsets   \* the arguments of fread and fseek explored

ClusterSize == SectorsPerCluster * SectorSize

EIO == 1
EINVAGS == 2
ENOMEM == 3

EndOfChain == {65528, 65535}              \* 0xFFF8, 0xFFFF
Refused == {4080, 4086, 4087, 0}          \* 0xFF0, 0xFF6, 0xFF7, 0x00

(* clusters, the clusters of the file in order, is what fat says, spelled  *)
(* out for the properties; the code has only first and fat.                *)
FileOK(f) ==
  /\ f.type \in {"FILE", "DIRECTORY"}
  /\ f.filesize \in Nat
  /\ f.clusters \in Seq(Nat \ {0, 1}) /\ f.clusters # <<>>
  /\ \A k \in 1 .. Len(f.clusters) : f.clusters[k] \in DOMAIN f.fat
  /\ \A k \in 1 .. Len(f.clusters) - 1 : f.fat[f.clusters[k]] = f.clusters[k + 1]
  /\ f.fat[f.clusters[Len(f.clusters)]] \in EndOfChain
  /\ f.first = f.clusters[1]

ASSUME FatAssumption ==
  /\ SectorsPerCluster \in Nat \ {0}
  /\ SectorSize \in Nat \ {0}
  /\ Sizes \subseteq Nat /\ Members \subseteq Nat /\ Offsets \subseteq Int
  /\ \A f \in Files : FileOK(f)

VARIABLES
  file,          \* the file of the descriptor
  pos,           \* fat_item_descriptor.pos
  call,          \* the arguments of the last fread, and pos and the heap then
  out,           \* the addresses of the bytes copied by it
  pc, loc,       \* the loop it is in, and the locals of these loops
  res            \* the result of the last call

vars == <<file, pos, call, out, pc, loc, res>>

NoLocals == [i |-> 0, offset |-> 0, cluster |-> 0, ahead |-> 0, off |-> 0,
             total |-> 0, chunk |-> 0, spos |-> 0, remain |-> 0]

NoCall == [size |-> 0, nmemb |-> 0, start |-> 0, lowmem |-> FALSE]

Smaller(a, b) == IF a < b THEN a ELSE b

Init ==
  /\ file \in Files
  /\ pos = 0
  /\ call = NoCall
  /\ out = <<>>
  /\ pc = "idle" /\ loc = NoLocals
  /\ res = 0

Return(r) == res' = r /\ pc' = "idle" /\ loc' = NoLocals

-----------------------------------------------------------------------------
(* The file allocation table *)

fat16_get_fat_entry(cluster) ==
  IF call.lowmem THEN -ENOMEM ELSE file.fat[cluster]

(* A negative entry, which is an error, passes.                            *)
fat16_check_cluster_entry(entry) ==
  IF entry \in EndOfChain \cup Refused THEN -EIO ELSE 0

fat16_cluster_to_sector(cluster) == (cluster - 2) * SectorsPerCluster

-----------------------------------------------------------------------------
(* fread, fat16_read *)

fread(size, nmemb) ==
  /\ pc = "idle"
  /\ \E lowmem \in BOOLEAN :
       call' = [size |-> size, nmemb |-> nmemb, start |-> pos, lowmem |-> lowmem]
  /\ out' = <<>>
  /\ IF size = 0 \/ nmemb = 0 \/ file.type # "FILE"
       THEN Return(-EINVAGS)
       ELSE pc' = "member" /\ loc' = [NoLocals EXCEPT !.offset = pos] /\ res' = 0
  /\ UNCHANGED <<file, pos>>

(* The next member: fat16_read_internal on offset, from the first cluster. *)
NextMember ==
  /\ pc = "member" /\ loc.i < call.nmemb
  /\ loc' = [loc EXCEPT !.total = call.size, !.off = loc.offset,
               !.cluster = file.first, !.ahead = loc.offset \div ClusterSize]
  /\ pc' = "walk"
  /\ UNCHANGED <<file, pos, call, out, res>>

ReadDone ==
  /\ pc = "member" /\ loc.i = call.nmemb
  /\ pos' = loc.offset
  /\ Return(call.nmemb)
  /\ UNCHANGED <<file, call, out>>

(* Slip: the position moves on even when the read fails.                   *)
FailMovesOn(r) == Return(r) /\ pos' = loc.offset + call.size /\ UNCHANGED <<file, call, out>>

ReadFails(r) == Return(r) /\ UNCHANGED <<file, pos, call, out>>

-----------------------------------------------------------------------------
(* fat16_get_cluster_for_offset *)

WalkOn ==
  /\ pc = "walk" /\ loc.ahead > 0
  /\ LET entry == fat16_get_fat_entry(loc.cluster)
     IN  IF fat16_check_cluster_entry(entry) < 0
           THEN ReadFails(-EIO)
           ELSE /\ loc' = [loc EXCEPT !.cluster = entry, !.ahead = @ - 1]
                /\ UNCHANGED <<file, pos, call, out, pc, res>>

(* An error taken for a cluster on the way is told by its sign at the end. *)
WalkEnds ==
  /\ pc = "walk" /\ loc.ahead = 0
  /\ IF loc.cluster < 0
       THEN ReadFails(loc.cluster)
       ELSE pc' = "chunk" /\ UNCHANGED <<file, pos, call, out, loc, res>>

-----------------------------------------------------------------------------
(* fat16_read_internal_from_stream *)

(* Slip: one byte less is asked for.                                       *)
ChunkOneShort(off, total) == Smaller(total, ClusterSize - off - 1)

(* What is read of this cluster.  It is offset, not the offset inside the  *)
(* cluster, that is taken from the size of a cluster.                      *)
TotalToRead(off, total) == Smaller(total, ClusterSize - off)

(* diskstream_seek and the checks of diskstream_read, in their order.      *)
StartChunk ==
  /\ pc = "chunk"
  /\ LET n == TotalToRead(loc.off, loc.total)
     IN  IF n < 0 THEN ReadFails(-EINVAGS)
         ELSE IF call.lowmem THEN ReadFails(-ENOMEM)
         ELSE /\ loc' = [loc EXCEPT !.chunk = n, !.remain = n,
                           !.spos = fat16_cluster_to_sector(loc.cluster) * SectorSize
                                    + (loc.off % ClusterSize)]
              /\ pc' = "sector"
              /\ UNCHANGED <<file, pos, call, out, res>>

(* Slip: the whole rest is copied out of one sector's buffer.              *)
SectorTooFar ==
  /\ pc = "sector" /\ loc.remain > 0
  /\ LET lba == loc.spos \div SectorSize
         n == Smaller(SectorSize, loc.remain)
     IN  /\ out' = out \o [k \in 1 .. n |-> lba * SectorSize + k - 1]
         /\ loc' = [loc EXCEPT !.spos = @ + n, !.remain = @ - n]
  /\ UNCHANGED <<file, pos, call, pc, res>>

(* An iteration of diskstream_read: one sector, copied from its offset on. *)
ReadSector ==
  /\ pc = "sector" /\ loc.remain > 0
  /\ LET lba == loc.spos \div SectorSize
         o == loc.spos % SectorSize
         n == Smaller(SectorSize - o, loc.remain)
     IN  /\ out' = out \o [k \in 1 .. n |-> lba * SectorSize + o + k - 1]
         /\ loc' = [loc EXCEPT !.spos = @ + n, !.remain = @ - n]
  /\ UNCHANGED <<file, pos, call, pc, res>>

ChunkRead ==
  /\ pc = "sector" /\ loc.remain = 0
  /\ loc' = [loc EXCEPT !.total = @ - loc.chunk, !.off = @ + loc.chunk]
  /\ pc' = "next"
  /\ UNCHANGED <<file, pos, call, out, res>>

(* Slip: the loop goes on in the same cluster.                             *)
StayInCluster ==
  /\ pc = "next" /\ loc.total > 0
  /\ pc' = "chunk"
  /\ UNCHANGED <<file, pos, call, out, loc, res>>

(* fat16_get_next_cluster, when something is left to read.                 *)
NextCluster ==
  /\ pc = "next" /\ loc.total > 0
  /\ LET entry == fat16_get_fat_entry(loc.cluster)
     IN  IF fat16_check_cluster_entry(entry) < 0 THEN ReadFails(-EIO)
         ELSE IF entry < 0 THEN ReadFails(entry)
         ELSE /\ loc' = [loc EXCEPT !.cluster = entry]
              /\ pc' = "chunk"
              /\ UNCHANGED <<file, pos, call, out, res>>

MemberRead ==
  /\ pc = "next" /\ loc.total = 0
  /\ loc' = [loc EXCEPT !.i = @ + 1, !.offset = @ + call.size]
  /\ pc' = "member"
  /\ UNCHANGED <<file, pos, call, out, res>>

-----------------------------------------------------------------------------
(* fseek, fat16_seek *)

(* SEEK_SET to a, or SEEK_CUR by a - pos.  The comparison is of uint32_t,  *)
(* so what would be negative is past the end.  SEEK_END is not there yet   *)
(* (-ENOIMPL) and changes nothing.                                         *)
fseek(a) ==
  /\ pc = "idle"
  /\ call' = NoCall /\ out' = <<>>
  /\ IF file.type # "FILE" \/ a \notin 0 .. file.filesize - 1
       THEN res' = -EINVAGS /\ UNCHANGED pos
       ELSE res' = 0 /\ pos' = a
  /\ UNCHANGED <<file, pc, loc>>

Step ==
  \/ NextMember \/ ReadDone
  \/ WalkOn \/ WalkEnds
  \/ StartChunk \/ ReadSector \/ ChunkRead \/ NextCluster \/ MemberRead

Next ==
  \/ \E size \in Sizes, nmemb \in Members : fread(size, nmemb)
  \/ \E a \in Offsets : fseek(a) \/ fseek(pos + a)
  \/ Step

(* A call that was entered runs on: nothing else runs in the kernel.       *)
Spec == Init /\ [][Next]_vars /\ WF_vars(Step)

-----------------------------------------------------------------------------
(* Properties *)

(* The variables have their types, and no loop counter goes negative.      *)
TypeOK ==
  /\ file \in Files
  /\ pos \in Nat
  /\ pc \in {"idle", "member", "walk", "chunk", "sector", "next"}
  /\ \A x \in {"i", "offset", "ahead", "off", "total", "chunk", "remain"} : loc[x] \in Nat
  /\ call.size \in Nat /\ call.nmemb \in Nat
  /\ out \in Seq(Nat)
  /\ res \in Int

(* Where byte n of the file is.                                            *)
HasByte(n) == n < Len(file.clusters) * ClusterSize
Address(n) == (file.clusters[n \div ClusterSize + 1] - 2) * ClusterSize + (n % ClusterSize)

Wanted == call.size * call.nmemb

(* A fread that reports success has copied, in order and completely, the   *)
(* bytes of the file from the position it started at, each from the        *)
(* cluster and sector the file allocation table puts it in, and has moved  *)
(* the position past them: the loops over members, clusters and sectors    *)
(* neither skip, repeat nor misplace a byte, and running out of memory or  *)
(* of clusters on the way is never reported as success.  No counter of the *)
(* loops goes negative (TypeOK).                                           *)
ExactRead ==
  /\ TypeOK
  /\ pc = "idle" /\ res > 0 =>
       /\ res = call.nmemb
       /\ Len(out) = Wanted
       /\ \A k \in 1 .. Wanted :
            HasByte(call.start + k - 1) /\ out[k] = Address(call.start + k - 1)
       /\ pos = call.start + Wanted

(* A read that lies in the first cluster of the file and finds memory      *)
(* succeeds, however it is cut into members.                               *)
FirstClusterReads ==
  pc = "idle" /\ Wanted > 0 /\ file.type = "FILE" /\ ~ call.lowmem
    /\ call.start + Wanted <= ClusterSize
  => res = call.nmemb

(* The position moves only with the success of the call that moves it, so  *)
(* a read that failed half way can be tried again.                         *)
MovesOnSuccess == [][pos' # pos => pc' = "idle" /\ res' >= 0]_vars

(* Every read returns, whatever the sizes and wherever the chain ends.     *)
ReadEnds == pc # "idle" ~> pc = "idle"

(* Comment in process_load_for_slot: the contents of the file are read     *)
(* into memory.  A read of the whole file, the only kind the loaders make, *)
(* succeeds when there is memory.                                          *)
WholeFileLoads ==
  pc = "idle" /\ file.type = "FILE" /\ ~ call.lowmem
    /\ call.nmemb = 1 /\ call.start = 0 /\ call.size = file.filesize
  => res = 1
=============================================================================
