--------------------------- MODULE FatReadProofs ----------------------------
(***************************************************************************)
(* fread and fseek (fs/file.c, fs/fat/fat16.c, kernel/streamer.c), for     *)
(* every size of sectors and clusters, every file and every size, number   *)
(* of members and offset.                                                  *)
(*                                                                         *)
(* The invariant counts what is in the buffer at each step of the nested   *)
(* loops.  It rests on a fact about the code: since fat16_read_internal    *)
(* takes the offset in the file from the size of a cluster, bytes are only *)
(* ever copied out of the first cluster; a loop that goes further copies   *)
(* nothing and ends in an error.                                           *)
(***************************************************************************)
EXTENDS FatRead, SequenceTheorems, TLAPS

Types ==
  /\ file \in Files
  /\ pos \in Nat
  /\ pc \in {"idle", "member", "walk", "chunk", "sector", "next"}
  /\ call \in [size : Nat, nmemb : Nat, start : Nat, lowmem : BOOLEAN]
  /\ loc \in [i : Nat, offset : Nat, cluster : Int, ahead : Nat, off : Nat,
              total : Nat, chunk : Nat, spos : Int, remain : Nat]
  /\ out \in Seq(Nat)
  /\ res \in Int

(* The first cluster's first byte.                                         *)
Base == (file.first - 2) * ClusterSize

FileClusters == {file.clusters[k] : k \in 1 .. Len(file.clusters)}

(* What is in the buffer are the bytes from start on, up to the end of the *)
(* first cluster at most.                                                  *)
Copied ==
  /\ Len(out) > 0 => call.start + Len(out) <= ClusterSize
  /\ \A k \in 1 .. Len(out) : out[k] = Base + call.start + k - 1

InCall ==
  /\ file.type = "FILE" /\ call.size > 0 /\ call.nmemb > 0 /\ call.start = pos
  /\ loc.i <= call.nmemb
  /\ loc.offset = call.start + loc.i * call.size
  /\ Copied

InMember ==
  /\ loc.i < call.nmemb
  /\ loc.off + loc.total = loc.offset + call.size
  /\ loc.cluster \in FileClusters \cup {-ENOMEM}
  /\ loc.cluster = -ENOMEM => call.lowmem

(* How much is in the buffer, and where the next byte comes from.          *)
AtMember == Len(out) = loc.offset - call.start

AtWalk ==
  /\ loc.total > 0
  /\ Len(out) = loc.off - call.start
  /\ loc.off < ClusterSize => loc.ahead = 0 /\ loc.cluster = file.first

AtChunk ==
  /\ loc.total > 0
  /\ Len(out) = loc.off - call.start
  /\ loc.off < ClusterSize => loc.cluster = file.first
  /\ loc.cluster \in FileClusters

AtSector ==
  /\ loc.remain <= loc.chunk /\ loc.chunk <= loc.total
  /\ Len(out) = loc.off - call.start + loc.chunk - loc.remain
  /\ loc.chunk > 0 => /\ loc.off + loc.chunk <= ClusterSize
                      /\ loc.spos = Base + loc.off + loc.chunk - loc.remain
  /\ loc.chunk < loc.total => loc.off + loc.chunk >= ClusterSize
  /\ loc.cluster \in FileClusters

AtNext ==
  /\ Len(out) = loc.off - call.start
  /\ loc.total > 0 => loc.off >= ClusterSize
  /\ loc.cluster \in FileClusters

(* A read that succeeded did not leave the first cluster.                  *)
OneCluster == res > 0 => call.start + Wanted <= ClusterSize

FInv ==
  /\ Types
  /\ pc = "idle" => ExactRead /\ FirstClusterReads /\ OneCluster
  /\ pc # "idle" => InCall
  /\ pc \in {"walk", "chunk", "sector", "next"} => InMember
  /\ pc = "member" => AtMember
  /\ pc = "walk" => AtWalk
  /\ pc = "chunk" => AtChunk
  /\ pc = "sector" => AtSector
  /\ pc = "next" => AtNext

-----------------------------------------------------------------------------
(* Arithmetic, and the file *)

LEMMA Assoc == \A a, b, c \in Int : (a * b) * c = a * (b * c)
OBVIOUS

LEMMA DivMod ==
  \A a \in Int, b \in Nat \ {0} :
    a \div b \in Int /\ a % b \in Int /\ a % b \in 0 .. b - 1 /\ (a \div b) * b + (a % b) = a
OBVIOUS

LEMMA DivModSmall == \A a \in Nat, b \in Nat \ {0} : a < b => a % b = a /\ a \div b = 0
OBVIOUS

LEMMA DivNat == \A a \in Nat, b \in Nat \ {0} : a \div b \in Nat
OBVIOUS

LEMMA OneMore == \A a, b, c \in Nat : a < b => a * c + c <= b * c
OBVIOUS

LEMMA Product == \A a, b \in Nat \ {0} : a * b \in Nat \ {0}
OBVIOUS

LEMMA ProductInt == \A a, b \in Int : a * b \in Int
OBVIOUS

LEMMA Distributes == \A a, b \in Int : (a + 1) * b = a * b + b
OBVIOUS

LEMMA ClusterSizeOK == ClusterSize \in Nat \ {0} /\ SectorSize \in Nat \ {0}
BY FatAssumption, Product DEF ClusterSize

(* The first cluster is one of the file's, and has room on the disk.       *)
LEMMA FirstOK ==
  ASSUME Types
  PROVE  /\ file.first \in FileClusters
         /\ FileClusters \subseteq Nat \ {0, 1}
         /\ file.first = file.clusters[1]
         /\ Len(file.clusters) \in Nat \ {0}
         /\ Base \in Nat
<1>1. FileOK(file) BY FatAssumption DEF Types
<1>2. file.clusters \in Seq(Nat \ {0, 1}) /\ file.clusters # <<>> /\ file.first = file.clusters[1]
  BY <1>1 DEF FileOK
<1>3. Len(file.clusters) \in Nat \ {0} /\ \A k \in 1 .. Len(file.clusters) : file.clusters[k] \in Nat \ {0, 1}
  BY <1>2
<1>4. file.first \in FileClusters /\ FileClusters \subseteq Nat \ {0, 1}
  BY <1>2, <1>3 DEF FileClusters
<1>5. file.first - 2 \in Nat
  <2>1. file.first \in Nat /\ file.first # 0 /\ file.first # 1 BY <1>4
  <2> QED BY <2>1
<1>6. ClusterSize \in Nat BY ClusterSizeOK
<1>7. Base \in Nat BY <1>5, <1>6 DEF Base
<1> QED BY <1>2, <1>3, <1>4, <1>7

(* The bytes of the first cluster lie behind one another.                  *)
LEMMA AddressOK ==
  ASSUME Types, NEW n \in Nat, n < ClusterSize
  PROVE  HasByte(n) /\ Address(n) = Base + n
<1>1. n \div ClusterSize = 0 /\ n % ClusterSize = n BY ClusterSizeOK, DivModSmall
<1>2. file.first = file.clusters[1] /\ Len(file.clusters) \in Nat \ {0} BY FirstOK
<1>3. Address(n) = Base + n BY <1>1, <1>2 DEF Address, Base
<1>4. ClusterSize <= Len(file.clusters) * ClusterSize
  <2>1. 0 \in Nat /\ Len(file.clusters) \in Nat /\ ClusterSize \in Nat /\ 0 < Len(file.clusters)
    BY <1>2, ClusterSizeOK
  <2>2. 0 * ClusterSize + ClusterSize <= Len(file.clusters) * ClusterSize BY <2>1, OneMore
  <2>3. 0 * ClusterSize + ClusterSize = ClusterSize BY <2>1
  <2> QED BY <2>2, <2>3
<1>5. HasByte(n)
  <2>1. Len(file.clusters) * ClusterSize \in Int BY <1>2, ClusterSizeOK
  <2> QED BY <1>4, <2>1, ClusterSizeOK DEF HasByte
<1> QED BY <1>3, <1>5

(* The entry of one of the file's clusters is another one, or ends the     *)
(* chain; or the table could not be read.                                  *)
LEMMA EntryOK ==
  ASSUME Types, NEW cluster \in FileClusters \cup {-ENOMEM},
         cluster = -ENOMEM => call.lowmem,
         fat16_check_cluster_entry(fat16_get_fat_entry(cluster)) >= 0
  PROVE  \/ fat16_get_fat_entry(cluster) \in FileClusters
         \/ call.lowmem /\ fat16_get_fat_entry(cluster) = -ENOMEM
<1>1. CASE call.lowmem BY <1>1 DEF fat16_get_fat_entry
<1>2. CASE ~ call.lowmem
  <2>1. fat16_get_fat_entry(cluster) = file.fat[cluster] /\ cluster \in FileClusters
    BY <1>2 DEF fat16_get_fat_entry
  <2>2. PICK k \in 1 .. Len(file.clusters) : cluster = file.clusters[k] BY <2>1 DEF FileClusters
  <2>3. FileOK(file) BY FatAssumption DEF Types
  <2>4. Len(file.clusters) \in Nat BY FirstOK
  <2>5. CASE k = Len(file.clusters)
    <3>1. file.fat[cluster] \in EndOfChain BY <2>2, <2>3, <2>5 DEF FileOK
    <3>2. fat16_check_cluster_entry(file.fat[cluster]) = -EIO BY <3>1 DEF fat16_check_cluster_entry
    <3> QED BY <2>1, <3>2 DEF EIO
  <2>6. CASE k # Len(file.clusters)
    <3>1. k \in 1 .. Len(file.clusters) - 1 /\ k + 1 \in 1 .. Len(file.clusters) BY <2>4, <2>6
    <3>2. file.fat[cluster] = file.clusters[k + 1] BY <2>2, <2>3, <3>1 DEF FileOK
    <3> QED BY <2>1, <3>1, <3>2 DEF FileClusters
  <2> QED BY <2>5, <2>6
<1> QED BY <1>1, <1>2

(* TypeOK is the part of the types that ExactRead names.                   *)
LEMMA TypesOK == Types => TypeOK
BY DEF Types, TypeOK

-----------------------------------------------------------------------------
(* The steps *)

LEMMA NoLocalsOK ==
  NoLocals \in [i : Nat, offset : Nat, cluster : Int, ahead : Nat, off : Nat,
                total : Nat, chunk : Nat, spos : Int, remain : Nat]
BY DEF NoLocals

LEMMA InitFInv == Init => FInv
<1> SUFFICES ASSUME Init PROVE FInv OBVIOUS
<1>1. NoCall \in [size : Nat, nmemb : Nat, start : Nat, lowmem : BOOLEAN] BY DEF NoCall
<1>2. Types BY <1>1, NoLocalsOK DEF Init, Types
<1>3. FirstClusterReads BY DEF Init, FirstClusterReads, Wanted, NoCall
<1>4. ExactRead BY <1>2, TypesOK DEF Init, ExactRead
<1> QED BY <1>2, <1>3, <1>4 DEF FInv, Init, OneCluster

(* The read lies in the first cluster and there is memory.                 *)
Fits == ~ call.lowmem /\ call.start + Wanted <= ClusterSize

LEMMA FitsOK ==
  ASSUME Types, InCall, Fits, loc.i < call.nmemb
  PROVE  loc.offset + call.size <= ClusterSize
<1>1. call.size \in Nat /\ call.nmemb \in Nat /\ call.start \in Nat /\ loc.i \in Nat BY DEF Types
<1>2. loc.i * call.size + call.size <= call.nmemb * call.size BY <1>1, OneMore
<1>3. Wanted = call.nmemb * call.size BY <1>1 DEF Wanted
<1>4. loc.i * call.size \in Int /\ call.nmemb * call.size \in Int /\ ClusterSize \in Int
  BY <1>1, ClusterSizeOK
<1> QED BY <1>1, <1>2, <1>3, <1>4 DEF Fits, InCall

(* A read fails, which a read that fits does not.                          *)
LEMMA FailsOK ==
  ASSUME FInv, NEW r \in Int, r < 0, ~ Fits, ReadFails(r)
  PROVE  FInv'
<1>1. /\ res' = r /\ pc' = "idle" /\ loc' = NoLocals /\ UNCHANGED <<file, pos, call, out>>
  BY DEF ReadFails, Return
<1>2. Types' BY <1>1, NoLocalsOK DEF FInv, Types
<1>3. TypeOK'
  <2>1. (Types => TypeOK)' BY TypesOK, PTL
  <2> QED BY <1>2, <2>1
<1>4. ExactRead' BY <1>1, <1>3 DEF ExactRead
<1>5. FirstClusterReads' BY <1>1 DEF FirstClusterReads, Fits, Wanted
<1> QED BY <1>1, <1>2, <1>4, <1>5 DEF FInv, OneCluster

LEMMA freadOK ==
  ASSUME FInv, NEW size \in Nat, NEW nmemb \in Nat, fread(size, nmemb)
  PROVE  FInv'
<1>1. PICK lowmem \in BOOLEAN :
        call' = [size |-> size, nmemb |-> nmemb, start |-> pos, lowmem |-> lowmem]
  BY DEF fread
<1>2. Types /\ pos \in Nat /\ out' = <<>> /\ file' = file /\ pos' = pos
  BY DEF fread, FInv, Types
<1>3. CASE size = 0 \/ nmemb = 0 \/ file.type # "FILE"
  <2>1. res' = -EINVAGS /\ pc' = "idle" /\ loc' = NoLocals BY <1>3 DEF fread, Return
  <2>2. Types' BY <1>1, <1>2, <2>1, NoLocalsOK DEF Types, EINVAGS
  <2>3. TypeOK'
    <3>1. (Types => TypeOK)' BY TypesOK, PTL
    <3> QED BY <2>2, <3>1
  <2>4. ExactRead' BY <2>1, <2>3 DEF ExactRead, EINVAGS
  <2>5. FirstClusterReads'
    <3>1. size = 0 \/ nmemb = 0 => size * nmemb = 0 OBVIOUS
    <3> QED BY <1>1, <1>2, <1>3, <3>1 DEF FirstClusterReads, Wanted
  <2> QED BY <2>1, <2>2, <2>4, <2>5 DEF FInv, OneCluster, EINVAGS
<1>4. CASE ~(size = 0 \/ nmemb = 0 \/ file.type # "FILE")
  <2>1. pc' = "member" /\ loc' = [NoLocals EXCEPT !.offset = pos] /\ res' = 0
    BY <1>4 DEF fread
  <2>2. /\ loc' \in [i : Nat, offset : Nat, cluster : Int, ahead : Nat, off : Nat,
                     total : Nat, chunk : Nat, spos : Int, remain : Nat]
        /\ loc'.i = 0 /\ loc'.offset = pos
    BY <1>2, <2>1 DEF NoLocals
  <2>3. Types' BY <1>1, <1>2, <2>1, <2>2 DEF Types
  <2>4. Len(out') = 0 BY <1>2
  <2>5. Copied' BY <2>4 DEF Copied
  <2>6. InCall'
    <3>1. 0 * size = 0 OBVIOUS
    <3> QED BY <1>1, <1>2, <1>4, <2>2, <2>5, <3>1 DEF InCall
  <2>7. AtMember' BY <1>1, <1>2, <2>2, <2>4 DEF AtMember
  <2> QED BY <2>1, <2>3, <2>6, <2>7 DEF FInv
<1> QED BY <1>3, <1>4

LEMMA fseekOK ==
  ASSUME FInv, NEW a \in Int, fseek(a)
  PROVE  FInv'
<1>1. /\ pc = "idle" /\ call' = NoCall /\ out' = <<>> /\ UNCHANGED <<file, pc, loc>>
      /\ \/ res' = -EINVAGS /\ pos' = pos
         \/ res' = 0 /\ pos' = a /\ a \in 0 .. file.filesize - 1
  BY DEF fseek
<1>2. NoCall \in [size : Nat, nmemb : Nat, start : Nat, lowmem : BOOLEAN] /\ NoCall.size * NoCall.nmemb = 0
  BY DEF NoCall
<1>3. Types'
  <2>1. file.filesize \in Nat BY FatAssumption DEF FInv, Types, FileOK
  <2>2. pos' \in Nat /\ res' \in Int
    <3>1. CASE res' = 0 /\ pos' = a /\ a \in 0 .. file.filesize - 1 BY <2>1, <3>1
    <3>2. CASE res' = -EINVAGS /\ pos' = pos BY <3>2 DEF FInv, Types, EINVAGS
    <3> QED BY <1>1, <3>1, <3>2
  <2> QED BY <1>1, <1>2, <2>2 DEF FInv, Types
<1>4. TypeOK'
  <2>1. (Types => TypeOK)' BY TypesOK, PTL
  <2> QED BY <1>3, <2>1
<1>5. ExactRead' BY <1>1, <1>4 DEF ExactRead, EINVAGS
<1>6. FirstClusterReads' BY <1>1, <1>2 DEF FirstClusterReads, Wanted
<1> QED BY <1>1, <1>3, <1>5, <1>6 DEF FInv, OneCluster, EINVAGS

(* fat16_read_internal is called for the next member.                      *)
LEMMA NextMemberOK ==
  ASSUME FInv, NextMember
  PROVE  FInv'
<1>1. /\ Types /\ InCall /\ AtMember BY DEF FInv, NextMember
<1>2. /\ loc.i < call.nmemb
      /\ loc' = [loc EXCEPT !.total = call.size, !.off = loc.offset,
                   !.cluster = file.first, !.ahead = loc.offset \div ClusterSize]
      /\ pc' = "walk" /\ UNCHANGED <<file, pos, call, out, res>>
  BY DEF NextMember
<1>3. /\ loc.offset \div ClusterSize \in Nat
      /\ loc.offset < ClusterSize => loc.offset \div ClusterSize = 0
  BY <1>1, ClusterSizeOK, DivNat, DivModSmall DEF Types
<1>4. file.first \in Int /\ file.first \in FileClusters BY <1>1, FirstOK
<1>5. /\ loc' \in [i : Nat, offset : Nat, cluster : Int, ahead : Nat, off : Nat,
                   total : Nat, chunk : Nat, spos : Int, remain : Nat]
      /\ loc'.i = loc.i /\ loc'.offset = loc.offset /\ loc'.total = call.size
      /\ loc'.off = loc.offset /\ loc'.cluster = file.first
      /\ loc'.ahead = loc.offset \div ClusterSize
  BY <1>1, <1>2, <1>3, <1>4 DEF Types
<1>6. Types' BY <1>1, <1>2, <1>5 DEF Types
<1>7. InCall' BY <1>1, <1>2, <1>5 DEF InCall, Copied, Base
<1>8. file.first # -ENOMEM BY <1>1, FirstOK DEF ENOMEM
<1>9. InMember' BY <1>1, <1>2, <1>4, <1>5, <1>8 DEF InMember, FileClusters, Types
<1>10. AtWalk' BY <1>1, <1>2, <1>3, <1>5 DEF AtWalk, AtMember, InCall, Types
<1> QED BY <1>2, <1>6, <1>7, <1>9, <1>10 DEF FInv

(* All members are read: the buffer holds what was asked for.              *)
LEMMA ReadDoneOK ==
  ASSUME FInv, ReadDone
  PROVE  FInv'
<1>1. Types /\ InCall /\ AtMember BY DEF FInv, ReadDone
<1>2. /\ loc.i = call.nmemb /\ pos' = loc.offset /\ res' = call.nmemb /\ pc' = "idle"
      /\ loc' = NoLocals /\ UNCHANGED <<file, call, out>>
  BY DEF ReadDone, Return
<1>3. Types' BY <1>1, <1>2, NoLocalsOK DEF Types
<1>4. TypeOK'
  <2>1. (Types => TypeOK)' BY TypesOK, PTL
  <2> QED BY <1>3, <2>1
<1>5. /\ call.size \in Nat \ {0} /\ call.nmemb \in Nat \ {0} /\ call.start \in Nat
      /\ loc.offset \in Nat /\ ClusterSize \in Nat
  BY <1>1, ClusterSizeOK DEF Types, InCall
<1>6. Wanted \in Nat \ {0} /\ Wanted = call.nmemb * call.size
  BY <1>5, Product DEF Wanted
<1>7. loc.offset = call.start + Wanted BY <1>1, <1>2, <1>6 DEF InCall
<1>8. Len(out) = Wanted BY <1>1, <1>5, <1>6, <1>7 DEF AtMember
<1>9. ASSUME NEW k \in 1 .. Wanted
      PROVE  HasByte(call.start + k - 1) /\ out[k] = Address(call.start + k - 1)
  <2>1. call.start + Wanted <= ClusterSize BY <1>1, <1>6, <1>8 DEF InCall, Copied
  <2>2. call.start + k - 1 \in Nat /\ call.start + k - 1 < ClusterSize BY <1>5, <1>6, <2>1
  <2>3. HasByte(call.start + k - 1) /\ Address(call.start + k - 1) = Base + (call.start + k - 1)
    BY <1>1, <2>2, AddressOK
  <2>4. out[k] = Base + call.start + k - 1 BY <1>1, <1>8 DEF InCall, Copied
  <2>5. Base \in Nat BY <1>1, FirstOK
  <2> QED BY <1>5, <1>6, <2>3, <2>4, <2>5
<1>10. ExactRead'
  <2>1. Wanted' = Wanted BY <1>2 DEF Wanted
  <2>2. \A k \in 1 .. Wanted : HasByte(call.start + k - 1)' /\ out'[k] = Address(call.start + k - 1)'
    BY <1>2, <1>9 DEF HasByte, Address
  <2> QED BY <1>2, <1>4, <1>7, <1>8, <2>1, <2>2 DEF ExactRead
<1>11. FirstClusterReads' BY <1>2 DEF FirstClusterReads
<1>12. OneCluster'
  <2>1. call.start + Wanted <= ClusterSize BY <1>1, <1>6, <1>8 DEF InCall, Copied
  <2> QED BY <1>2, <2>1 DEF OneCluster, Wanted
<1> QED BY <1>2, <1>3, <1>10, <1>11, <1>12 DEF FInv

(* fat16_get_cluster_for_offset.                                           *)
LEMMA WalkOnOK ==
  ASSUME FInv, WalkOn
  PROVE  FInv'
<1>1. Types /\ InCall /\ InMember /\ AtWalk BY DEF FInv, WalkOn
<1> DEFINE entry == fat16_get_fat_entry(loc.cluster)
<1>2. loc.ahead > 0 /\ pc = "walk" BY DEF WalkOn
<1>3. loc.off >= ClusterSize
  <2>1. ~(loc.off < ClusterSize) BY <1>1, <1>2 DEF AtWalk
  <2> QED BY <1>1, <2>1, ClusterSizeOK DEF Types
<1>4. CASE fat16_check_cluster_entry(entry) < 0
  <2>1. ReadFails(-EIO) BY <1>4 DEF WalkOn
  <2>2. ~ Fits
    <3> SUFFICES ASSUME Fits PROVE FALSE OBVIOUS
    <3>1. loc.offset + call.size <= ClusterSize BY <1>1, FitsOK DEF InMember
    <3>2. loc.off + loc.total = loc.offset + call.size /\ loc.total > 0
      BY <1>1 DEF InMember, AtWalk
    <3>3. loc.off \in Nat /\ loc.total \in Nat /\ loc.offset \in Nat /\ call.size \in Nat
      BY <1>1 DEF Types
    <3> QED BY <1>3, <3>1, <3>2, <3>3, ClusterSizeOK
  <2>3. -EIO \in Int /\ -EIO < 0 BY DEF EIO
  <2> QED BY <2>1, <2>2, <2>3, FailsOK
<1>5. CASE ~(fat16_check_cluster_entry(entry) < 0)
  <2>1. loc' = [loc EXCEPT !.cluster = entry, !.ahead = loc.ahead - 1]
        /\ UNCHANGED <<file, pos, call, out, pc, res>>
    BY <1>5 DEF WalkOn
  <2>2. fat16_check_cluster_entry(entry) >= 0
    BY <1>5 DEF fat16_check_cluster_entry, EIO
  <2>3. entry \in FileClusters \cup {-ENOMEM} /\ (entry = -ENOMEM => call.lowmem)
    <3>1. \/ entry \in FileClusters
          \/ call.lowmem /\ entry = -ENOMEM
      BY <1>1, <2>2, EntryOK DEF InMember
    <3>2. -ENOMEM \notin FileClusters BY <1>1, FirstOK DEF ENOMEM
    <3> QED BY <3>1, <3>2
  <2>4. entry \in Int BY <1>1, <2>3, FirstOK DEF ENOMEM
  <2> HIDE DEF entry
  <2>5. loc.ahead - 1 \in Nat BY <1>1, <1>2 DEF Types
  <2>6. /\ loc' \in [i : Nat, offset : Nat, cluster : Int, ahead : Nat, off : Nat,
                     total : Nat, chunk : Nat, spos : Int, remain : Nat]
        /\ loc'.i = loc.i /\ loc'.offset = loc.offset /\ loc'.total = loc.total
        /\ loc'.off = loc.off /\ loc'.cluster = entry
    BY <1>1, <2>1, <2>4, <2>5 DEF Types
  <2>7. Types' BY <1>1, <2>1, <2>6 DEF Types
  <2>8. InCall' BY <1>1, <2>1, <2>6 DEF InCall, Copied, Base
  <2>9. InMember' BY <1>1, <2>1, <2>3, <2>6 DEF InMember, FileClusters
  <2>10. ~(loc.off < ClusterSize) BY <1>1, <1>2 DEF AtWalk
  <2>11. AtWalk' BY <1>1, <2>1, <2>6, <2>10 DEF AtWalk
  <2> QED BY <1>2, <2>1, <2>7, <2>8, <2>9, <2>11 DEF FInv
<1> QED BY <1>4, <1>5

LEMMA WalkEndsOK ==
  ASSUME FInv, WalkEnds
  PROVE  FInv'
<1>1. Types /\ InCall /\ InMember /\ AtWalk BY DEF FInv, WalkEnds
<1>2. CASE loc.cluster < 0
  <2>1. ReadFails(loc.cluster) BY <1>2 DEF WalkEnds
  <2>2. loc.cluster # file.first BY <1>1, <1>2, FirstOK
  <2>3. ~ Fits
    <3> SUFFICES ASSUME Fits PROVE FALSE OBVIOUS
    <3>1. loc.offset + call.size <= ClusterSize BY <1>1, FitsOK DEF InMember
    <3>2. loc.off < ClusterSize
      <4>1. loc.off + loc.total = loc.offset + call.size /\ loc.total > 0
        BY <1>1 DEF InMember, AtWalk
      <4>2. loc.off \in Nat /\ loc.total \in Nat /\ loc.offset \in Nat /\ call.size \in Nat
        BY <1>1 DEF Types
      <4> QED BY <3>1, <4>1, <4>2, ClusterSizeOK
    <3> QED BY <1>1, <2>2, <3>2 DEF AtWalk
  <2>4. loc.cluster \in Int BY <1>1 DEF Types
  <2> QED BY <1>2, <2>1, <2>3, <2>4, FailsOK
<1>3. CASE ~(loc.cluster < 0)
  <2>1. pc' = "chunk" /\ UNCHANGED <<file, pos, call, out, loc, res>> BY <1>3 DEF WalkEnds
  <2>2. loc.cluster \in FileClusters BY <1>1, <1>3 DEF InMember, ENOMEM
  <2>3. Types' /\ InCall' /\ InMember' /\ AtChunk'
    BY <1>1, <2>1, <2>2
       DEF Types, InCall, InMember, AtWalk, AtChunk, Copied, Base, FileClusters
  <2> QED BY <2>1, <2>3 DEF FInv
<1> QED BY <1>2, <1>3

(* fat16_read_internal_from_stream: a chunk of a cluster is begun.         *)
LEMMA StartChunkOK ==
  ASSUME FInv, StartChunk
  PROVE  FInv'
<1>1. Types /\ InCall /\ InMember /\ AtChunk BY DEF FInv, StartChunk
<1> DEFINE n == TotalToRead(loc.off, loc.total)
<1>2. /\ loc.off \in Nat /\ loc.total \in Nat /\ ClusterSize \in Nat /\ ClusterSize \in Nat \ {0}
      /\ loc.total > 0 /\ loc.offset \in Nat /\ call.size \in Nat /\ call.start \in Nat
  BY <1>1, ClusterSizeOK DEF Types, AtChunk
<1>3. /\ n \in Int /\ n <= loc.total /\ n <= ClusterSize - loc.off
      /\ n = loc.total \/ n = ClusterSize - loc.off
  BY <1>2 DEF TotalToRead, Smaller
<1>4. ASSUME Fits PROVE n > 0 /\ ~ call.lowmem
  <2>1. loc.offset + call.size <= ClusterSize BY <1>1, <1>4, FitsOK DEF InMember
  <2>2. loc.off + loc.total <= ClusterSize BY <1>1, <2>1 DEF InMember
  <2> HIDE DEF n
  <2> QED BY <1>2, <1>3, <1>4, <2>2 DEF Fits
<1>5. CASE n < 0
  <2>1. ReadFails(-EINVAGS) BY <1>5 DEF StartChunk
  <2>2. ~ Fits BY <1>3, <1>4, <1>5
  <2>3. -EINVAGS \in Int /\ -EINVAGS < 0 BY DEF EINVAGS
  <2> QED BY <2>1, <2>2, <2>3, FailsOK
<1>6. CASE ~(n < 0) /\ call.lowmem
  <2>1. ReadFails(-ENOMEM) BY <1>6 DEF StartChunk
  <2>2. ~ Fits BY <1>4, <1>6
  <2>3. -ENOMEM \in Int /\ -ENOMEM < 0 BY DEF ENOMEM
  <2> QED BY <2>1, <2>2, <2>3, FailsOK
<1>7. CASE ~(n < 0) /\ ~ call.lowmem
  <2> DEFINE s == fat16_cluster_to_sector(loc.cluster) * SectorSize + (loc.off % ClusterSize)
  <2>1. /\ loc' = [loc EXCEPT !.chunk = n, !.remain = n, !.spos = s]
        /\ pc' = "sector" /\ UNCHANGED <<file, pos, call, out, res>>
    BY <1>7 DEF StartChunk
  <2>2. n \in Nat BY <1>3, <1>7
  <2>3. loc.cluster \in Int /\ SectorsPerCluster \in Int /\ SectorSize \in Int
    BY <1>1, FatAssumption DEF Types
  <2>4. fat16_cluster_to_sector(loc.cluster) * SectorSize = (loc.cluster - 2) * ClusterSize
    <3>1. loc.cluster - 2 \in Int BY <2>3
    <3> QED BY <2>3, <3>1, Assoc DEF fat16_cluster_to_sector, ClusterSize
  <2>5. loc.off % ClusterSize \in Int
    <3>1. loc.off \in Int /\ ClusterSize \in Nat \ {0} BY <1>2
    <3> QED BY <3>1, DivMod
  <2>6. (loc.cluster - 2) * ClusterSize \in Int
    <3>1. loc.cluster - 2 \in Int /\ ClusterSize \in Int BY <1>2, <2>3
    <3> QED BY <3>1, ProductInt
  <2>7. s \in Int BY <2>4, <2>5, <2>6
  <2>8. loc.off < ClusterSize => s = Base + loc.off
    <3> SUFFICES ASSUME loc.off < ClusterSize PROVE s = Base + loc.off OBVIOUS
    <3>1. loc.cluster = file.first BY <1>1 DEF AtChunk
    <3>2. loc.off % ClusterSize = loc.off BY <1>2, DivModSmall
    <3> QED BY <2>4, <3>1, <3>2 DEF Base
  <2> HIDE DEF n, s
  <2>9. /\ loc' \in [i : Nat, offset : Nat, cluster : Int, ahead : Nat, off : Nat,
                     total : Nat, chunk : Nat, spos : Int, remain : Nat]
        /\ loc'.i = loc.i /\ loc'.offset = loc.offset /\ loc'.total = loc.total
        /\ loc'.off = loc.off /\ loc'.cluster = loc.cluster
        /\ loc'.chunk = n /\ loc'.remain = n /\ loc'.spos = s
    BY <1>1, <2>1, <2>2, <2>7 DEF Types
  <2>10. Types' BY <1>1, <2>1, <2>9 DEF Types
  <2>11. InCall' BY <1>1, <2>1, <2>9 DEF InCall, Copied, Base
  <2>12. InMember' BY <1>1, <2>1, <2>9 DEF InMember, FileClusters
  <2>13. AtSector'
    <3>1. n > 0 => loc.off < ClusterSize BY <1>2, <1>3
    <3>2. Base \in Int /\ Base' = Base BY <1>1, <2>1, FirstOK DEF Base
    <3>3. Len(out) = loc.off - call.start /\ Len(out') = Len(out) BY <1>1, <2>1 DEF AtChunk
    <3>4. n > 0 => loc.off + n <= ClusterSize /\ s = Base + loc.off + n - n
      BY <1>2, <1>3, <2>2, <2>8, <3>1, <3>2
    <3>5. n < loc.total => loc.off + n >= ClusterSize BY <1>2, <1>3, <2>2
    <3>6. Len(out) = loc.off - call.start + n - n BY <1>2, <2>2, <3>3
    <3>7. loc.cluster \in FileClusters' BY <1>1, <2>1 DEF AtChunk, FileClusters
    <3> QED BY <1>2, <1>3, <2>1, <2>2, <2>9, <3>2, <3>3, <3>4, <3>5, <3>6, <3>7 DEF AtSector
  <2> QED BY <2>1, <2>10, <2>11, <2>12, <2>13 DEF FInv
<1> QED BY <1>5, <1>6, <1>7

(* diskstream_read: what an iteration copies goes on where the last one    *)
(* stopped.                                                                *)
LEMMA ReadSectorOK ==
  ASSUME FInv, ReadSector
  PROVE  FInv'
<1>1. Types /\ InCall /\ InMember /\ AtSector BY DEF FInv, ReadSector
<1> DEFINE lba == loc.spos \div SectorSize
           o == loc.spos % SectorSize
           n == Smaller(SectorSize - o, loc.remain)
           piece == [k \in 1 .. n |-> lba * SectorSize + o + k - 1]
<1>2. /\ pc = "sector" /\ loc.remain > 0 /\ out' = out \o piece
      /\ loc' = [loc EXCEPT !.spos = loc.spos + n, !.remain = loc.remain - n]
      /\ UNCHANGED <<file, pos, call, pc, res>>
  BY DEF ReadSector
<1>3. /\ loc.spos \in Int /\ loc.remain \in Nat /\ loc.chunk \in Nat /\ loc.off \in Nat
      /\ loc.total \in Nat /\ call.start \in Nat /\ SectorSize \in Nat \ {0}
      /\ ClusterSize \in Nat
  BY <1>1, ClusterSizeOK DEF Types
<1>4. lba \in Int /\ o \in 0 .. SectorSize - 1 /\ lba * SectorSize + o = loc.spos
  BY <1>3, DivMod
<1>5. lba * SectorSize \in Int BY <1>3, <1>4
<1> HIDE DEF lba, o
<1>6. n \in Nat /\ n <= loc.remain
  <2>1. SectorSize - o \in Nat BY <1>3, <1>4
  <2> QED BY <1>3, <2>1 DEF Smaller
<1>7. loc.chunk > 0 BY <1>1, <1>2, <1>3 DEF AtSector
<1>8. /\ loc.off + loc.chunk <= ClusterSize
      /\ loc.spos = Base + loc.off + loc.chunk - loc.remain
      /\ Base \in Nat
  BY <1>1, <1>7, FirstOK DEF AtSector
<1>9. loc.spos \in Nat BY <1>1, <1>3, <1>8 DEF AtSector
<1>10. \A k \in 1 .. n : piece[k] = loc.spos + k - 1
  <2> TAKE k \in 1 .. n
  <2>1. piece[k] = lba * SectorSize + o + k - 1 OBVIOUS
  <2> QED BY <1>3, <1>4, <1>5, <1>6, <2>1
<1> HIDE DEF n
<1>11. piece \in Seq(Nat) /\ Len(piece) = n
  <2>1. \A k \in 1 .. n : piece[k] \in Nat BY <1>6, <1>9, <1>10
  <2>2. piece \in [1 .. n -> Nat] BY <2>1
  <2> QED BY <1>6, <2>2
<1> HIDE DEF piece
<1>O. out \in Seq(Nat) /\ out' \in Seq(Nat)
      /\ Len(out') = Len(out) + Len(piece)
      /\ \A k \in 1 .. Len(out) + Len(piece) :
           out'[k] = IF k <= Len(out) THEN out[k] ELSE piece[k - Len(out)]
  <2>1. out \in Seq(Nat) BY <1>1 DEF Types
  <2> QED BY <1>2, <1>11, <2>1, ConcatProperties
<1>L. Len(out) \in Nat /\ Len(out') = Len(out) + n BY <1>11, <1>O, LenProperties
<1>12. \A k \in 1 .. Len(out) + n :
         out'[k] = IF k <= Len(out) THEN out[k] ELSE piece[k - Len(out)]
  BY <1>11, <1>O
<1>13. Len(out) = loc.off - call.start + loc.chunk - loc.remain
  BY <1>1 DEF AtSector
<1>14. /\ loc' \in [i : Nat, offset : Nat, cluster : Int, ahead : Nat, off : Nat,
                    total : Nat, chunk : Nat, spos : Int, remain : Nat]
       /\ loc'.i = loc.i /\ loc'.offset = loc.offset /\ loc'.total = loc.total
       /\ loc'.off = loc.off /\ loc'.cluster = loc.cluster /\ loc'.chunk = loc.chunk
       /\ loc'.spos = loc.spos + n /\ loc'.remain = loc.remain - n
  <2>1. loc.spos + n \in Int /\ loc.remain - n \in Nat BY <1>3, <1>6
  <2> QED BY <1>1, <1>2, <2>1 DEF Types
<1>15. Types' BY <1>1, <1>2, <1>14, <1>O DEF Types
<1>16. Copied'
  <2>1. call.start + Len(out') <= ClusterSize
    <3>1. call.start + Len(out) = loc.off + loc.chunk - loc.remain BY <1>3, <1>13, <1>L
    <3>2. call.start + Len(out') = loc.off + loc.chunk - loc.remain + n BY <1>3, <1>6, <1>L, <3>1
    <3>3. loc.off + loc.chunk <= ClusterSize BY <1>8
    <3> QED BY <1>3, <1>6, <3>2, <3>3
  <2>2. ASSUME NEW k \in 1 .. Len(out') PROVE out'[k] = Base + call.start + k - 1
    <3>0. k \in 1 .. Len(out) + n BY <1>L
    <3>1. CASE k <= Len(out)
      <4>1. k \in 1 .. Len(out) BY <1>6, <1>L, <3>0, <3>1
      <4>2. out'[k] = out[k] BY <1>12, <3>0, <3>1
      <4> QED BY <1>1, <4>1, <4>2 DEF InCall, Copied
    <3>2. CASE ~(k <= Len(out))
      <4>1. k - Len(out) \in 1 .. n BY <1>6, <1>L, <3>0, <3>2
      <4>2. out'[k] = loc.spos + (k - Len(out)) - 1 BY <1>10, <1>12, <3>0, <3>2, <4>1
      <4>3. loc.spos = Base + call.start + Len(out)
        <5>1. call.start + Len(out) = loc.off + loc.chunk - loc.remain BY <1>3, <1>13, <1>L
        <5>2. loc.spos = Base + (loc.off + loc.chunk - loc.remain) BY <1>3, <1>8
        <5>3. loc.spos = Base + (call.start + Len(out)) BY <5>1, <5>2
        <5> QED BY <1>3, <1>8, <1>L, <5>3
      <4>4. k \in Int BY <1>6, <1>L, <3>0
      <4> QED BY <1>3, <1>8, <1>L, <4>2, <4>3, <4>4
    <3> QED BY <3>1, <3>2
  <2>3. Base' = Base BY <1>2 DEF Base
  <2> QED BY <1>2, <2>1, <2>2, <2>3 DEF Copied
<1>17. InCall' BY <1>1, <1>2, <1>14, <1>16 DEF InCall
<1>18. InMember' BY <1>1, <1>2, <1>14 DEF InMember, FileClusters
<1>19. AtSector'
  <2>1. Base' = Base /\ FileClusters' = FileClusters BY <1>2 DEF Base, FileClusters
  <2>2. loc.remain <= loc.chunk BY <1>1 DEF AtSector
  <2>3. loc.remain - n <= loc.chunk BY <1>3, <1>6, <2>2
  <2>4. Len(out') = loc.off - call.start + loc.chunk - (loc.remain - n) BY <1>3, <1>6, <1>13, <1>L
  <2>5. loc.spos + n = Base + loc.off + loc.chunk - (loc.remain - n) BY <1>3, <1>6, <1>8
  <2>6. /\ loc.chunk <= loc.total /\ loc.cluster \in FileClusters
        /\ loc.chunk < loc.total => loc.off + loc.chunk >= ClusterSize
    BY <1>1 DEF AtSector
  <2> QED BY <1>2, <1>8, <1>14, <2>1, <2>3, <2>4, <2>5, <2>6 DEF AtSector
<1> QED BY <1>2, <1>15, <1>17, <1>18, <1>19 DEF FInv

LEMMA ChunkReadOK ==
  ASSUME FInv, ChunkRead
  PROVE  FInv'
<1>1. Types /\ InCall /\ InMember /\ AtSector BY DEF FInv, ChunkRead
<1>2. /\ loc.remain = 0 /\ pc' = "next" /\ UNCHANGED <<file, pos, call, out, res>>
      /\ loc' = [loc EXCEPT !.total = loc.total - loc.chunk, !.off = loc.off + loc.chunk]
  BY DEF ChunkRead
<1>3. /\ loc.chunk \in Nat /\ loc.off \in Nat /\ loc.total \in Nat /\ loc.chunk <= loc.total
      /\ call.start \in Nat /\ ClusterSize \in Nat /\ loc.offset \in Nat /\ call.size \in Nat
  BY <1>1, ClusterSizeOK DEF Types, AtSector
<1>4. /\ loc' \in [i : Nat, offset : Nat, cluster : Int, ahead : Nat, off : Nat,
                   total : Nat, chunk : Nat, spos : Int, remain : Nat]
      /\ loc'.i = loc.i /\ loc'.offset = loc.offset /\ loc'.total = loc.total - loc.chunk
      /\ loc'.off = loc.off + loc.chunk /\ loc'.cluster = loc.cluster
  <2>1. loc.total - loc.chunk \in Nat /\ loc.off + loc.chunk \in Nat BY <1>3
  <2> QED BY <1>1, <1>2, <2>1 DEF Types
<1>5. Types' BY <1>1, <1>2, <1>4 DEF Types
<1>6. InCall' BY <1>1, <1>2, <1>4 DEF InCall, Copied, Base
<1>7. InMember' BY <1>1, <1>2, <1>3, <1>4 DEF InMember, FileClusters
<1>8. AtNext'
  <2>1. /\ Len(out) = loc.off - call.start + loc.chunk - loc.remain
        /\ loc.chunk < loc.total => loc.off + loc.chunk >= ClusterSize
        /\ loc.cluster \in FileClusters /\ FileClusters' = FileClusters
    BY <1>1, <1>2 DEF AtSector, FileClusters
  <2>2. Len(out) = loc.off + loc.chunk - call.start BY <1>2, <1>3, <2>1
  <2>3. loc.total - loc.chunk > 0 => loc.off + loc.chunk >= ClusterSize BY <1>3, <2>1
  <2>4. out' = out /\ call' = call BY <1>2
  <2>5. Len(out') = loc'.off - call'.start
    <3>1. loc'.off - call'.start = (loc.off + loc.chunk) - call.start BY <1>4, <2>4
    <3>2. (loc.off + loc.chunk) - call.start = Len(out) BY <1>3, <2>2
    <3> QED BY <2>4, <3>1, <3>2
  <2>6. loc'.total > 0 => loc'.off >= ClusterSize BY <1>4, <2>3
  <2>7. loc'.cluster \in FileClusters' BY <1>4, <2>1
  <2> QED BY <2>5, <2>6, <2>7 DEF AtNext
<1> QED BY <1>2, <1>5, <1>6, <1>7, <1>8 DEF FInv

(* fat16_get_next_cluster.                                                 *)
LEMMA NextClusterOK ==
  ASSUME FInv, NextCluster
  PROVE  FInv'
<1>1. Types /\ InCall /\ InMember /\ AtNext BY DEF FInv, NextCluster
<1> DEFINE entry == fat16_get_fat_entry(loc.cluster)
<1>2. /\ loc.total > 0 /\ loc.off >= ClusterSize /\ loc.off \in Nat /\ loc.total \in Nat
      /\ loc.offset \in Nat /\ call.size \in Nat /\ ClusterSize \in Nat
  BY <1>1, ClusterSizeOK DEF NextCluster, AtNext, Types
<1>3. ~ Fits
  <2> SUFFICES ASSUME Fits PROVE FALSE OBVIOUS
  <2>1. loc.offset + call.size <= ClusterSize BY <1>1, FitsOK DEF InMember
  <2> QED BY <1>1, <1>2, <2>1 DEF InMember
<1>4. CASE fat16_check_cluster_entry(entry) < 0
  <2>1. ReadFails(-EIO) BY <1>4 DEF NextCluster
  <2>2. -EIO \in Int /\ -EIO < 0 BY DEF EIO
  <2> QED BY <1>3, <2>1, <2>2, FailsOK
<1>5. CASE ~(fat16_check_cluster_entry(entry) < 0)
  <2>1. fat16_check_cluster_entry(entry) >= 0 BY <1>5 DEF fat16_check_cluster_entry, EIO
  <2>2. \/ entry \in FileClusters
        \/ call.lowmem /\ entry = -ENOMEM
    BY <1>1, <2>1, EntryOK DEF InMember
  <2>3. FileClusters \subseteq Nat \ {0, 1} /\ -ENOMEM \in Int /\ -ENOMEM < 0 BY <1>1, FirstOK DEF ENOMEM
  <2>I. entry \in Int /\ (~(entry < 0) => entry \in FileClusters /\ entry # -ENOMEM)
    <3> HIDE DEF entry
    <3>1. CASE entry \in FileClusters
      <4>1. entry \in Nat BY <2>3, <3>1
      <4> QED BY <2>3, <3>1, <4>1
    <3>2. CASE entry = -ENOMEM BY <2>3, <3>2
    <3> QED BY <2>2, <3>1, <3>2
  <2>4. CASE entry < 0
    <3>1. ReadFails(entry) BY <1>5, <2>4 DEF NextCluster
    <3> QED BY <1>3, <2>4, <2>I, <3>1, FailsOK
  <2>5. CASE ~(entry < 0)
    <3>1. loc' = [loc EXCEPT !.cluster = entry] /\ pc' = "chunk"
          /\ UNCHANGED <<file, pos, call, out, res>>
      BY <1>5, <2>5 DEF NextCluster
    <3> HIDE DEF entry
    <3>2. entry \in FileClusters /\ entry \in Int /\ entry # -ENOMEM BY <2>5, <2>I
    <3>3. /\ loc' \in [i : Nat, offset : Nat, cluster : Int, ahead : Nat, off : Nat,
                       total : Nat, chunk : Nat, spos : Int, remain : Nat]
          /\ loc'.i = loc.i /\ loc'.offset = loc.offset /\ loc'.total = loc.total
          /\ loc'.off = loc.off /\ loc'.cluster = entry
      BY <1>1, <3>1, <3>2 DEF Types
    <3>4. Types' BY <1>1, <3>1, <3>3 DEF Types
    <3>5. InCall' BY <1>1, <3>1, <3>3 DEF InCall, Copied, Base
    <3>6. InMember' BY <1>1, <3>1, <3>2, <3>3 DEF InMember, FileClusters
    <3>7. ~(loc.off < ClusterSize) BY <1>2
    <3>8. AtChunk' BY <1>1, <1>2, <3>1, <3>2, <3>3, <3>7 DEF AtNext, AtChunk, FileClusters
    <3> QED BY <3>1, <3>4, <3>5, <3>6, <3>8 DEF FInv
  <2> QED BY <2>4, <2>5
<1> QED BY <1>4, <1>5

LEMMA MemberReadOK ==
  ASSUME FInv, MemberRead
  PROVE  FInv'
<1>1. Types /\ InCall /\ InMember /\ AtNext BY DEF FInv, MemberRead
<1>2. /\ loc.total = 0 /\ pc' = "member" /\ UNCHANGED <<file, pos, call, out, res>>
      /\ loc' = [loc EXCEPT !.i = loc.i + 1, !.offset = loc.offset + call.size]
  BY DEF MemberRead
<1>3. /\ loc.i \in Nat /\ call.size \in Nat /\ call.nmemb \in Nat /\ call.start \in Nat
      /\ loc.off \in Nat /\ loc.offset \in Nat
  BY <1>1 DEF Types
<1>4. /\ loc' \in [i : Nat, offset : Nat, cluster : Int, ahead : Nat, off : Nat,
                   total : Nat, chunk : Nat, spos : Int, remain : Nat]
      /\ loc'.i = loc.i + 1 /\ loc'.offset = loc.offset + call.size
  <2>1. loc.i + 1 \in Nat /\ loc.offset + call.size \in Nat BY <1>3
  <2> QED BY <1>1, <1>2, <2>1 DEF Types
<1>5. Types' BY <1>1, <1>2, <1>4 DEF Types
<1>6. (loc.i + 1) * call.size = loc.i * call.size + call.size /\ loc.i * call.size \in Int
  BY <1>3, Distributes, ProductInt
<1>7. loc'.offset = call.start + loc'.i * call.size BY <1>1, <1>3, <1>4, <1>6 DEF InCall
<1>8. loc'.i <= call.nmemb BY <1>1, <1>3, <1>4 DEF InMember
<1>9. InCall' BY <1>1, <1>2, <1>7, <1>8 DEF InCall, Copied, Base
<1>10. AtMember'
  <2>1. Len(out) = loc.off - call.start /\ loc.off + 0 = loc.offset + call.size
    BY <1>1, <1>2 DEF AtNext, InMember
  <2>2. Len(out) = (loc.offset + call.size) - call.start BY <1>3, <2>1
  <2>3. loc'.offset = loc.offset + call.size /\ out' = out /\ call' = call BY <1>2, <1>4
  <2> QED BY <2>2, <2>3 DEF AtMember
<1> QED BY <1>2, <1>5, <1>9, <1>10 DEF FInv

(* Every step keeps the invariant.                                         *)
LEMMA StepFInv ==
  ASSUME FInv, [Next]_vars
  PROVE  FInv'
<1>1. CASE UNCHANGED vars
  <2>1. UNCHANGED <<file, pos, call, out, pc, loc, res>> BY <1>1 DEF vars
  <2>2. ExactRead => ExactRead' BY <2>1 DEF ExactRead, TypeOK, Wanted, HasByte, Address
  <2>3. FirstClusterReads => FirstClusterReads' BY <2>1 DEF FirstClusterReads, Wanted
  <2>4. Types' BY <2>1 DEF FInv, Types
  <2>5. /\ InCall => InCall'
        /\ InMember => InMember'
        /\ AtMember => AtMember'
        /\ AtWalk => AtWalk'
        /\ AtChunk => AtChunk'
        /\ AtSector => AtSector'
        /\ AtNext => AtNext'
    BY <2>1 DEF InCall, InMember, AtMember, AtWalk, AtChunk, AtSector, AtNext, Copied, Base, FileClusters
  <2>6. OneCluster => OneCluster' BY <2>1 DEF OneCluster, Wanted
  <2> QED BY <2>1, <2>2, <2>3, <2>4, <2>5, <2>6 DEF FInv
<1>2. ASSUME NEW size \in Sizes, NEW nmemb \in Members, fread(size, nmemb) PROVE FInv'
  BY <1>2, freadOK, FatAssumption
<1>3. ASSUME NEW a \in Offsets, fseek(a) \/ fseek(pos + a) PROVE FInv'
  <2>1. a \in Int /\ pos + a \in Int BY FatAssumption DEF FInv, Types
  <2> QED BY <1>3, <2>1, fseekOK
<1>4. CASE Step
  BY <1>4, NextMemberOK, ReadDoneOK, WalkOnOK, WalkEndsOK, StartChunkOK, ReadSectorOK, ChunkReadOK,
     NextClusterOK, MemberReadOK DEF Step
<1> QED BY <1>1, <1>2, <1>3, <1>4 DEF Next

(* A fread that reports success has copied exactly the bytes asked for, in *)
(* order, and moved the position past them; no loop counter goes negative. *)
THEOREM FatExactRead == Spec => []ExactRead
<1>1. FInv /\ [Next]_vars => FInv' BY StepFInv
<1>2. FInv => ExactRead BY TypesOK DEF FInv, ExactRead
<1> QED BY <1>1, <1>2, InitFInv, PTL DEF Spec

(* A read that lies in the first cluster, with memory to read it, succeeds *)
(* whatever members and sectors it is cut into.                            *)
THEOREM FatFirstClusterReads == Spec => []FirstClusterReads
<1>1. FInv /\ [Next]_vars => FInv' BY StepFInv
<1>2. FInv => FirstClusterReads BY DEF FInv, FirstClusterReads
<1> QED BY <1>1, <1>2, InitFInv, PTL DEF Spec

(* The position moves only with a call that succeeds.                      *)
THEOREM FatMovesOnSuccess == Spec => MovesOnSuccess
<1>1. FInv /\ [Next]_vars => FInv' BY StepFInv
<1>2. FInv /\ [Next]_vars => [pos' # pos => pc' = "idle" /\ res' >= 0]_vars
  <2> SUFFICES ASSUME FInv, Next, pos' # pos PROVE pc' = "idle" /\ res' >= 0 OBVIOUS
  <2>1. CASE ReadDone BY <2>1 DEF ReadDone, Return, FInv, Types
  <2>2. ASSUME NEW a, fseek(a) PROVE pc' = "idle" /\ res' >= 0 BY <2>2 DEF fseek
  <2>3. ASSUME NEW size, NEW nmemb, fread(size, nmemb) PROVE FALSE BY <2>3 DEF fread
  <2>4. CASE Step /\ ~ ReadDone
    BY <2>4 DEF Step, NextMember, WalkOn, WalkEnds, StartChunk, ReadSector, ChunkRead,
                NextCluster, MemberRead, ReadFails
  <2> QED BY <2>1, <2>2, <2>3, <2>4 DEF Next
<1> QED BY <1>1, <1>2, InitFInv, PTL DEF Spec, MovesOnSuccess

(* A fread that reports success never went past the first cluster of the   *)
(* file: a program longer than a cluster cannot be loaded.                 *)
THEOREM FatOneCluster == Spec => [](pc = "idle" => OneCluster)
<1>1. FInv /\ [Next]_vars => FInv' BY StepFInv
<1>2. FInv => (pc = "idle" => OneCluster) BY DEF FInv
<1> QED BY <1>1, <1>2, InitFInv, PTL DEF Spec
=============================================================================
