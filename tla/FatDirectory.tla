---------------------------- MODULE FatDirectory ----------------------------
(***************************************************************************)
(* The directories of a FAT16 disk (fs/fat/fat16.c): mounting it           *)
(* (fat16_resolve), walking from the root to the entry that a list of      *)
(* parts names (fat16_get_directory_entry, called by fat16_open), and      *)
(* closing what was opened.  One entry of a directory per step; every      *)
(* allocation and every read of the disk may fail.                         *)
(*                                                                         *)
(* A directory is the sequence of its entries on the disk up to the one    *)
(* that begins with 0x00, and fits in one cluster (FatRead.tla has what    *)
(* happens beyond).  An item is known by the number of the part it stands  *)
(* for, and its blocks by what they are and that number.                   *)
(***************************************************************************)
EXTENDS Integers, FiniteSets, Sequences, SequencesExt

CONSTANTS
  Disks,        \* the disks explored: for each directory, its entries
  Root,         \* the directory at the root
  Deleted,      \* the character 0xE5
  Lower         \* tolower

Nowhere == "nowhere"      \* the directory of cluster 0, which .. may name

Space == " "

(* The name of an entry is padded with spaces to a fixed length.           *)
Names == [base : Seq(STRING), ext : Seq(STRING)]
Padded(s) == \A x, y \in DOMAIN s : x < y /\ s[x] = Space => s[y] = Space

ASSUME DiskAssumption ==
  /\ Deleted # Space
  /\ \A dk \in Disks :
       /\ Root \in DOMAIN dk
       /\ \A d \in DOMAIN dk :
            /\ dk[d] \in Seq([name : Names, kind : {"file", "dir"}, to : DOMAIN dk \cup {Nowhere}])
            /\ \A x \in DOMAIN dk[d] :
                 /\ dk[d][x].name.base # <<>>
                 /\ Padded(dk[d][x].name.base) /\ Padded(dk[d][x].name.ext)

VARIABLES
  disk,
  total,          \* root_directory.total
  streams,        \* the streams of fat_private that were allocated
  step,           \* where fopen is
  k, i,           \* the part looked for, and the entry looked at
  current_item,
  f_item,         \* the item found for the part
  held,           \* the blocks allocated by the file system
  stray,          \* a block was freed that was not held
  faulty          \* an allocation or a read failed, or a table was full

fatvars == <<disk, total, streams, step, k, i, current_item, f_item, held, stray, faulty>>

Streams == {"cluster", "fat", "directory"}
Private == {<<"private", 0>>, <<"root", 0>>} \cup {<<s, 0>> : s \in Streams}
Descriptor == <<"descriptor", 0>>

(* content is false for an item whose directory or clone is NULL.          *)
NULL == [n |-> 0, entry |-> "none", content |-> FALSE]
Item(n, entry, content) == [n |-> n, entry |-> entry, content |-> content]

-----------------------------------------------------------------------------
(* Names *)

(* Up to the first space, or all of it.                                    *)
fat16_to_proper_string(s) ==
  LET stops == {j \in DOMAIN s : s[j] = Space} \cup {Len(s) + 1}
  IN  SubSeq(s, 1, (CHOOSE j \in stops : \A x \in stops : j <= x) - 1)

fat16_get_full_relative_filename(name) ==
  fat16_to_proper_string(name.base)
    \o IF name.ext = <<>> \/ name.ext[1] = Space THEN <<>>
       ELSE <<".">> \o fat16_to_proper_string(name.ext)

tolower(s) == [j \in DOMAIN s |-> IF s[j] \in DOMAIN Lower THEN Lower[s[j]] ELSE s[j]]

(* Slip: only as many characters as the entry's name has.                  *)
ComparePrefix(s, t) == Len(s) <= Len(t) /\ tolower(s) = tolower(SubSeq(t, 1, Len(s)))

(* istrncmp of two strings that are shorter than its limit.                *)
SameName(s, t) == tolower(s) = tolower(t)

-----------------------------------------------------------------------------
(* Directories *)

IsDeleted(entry) == entry.name.base[1] = Deleted

(* fat16_get_total_items_for_directory does not count deleted entries.     *)
Count(d) == Cardinality({j \in DOMAIN disk[d] : ~ IsDeleted(disk[d][j])})

(* The entries in the array of a directory: as many as were counted, from  *)
(* the first on the disk, the deleted ones included.                       *)
Loaded(d) == SubSeq(disk[d], 1, Count(d))

Scanned == IF k = 1 THEN SubSeq(disk[Root], 1, total) ELSE Loaded(current_item.entry.to)

ContentName(entry) == IF entry.kind = "dir" THEN "directory" ELSE "clone"

Blocks(item) ==
  IF item = NULL THEN {}
  ELSE {<<"item", item.n>>}
       \cup (IF item.content THEN {<<ContentName(item.entry), item.n>>} ELSE {})
       \cup (IF item.content /\ item.entry.kind = "dir" THEN {<<"array", item.n>>} ELSE {})

(* fat16_load_fat_directory and fat16_clone_directory_item give NULL when  *)
(* they fail, with nothing left allocated.  A directory without counted    *)
(* entries cannot be loaded: kzalloc(0) is NULL.                           *)
CanLoad(entry) ==
  entry.kind = "dir" =>
    /\ {"cluster", "directory"} \subseteq streams
    /\ entry.to # Nowhere => Count(entry.to) > 0

fat16_new_fat_item_for_directory_item(entry) ==
  {NULL, Item(k, entry, FALSE)}
    \cup IF CanLoad(entry) THEN {Item(k, entry, TRUE)} ELSE {}

(* Slip: what the item points to is not freed.                             *)
FreeItemOnly(item) == IF item = NULL THEN {} ELSE {<<"item", item.n>>}

(* What fat16_fat_item_free frees: of a directory not the array.           *)
fat16_fat_item_free(item) == {b \in Blocks(item) : b[1] # "array"}

Frees(blocks) ==
  /\ held' = held \ blocks
  /\ stray' = (stray \/ ~ blocks \subseteq held)

-----------------------------------------------------------------------------
(* Mounting *)

FatInit ==
  /\ disk \in Disks
  /\ total = 0 /\ streams = {} /\ step = "boot" /\ k = 0 /\ i = 0
  /\ current_item = NULL /\ f_item = NULL
  /\ held = {} /\ stray = FALSE /\ faulty = FALSE

fat16_free_private(s) == {<<"private", 0>>, <<"root", 0>>} \cup {<<x, 0>> : x \in s}

(* fat16_get_root_directory: what the root has when it is read.  When the  *)
(* entries cannot be counted, the root is taken for empty.                 *)
fat16_get_root_directory(s, counted) ==
  IF "directory" \in s /\ counted THEN Count(Root) ELSE 0

(* s: the streams diskstream_new could allocate.  Without memory for       *)
(* fat_private itself, it is written to at address 0.  stream and header:  *)
(* the boot sector could be read, and is that of FAT16.                    *)
fat16_resolve ==
  /\ step = "boot"
  /\ \E private, header, counted, dir \in BOOLEAN, s \in SUBSET Streams :
       LET ok == header /\ dir /\ "directory" \in s
           taken == {<<"private", 0>>} \cup {<<x, 0>> : x \in s}
       IN  /\ faulty' = ~(private /\ header /\ counted /\ dir /\ s = Streams)
           /\ IF ~private THEN step' = "wild" /\ UNCHANGED <<total, streams, held>>
              ELSE IF ok
              THEN /\ step' = "mounted" /\ streams' = s
                   /\ total' = fat16_get_root_directory(s, counted)
                   /\ held' = taken \cup {<<"root", 0>>}
              ELSE /\ step' = "unmounted" /\ held' = taken \ fat16_free_private(s)
                   /\ UNCHANGED <<total, streams>>
  /\ UNCHANGED <<disk, k, i, current_item, f_item, stray>>

-----------------------------------------------------------------------------
(* Opening; parts are the parts of the path *)

(* Looking for part n from the first entry.                                *)
StartScan(n) == k' = n /\ i' = 1 /\ f_item' = NULL

fat16_open ==
  /\ step = "open"
  /\ \/ step' = "failed" /\ faulty' = TRUE /\ UNCHANGED <<k, i, f_item, held>>
     \/ StartScan(1) /\ step' = "scan" /\ held' = held \cup {Descriptor} /\ UNCHANGED faulty
  /\ UNCHANGED <<disk, total, streams, current_item, stray>>

(* An entry with the part's name becomes f_item, also when there was one.  *)
(* The directory of cluster 0 is read from sectors that are not its own.   *)
fat16_find_item_in_directory(parts) ==
  /\ step = "scan" /\ i <= Len(Scanned)
  /\ i' = i + 1
  /\ IF SameName(fat16_get_full_relative_filename(Scanned[i].name), parts[k])
       THEN \E item \in fat16_new_fat_item_for_directory_item(Scanned[i]) :
              /\ f_item' = item
              /\ held' = held \cup Blocks(item)
              /\ faulty' = (faulty \/ item = NULL \/ (CanLoad(Scanned[i]) /\ ~ item.content))
              /\ step' = IF item.content /\ item.entry.kind = "dir" /\ item.entry.to = Nowhere
                           THEN "wild" ELSE step
       ELSE UNCHANGED <<step, f_item, held, faulty>>
  /\ UNCHANGED <<disk, total, streams, k, current_item, stray>>

(* fat16_open frees the descriptor; current_item is forgotten.             *)
NotFound ==
  /\ step = "scan" /\ i > Len(Scanned) /\ f_item = NULL
  /\ step' = "failed" /\ Frees({Descriptor})
  /\ UNCHANGED <<disk, total, streams, k, i, f_item, current_item, faulty>>

(* After a part was found: the path is done, or goes on in a directory.    *)
(* One that could not be loaded is read at address 0.                      *)
After(parts) ==
  CASE k = Len(parts) -> "opened"
    [] k < Len(parts) /\ f_item.entry.kind = "file" -> "failed"
    [] k < Len(parts) /\ f_item.entry.kind = "dir" -> IF f_item.content THEN "scan" ELSE "wild"

(* Slip: the search goes on with the entry it stopped at.                  *)
NextPartSameEntry(parts) ==
  /\ step = "scan" /\ i > Len(Scanned) /\ f_item # NULL
  /\ step' = After(parts)
  /\ current_item' = f_item
  /\ Frees(fat16_fat_item_free(current_item)
             \cup IF After(parts) = "failed" THEN {Descriptor} ELSE {})
  /\ IF After(parts) = "scan" THEN k' = k + 1 /\ f_item' = NULL ELSE UNCHANGED <<k, f_item>>
  /\ UNCHANGED <<disk, total, streams, i, faulty>>

(* The item before is freed, and f_item takes its place.                   *)
NextPart(parts) ==
  /\ step = "scan" /\ i > Len(Scanned) /\ f_item # NULL
  /\ step' = After(parts)
  /\ current_item' = f_item
  /\ Frees(fat16_fat_item_free(current_item)
             \cup IF After(parts) = "failed" THEN {Descriptor} ELSE {})
  /\ IF After(parts) = "scan" THEN StartScan(k + 1) ELSE UNCHANGED <<k, i, f_item>>
  /\ UNCHANGED <<disk, total, streams, faulty>>

(* fat16_close, from fclose or from fopen without a free descriptor.       *)
fat16_close(next) ==
  /\ step' = next
  /\ Frees(fat16_fat_item_free(current_item) \cup {Descriptor})
  /\ current_item' = NULL
  /\ faulty' = (faulty \/ next = "failed")
  /\ UNCHANGED <<disk, total, streams, k, i, f_item>>

-----------------------------------------------------------------------------
(* The reference: what a path names *)

(* A name without its padding: as many characters as are not spaces.       *)
Unpadded(s) == SubSeq(s, 1, Cardinality({j \in DOMAIN s : s[j] # Space}))

NameOf(name) ==
  Unpadded(name.base)
    \o IF Unpadded(name.ext) = <<>> THEN <<>> ELSE <<".">> \o Unpadded(name.ext)

(* The undeleted entries of directory d with a name.                       *)
Lookup(d, name) ==
  {e \in Range(disk[d]) : ~ IsDeleted(e) /\ tolower(name) = tolower(NameOf(e.name))}

(* The entries anywhere on the disk with a name of ps.                     *)
Candidates(ps) ==
  UNION {Lookup(d, ps[j]) : d \in DOMAIN disk, j \in DOMAIN ps}

(* A route to ps has an entry for each of them: the first in the root, and *)
(* each other one in the directory that is the entry before it.            *)
IsRoute(r, ps) ==
  \A j \in DOMAIN ps :
    IF j = 1 THEN r[j] \in Lookup(Root, ps[j])
    ELSE /\ r[j - 1].kind = "dir" /\ r[j - 1].to # Nowhere
         /\ r[j] \in Lookup(r[j - 1].to, ps[j])

(* The entries ps leads to.                                                *)
Resolve(ps) ==
  {r[Len(ps)] : r \in {x \in [DOMAIN ps -> Candidates(ps)] : IsRoute(x, ps)}}

=============================================================================
