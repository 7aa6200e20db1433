------------------------------ MODULE FileOpen ------------------------------
(***************************************************************************)
(* fopen and fclose (fs/file.c) from the path to the directory entry: the  *)
(* parser of PathParser.tla, then the walk of FatDirectory.tla over the    *)
(* parts it built, on a disk that is mounted first.  The descriptor table  *)
(* is in ProgramLoad.tla; here it may be full.  Files are opened for       *)
(* reading, as everywhere in the kernel.                                   *)
(***************************************************************************)
EXTENDS PathParser, FatDirectory

fvars == <<vars, fatvars>>

FInit == Init /\ FatInit

Parsed == pc = "done" /\ ret = 0

pathparser_parse ==
  /\ step \in {"mounted", "unmounted"}
  /\ \/ CheckPath \/ pathparser_create_root
     \/ AllocString \/ CopyChar \/ EndPart \/ NoMoreParts \/ LinkPart \/ LinkFails
  /\ UNCHANGED fatvars

Returns(s) ==
  /\ step' = s
  /\ UNCHANGED <<disk, total, streams, k, i, current_item, f_item, held, stray, faulty>>

disk_get(drive) == drive = "0"

(* The path was parsed, and its disk has a file system.                    *)
CanOpen == step = "mounted" /\ Parsed /\ disk_get(path[1])

OpenRefused ==
  /\ step \in {"mounted", "unmounted"} /\ pc = "done" /\ ~ CanOpen
  /\ Returns("failed")
  /\ UNCHANGED vars

OpenGoesOn == CanOpen /\ Returns("open") /\ UNCHANGED vars

(* file_new_descriptor; a path that was opened is never freed.             *)
file_new_descriptor ==
  /\ step = "opened"
  /\ Returns("fd") \/ fat16_close("failed")
  /\ UNCHANGED vars

(* out: of fopen.                                                          *)
FreePath == step = "failed" /\ pathparser_free /\ UNCHANGED fatvars

fclose == step = "fd" /\ fat16_close("closed") /\ UNCHANGED vars

FNext ==
  \/ fat16_resolve /\ UNCHANGED vars
  \/ pathparser_parse \/ OpenRefused \/ OpenGoesOn
  \/ fat16_open /\ UNCHANGED vars
  \/ fat16_find_item_in_directory(parts) /\ UNCHANGED vars
  \/ NotFound /\ UNCHANGED vars
  \/ NextPart(parts) /\ UNCHANGED vars
  \/ file_new_descriptor \/ FreePath \/ fclose

FSpec == FInit /\ [][FNext]_fvars /\ WF_fvars(FNext)

-----------------------------------------------------------------------------
(* Properties *)

(* The variables of the parser and of the file system have their types,    *)
(* and no block belongs to a part the path does not have.                  *)
FTypeOK ==
  /\ TypeOK
  /\ disk \in Disks
  /\ total \in 0 .. Len(disk[Root]) /\ streams \subseteq Streams
  /\ step \in {"boot", "mounted", "unmounted", "open", "scan", "opened",
               "fd", "closed", "failed", "wild"}
  /\ k \in 0 .. Len(path) /\ i \in Nat
  /\ current_item.content \in BOOLEAN /\ f_item.content \in BOOLEAN
  /\ \A b \in held : b[2] \in 0 .. Len(path)
  /\ stray \in BOOLEAN /\ faulty \in BOOLEAN

(* An item that was opened is the entry the path names, whatever failed    *)
(* on the way: the last of the entries that its parts lead to, one in the  *)
(* directory of the other, with the case of letters ignored and the        *)
(* padding of 8.3 names left out.                                          *)
OpensNamed == step \in {"opened", "fd"} => current_item.entry \in Resolve(parts)

NothingDeleted == \A d \in DOMAIN disk : \A e \in Range(disk[d]) : ~ IsDeleted(e)

(* When memory, descriptors and disk hold out, a file is found if the disk *)
(* has it.  Only on a disk with deleted entries may it be missed, for      *)
(* those are not counted and yet take a place in the array.  Only a path   *)
(* through .. to the root, or through a directory without any entries, may *)
(* end in a directory that is none.                                        *)
FindsNamed ==
  ~faulty /\ Parsed =>
    /\ step = "failed" /\ NothingDeleted /\ disk_get(path[1])
         => Resolve(parts) = {}
    /\ step = "wild" => f_item.entry.to = Nowhere \/ Count(f_item.entry.to) = 0

Arrays == {b \in held : b[1] = "array"}

(* No block is freed twice, or freed while it is not held; and what the    *)
(* file system keeps is what the mounted disk needs, the open file, and    *)
(* what it is known to lose: the array of every directory passed, and the  *)
(* item a failed search stopped at.  A mount that failed keeps nothing.    *)
HoldsOnly ==
  LET files == (held \ Arrays) \ Private
  IN  /\ FTypeOK
      /\ ~stray
      /\ step = "unmounted" => held = {}
      /\ step = "fd" => files = {Descriptor} \cup {b \in Blocks(current_item) : b[1] # "array"}
      /\ step = "closed" => files = {}
      /\ step = "failed" => files \subseteq Blocks(current_item)

(* Every fopen ends, and when it fails the path it parsed is given back;   *)
(* unless the kernel has read a directory that is not there.               *)
OpenEnds == <>[](step \in {"fd", "closed", "wild"} \/ (step = "failed" /\ ~root))

=============================================================================
