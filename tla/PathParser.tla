----------------------------- MODULE PathParser -----------------------------
(***************************************************************************)
(* pathparser_parse and pathparser_free (fs/pparser.c): a path such as     *)
(* 0:/a/b becomes a drive number and a list of parts.  One iteration of a  *)
(* loop or one allocation per step; every allocation may fail.  A path is  *)
(* the sequence of its characters, and what follows it is its 0x00.        *)
(***************************************************************************)
EXTENDS Integers, Sequences

CONSTANTS
  Paths,       \* the paths parsed
  MaxPath,     \* KERNEL_MAX_PATH, the size of a part's buffer too
  Digits       \* the characters isdigit accepts

ASSUME PathAssumption ==
  /\ MaxPath \in Nat \ {0}
  /\ \A p \in Paths : p \in Seq(STRING)

VARIABLES
  path, tmp_path,   \* the argument, and where the parser is in it
  root,             \* path_root is allocated
  parts,            \* the parts linked from path_root->first, in order
  part_str,         \* the characters copied for the next one
  strs, structs,    \* how many part strings and path_part are allocated
  pc, ret           \* the step, and the result: 0 or an error

vars == <<path, tmp_path, root, parts, part_str, strs, structs, pc, ret>>

EINVAGS == 2
ENOMEM == 3

Init ==
  /\ path \in Paths /\ tmp_path = 1
  /\ root = FALSE /\ parts = <<>> /\ part_str = <<>>
  /\ strs = 0 /\ structs = 0
  /\ pc = "check" /\ ret = 0

pathpraser_path_vaild_format(p) ==
  Len(p) >= 3 /\ p[1] \in Digits /\ p[2] = ":" /\ p[3] = "/"

(* Slip: the root is not given back.                                       *)
FailKeepsRoot(r) ==
  /\ ret' = r /\ pc' = "done"
  /\ root' = root /\ strs' = strs - Len(parts) /\ structs' = structs - Len(parts)
  /\ parts' = <<>>

(* out: with what was built freed by pathparser_free.                      *)
Fail(r) ==
  /\ ret' = r /\ pc' = "done"
  /\ root' = FALSE /\ strs' = strs - Len(parts) /\ structs' = structs - Len(parts)
  /\ parts' = <<>>

-----------------------------------------------------------------------------
(* Slip: the length is not looked at.                                      *)
CheckFormatOnly ==
  /\ pc = "check"
  /\ IF ~ pathpraser_path_vaild_format(path)
       THEN Fail(-EINVAGS) /\ UNCHANGED tmp_path
       ELSE /\ pc' = "root" /\ tmp_path' = 4
            /\ UNCHANGED <<root, parts, strs, structs, ret>>
  /\ UNCHANGED <<path, part_str>>

(* The length and pathparser_get_drive_by_path.                            *)
CheckPath ==
  /\ pc = "check"
  /\ IF Len(path) > MaxPath \/ ~ pathpraser_path_vaild_format(path)
       THEN Fail(-EINVAGS) /\ UNCHANGED tmp_path
       ELSE /\ pc' = "root" /\ tmp_path' = 4
            /\ UNCHANGED <<root, parts, strs, structs, ret>>
  /\ UNCHANGED <<path, part_str>>

pathparser_create_root ==
  /\ pc = "root"
  /\ \/ Fail(-ENOMEM)
     \/ /\ root' = TRUE /\ pc' = "string"
        /\ UNCHANGED <<parts, strs, structs, ret>>
  /\ UNCHANGED <<path, tmp_path, part_str>>

(* pathparser_get_path_part: the buffer of the next part.                  *)
AllocString ==
  /\ pc = "string"
  /\ \/ Fail(-ENOMEM) /\ UNCHANGED part_str
     \/ /\ strs' = strs + 1 /\ part_str' = <<>> /\ pc' = "copy"
        /\ UNCHANGED <<root, parts, structs, ret>>
  /\ UNCHANGED <<path, tmp_path>>

AtEnd == tmp_path > Len(path)
InPart == ~ AtEnd /\ path[tmp_path] # "/"

CopyChar ==
  /\ pc = "copy" /\ InPart
  /\ part_str' = Append(part_str, path[tmp_path])
  /\ tmp_path' = tmp_path + 1
  /\ UNCHANGED <<path, root, parts, strs, structs, pc, ret>>

(* Slip: the slash is left for the next part.                              *)
EndPartKeepsSlash ==
  /\ pc = "copy" /\ ~ InPart
  /\ strs' = IF part_str = <<>> THEN strs - 1 ELSE strs
  /\ pc' = IF part_str = <<>> THEN "empty" ELSE "struct"
  /\ UNCHANGED <<path, tmp_path, root, parts, part_str, structs, ret>>

(* One slash is skipped; an empty part is freed and ends the list.         *)
EndPart ==
  /\ pc = "copy" /\ ~ InPart
  /\ tmp_path' = IF AtEnd THEN tmp_path ELSE tmp_path + 1
  /\ strs' = IF part_str = <<>> THEN strs - 1 ELSE strs
  /\ pc' = IF part_str = <<>> THEN "empty" ELSE "struct"
  /\ UNCHANGED <<path, root, parts, part_str, structs, ret>>

(* Slip: an empty part is passed over.                                     *)
EmptyGoesOn ==
  /\ pc = "empty"
  /\ IF parts = <<>> THEN Fail(-EINVAGS)
     ELSE pc' = "string" /\ UNCHANGED <<root, parts, strs, structs, ret>>
  /\ UNCHANGED <<path, tmp_path, part_str>>

(* No part at all is an error; otherwise the parse is done.                *)
NoMoreParts ==
  /\ pc = "empty"
  /\ IF parts = <<>> THEN Fail(-EINVAGS)
     ELSE pc' = "done" /\ UNCHANGED <<root, parts, strs, structs, ret>>
  /\ UNCHANGED <<path, tmp_path, part_str>>

(* pathparser_parse_path_part: the part is linked behind the last one.     *)
LinkPart ==
  /\ pc = "struct"
  /\ structs' = structs + 1
  /\ parts' = Append(parts, part_str)
  /\ pc' = "string"
  /\ UNCHANGED <<path, tmp_path, root, part_str, strs, ret>>

(* Without memory for it, its string is freed first.                       *)
LinkFails ==
  /\ pc = "struct"
  /\ ret' = -ENOMEM /\ pc' = "done"
  /\ root' = FALSE /\ parts' = <<>>
  /\ strs' = strs - 1 - Len(parts) /\ structs' = structs - Len(parts)
  /\ UNCHANGED <<path, tmp_path, part_str>>

(* The caller frees what it was given, or drops it.                        *)
pathparser_free ==
  /\ pc = "done" /\ ret = 0
  /\ root' = FALSE /\ parts' = <<>>
  /\ strs' = strs - Len(parts) /\ structs' = structs - Len(parts)
  /\ pc' = "freed"
  /\ UNCHANGED <<path, tmp_path, part_str, ret>>

Next ==
  \/ CheckPath \/ pathparser_create_root
  \/ AllocString \/ CopyChar \/ EndPart \/ NoMoreParts \/ LinkPart \/ LinkFails
  \/ pathparser_free

Spec == Init /\ [][Next]_vars /\ WF_vars(Next)

-----------------------------------------------------------------------------
(* Properties *)

(* The variables have their types, and no counter of objects goes negative.*)
TypeOK ==
  /\ path \in Paths /\ tmp_path \in 1 .. Len(path) + 1
  /\ strs \in Nat /\ structs \in Nat
  /\ pc \in {"check", "root", "string", "copy", "empty", "struct", "done", "freed"}
  /\ ret \in {0, -EINVAGS, -ENOMEM}

(* A part and its 0x00 fit in the MaxPath bytes of its buffer, up to the   *)
(* longest path that is let through.                                       *)
PartFits == Len(part_str) + 1 <= MaxPath

(* A slash at x, or the end of p; and where a component may begin: behind  *)
(* a slash, or behind the end.                                             *)
IsSep(p, x) == x > Len(p) \/ p[x] = "/"
Starts(p) == {x \in 4 .. Len(p) + 2 : IsSep(p, x - 1)}

(* c is what p has from a on, without a slash.                             *)
Holds(p, a, c) == \A x \in 1 .. Len(c) : c[x] = p[(a + x) - 1] /\ c[x] # "/"

(* The parts ps are what p has from the places at on, one behind the slash *)
(* that ends the other.                                                    *)
Cut(p, ps, at) ==
  /\ at[1] = 4
  /\ \A j \in 1 .. Len(ps) : /\ ps[j] # <<>>
                             /\ at[j + 1] = at[j] + Len(ps[j]) + 1
                             /\ Holds(p, at[j], ps[j])

(* ps are the components of p: all of it behind its drive, or up to the    *)
(* first empty component.                                                  *)
Components(p, ps) ==
  \E at \in [1 .. Len(ps) + 1 -> Starts(p)] : Cut(p, ps, at) /\ IsSep(p, at[Len(ps) + 1])

(* A parse that succeeds has the components of the path, in order, and     *)
(* one that has memory fails only for a malformed path or one without      *)
(* components.                                                             *)
ParsesPath ==
  pc = "done" =>
    CASE ret = 0 -> /\ pathpraser_path_vaild_format(path)
                    /\ parts # <<>> /\ Components(path, parts)
      [] ret = -EINVAGS -> \/ Len(path) > MaxPath
                           \/ ~ pathpraser_path_vaild_format(path)
                           \/ Components(path, <<>>)
      [] OTHER -> TRUE

(* Whichever allocation fails, nothing of a failed parse stays allocated,  *)
(* a successful one owns one string and one struct for each part, and      *)
(* pathparser_free gives all of it back.                                   *)
NothingLost ==
  pc \in {"done", "freed"} =>
    /\ root = (pc = "done" /\ ret = 0)
    /\ strs = Len(parts) /\ structs = Len(parts)
    /\ ~ root => parts = <<>>

=============================================================================
