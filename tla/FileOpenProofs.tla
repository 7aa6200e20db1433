--------------------------- MODULE FileOpenProofs ---------------------------
(***************************************************************************)
(* Proofs about FileOpen.tla, for every set of paths and of disks.  The    *)
(* first half is about the parser: what it cuts a path into, and what it   *)
(* has allocated at each step.  The second is about the file system: what  *)
(* the walk holds, and which entry it opens.                               *)
(***************************************************************************)
EXTENDS FileOpen, FiniteSetTheorems, WellFoundedInduction, TLAPS

-----------------------------------------------------------------------------
(* The parser: its inductive invariant *)

Building == {"string", "copy", "empty", "struct"}

PTypes ==
  /\ path \in Paths /\ path \in Seq(STRING)
  /\ tmp_path \in 1 .. Len(path) + 1
  /\ root \in BOOLEAN
  /\ parts \in Seq(Seq(STRING)) /\ part_str \in Seq(STRING)
  /\ strs \in Nat /\ structs \in Nat
  /\ pc \in {"check", "root", "string", "copy", "empty", "struct", "done", "freed"}
  /\ ret \in {0, -EINVAGS, -ENOMEM}

(* What is allocated: path_root while there is one, a struct and a string  *)
(* for each part, and the string of the part in progress.                  *)
PCount ==
  /\ pc \notin {"done"} => ret = 0
  /\ root <=> pc \in Building \/ (pc = "done" /\ ret = 0)
  /\ ~ root => parts = <<>>
  /\ structs = Len(parts)
  /\ strs = Len(parts) + (IF pc \in {"copy", "struct"} THEN 1 ELSE 0)
  /\ pc = "done" /\ ret = 0 => parts # <<>>

PFit ==
  /\ Len(part_str) + 1 <= MaxPath
  /\ pc = "root" \/ root => Len(path) <= MaxPath /\ pathpraser_path_vaild_format(path)
  /\ pc = "root" => tmp_path = 4
  /\ pc \in {"string", "empty"} => Len(parts) + 4 <= tmp_path
  /\ pc = "copy" => Len(parts) + Len(part_str) + 4 <= tmp_path
  /\ pc = "struct" => Len(parts) + 5 <= tmp_path
  /\ root => Len(parts) <= Len(path)

Position(a) == IF a > Len(path) THEN Len(path) + 1 ELSE a

(* Where the parser is when the next part begins at a.                     *)
AtPart(a) ==
  /\ a \in Nat /\ a >= 4
  /\ pc = "string" => tmp_path = Position(a)
  /\ pc = "copy" => /\ tmp_path = Position(a) + Len(part_str)
                    /\ Holds(path, Position(a), part_str)
  /\ pc = "struct" => /\ part_str # <<>>
                      /\ a + Len(part_str) <= Len(path) + 1
                      /\ Holds(path, a, part_str)
                      /\ IsSep(path, a + Len(part_str))
                      /\ tmp_path = Position(a + Len(part_str) + 1)
  /\ pc \in {"empty", "done"} => IsSep(path, a)

(* Places where the parts ps of p begin, and where a next one would.       *)
Places(p, ps) == {at \in [1 .. Len(ps) + 1 -> Starts(p)] : Cut(p, ps, at)}

PCuts == root => \E at \in Places(path, parts) : AtPart(at[Len(parts) + 1])

(* What makes a path be refused for its form.                              *)
Malformed(p) == Len(p) > MaxPath \/ ~ pathpraser_path_vaild_format(p) \/ IsSep(p, 4)

PRefused == pc = "done" /\ ret = -EINVAGS => Malformed(path)

PInv == PTypes /\ PCount /\ PFit /\ PCuts /\ PRefused

-----------------------------------------------------------------------------
(* The parser: every step keeps it *)

LEMMA NoParts == <<>> \in Seq(Seq(STRING)) /\ <<>> \in Seq(STRING) /\ Len(<<>>) = 0
OBVIOUS

LEMMA ParserInit == Init => PInv
<1> SUFFICES ASSUME Init PROVE PInv
  OBVIOUS
<1>1. path \in Seq(STRING) /\ Len(path) \in Nat
  BY PathAssumption DEF Init
<1>2. PTypes
  <2>1. tmp_path \in 1 .. Len(path) + 1
    BY <1>1 DEF Init
  <2>2. parts \in Seq(Seq(STRING)) /\ part_str \in Seq(STRING)
    BY NoParts, Zenon DEF Init
  <2> QED
    BY <1>1, <2>1, <2>2 DEF Init, PTypes
<1>3. PCount
  BY NoParts DEF Init, PCount, Building
<1>4. PFit
  BY PathAssumption DEF Init, PFit, Building
<1>5. PCuts /\ PRefused
  BY DEF Init, PCuts, PRefused
<1> QED
  BY <1>2, <1>3, <1>4, <1>5 DEF PInv

(* An error frees the parts and the root.                                  *)
LEMMA ParserFails ==
  ASSUME PInv, pc \in {"check", "root", "string", "empty"},
         NEW r \in {-EINVAGS, -ENOMEM}, r = -EINVAGS => Malformed(path),
         Fail(r), UNCHANGED <<path, tmp_path, part_str>>
  PROVE  PInv'
<1> USE DEF PInv
<1>1. strs = Len(parts) /\ structs = Len(parts) /\ Len(parts) \in Nat
  BY DEF PCount, PTypes
<1>2. PTypes'
  <2>1. parts' \in Seq(Seq(STRING))
    BY NoParts, Zenon DEF Fail
  <2>2. strs' = 0 /\ structs' = 0
    BY <1>1 DEF Fail
  <2>3. ret' \in {0, -EINVAGS, -ENOMEM} /\ pc' = "done" /\ root' = FALSE
    BY DEF Fail
  <2>4. path' = path /\ tmp_path' = tmp_path /\ part_str' = part_str
    OBVIOUS
  <2> QED
    BY <2>1, <2>2, <2>3, <2>4 DEF PTypes
<1>3. PCount'
  BY <1>1, NoParts DEF PCount, Fail, Building, EINVAGS, ENOMEM
<1>4. PFit'
  BY DEF PFit, Fail, Building
<1>5. PCuts' /\ PRefused'
  BY DEF PCuts, PRefused, Fail, Malformed
<1> QED
  BY <1>2, <1>3, <1>4, <1>5

LEMMA ParserChecks == PInv /\ CheckPath => PInv'
<1> SUFFICES ASSUME PInv, CheckPath PROVE PInv'
  OBVIOUS
<1>1. CASE Len(path) > MaxPath \/ ~ pathpraser_path_vaild_format(path)
  <2>1. Fail(-EINVAGS) /\ UNCHANGED <<path, tmp_path, part_str>> /\ pc = "check"
    BY <1>1 DEF CheckPath
  <2> QED
    BY <2>1, <1>1, ParserFails DEF Malformed
<1>2. CASE ~(Len(path) > MaxPath \/ ~ pathpraser_path_vaild_format(path))
  <2>1. /\ pc = "check" /\ pc' = "root" /\ tmp_path' = 4
        /\ UNCHANGED <<path, part_str, root, parts, strs, structs, ret>>
    BY <1>2 DEF CheckPath
  <2>2. path \in Seq(STRING) /\ Len(path) \in Nat /\ Len(path) >= 3 /\ Len(path) <= MaxPath
    BY <1>2, PathAssumption DEF PInv, PTypes, pathpraser_path_vaild_format
  <2>3. 4 \in 1 .. Len(path) + 1
    BY <2>2
  <2>4. PTypes'
    BY <2>1, <2>3 DEF PInv, PTypes
  <2>5. PCount'
    BY <2>1 DEF PInv, PCount, Building
  <2>6. PFit'
    BY <2>1, <2>2, <1>2 DEF PInv, PFit, PCount, Building
  <2>7. PCuts' /\ PRefused'
    BY <2>1 DEF PInv, PCuts, PRefused, PCount, Building
  <2> QED
    BY <2>4, <2>5, <2>6, <2>7 DEF PInv
<1> QED
  BY <1>1, <1>2

LEMMA ParserCreatesRoot == PInv /\ pathparser_create_root => PInv'
<1> SUFFICES ASSUME PInv, pathparser_create_root PROVE PInv'
  OBVIOUS
<1>1. CASE Fail(-ENOMEM)
  BY <1>1, ParserFails DEF pathparser_create_root, EINVAGS, ENOMEM
<1>2. CASE ~ Fail(-ENOMEM)
  <2>1. /\ pc = "root" /\ pc' = "string" /\ root' = TRUE
        /\ UNCHANGED <<path, tmp_path, part_str, parts, strs, structs, ret>>
    BY <1>2 DEF pathparser_create_root
  <2>2. tmp_path = 4 /\ parts = <<>> /\ Len(parts) = 0
    BY <2>1 DEF PInv, PFit, PCount, Building
  <2>3. Len(path) \in Nat /\ Len(path) >= 3
    BY <2>1 DEF PInv, PTypes, PFit, pathpraser_path_vaild_format
  <2>4. PTypes'
    BY <2>1 DEF PInv, PTypes
  <2>5. PCount'
    BY <2>1 DEF PInv, PCount, Building
  <2>6. PFit'
    BY <2>1, <2>2 DEF PInv, PFit, Building
  <2>7. [j \in 1 .. 1 |-> 4] \in Places(path, parts)
    <3>1. path[3] = "/"
      BY <2>1 DEF PInv, PFit, pathpraser_path_vaild_format
    <3>2. 4 \in Starts(path)
      BY <2>3, <3>1 DEF Starts, IsSep
    <3>3. 1 .. Len(parts) + 1 = 1 .. 1
      BY <2>2
    <3> QED
      BY <2>2, <3>2, <3>3 DEF Places, Cut
  <2>8. AtPart(4)'
    BY <2>1, <2>2, <2>3 DEF AtPart, Position
  <2>9. PCuts' /\ PRefused'
    BY <2>1, <2>2, <2>7, <2>8 DEF PCuts, PRefused
  <2> QED
    BY <2>4, <2>5, <2>6, <2>9 DEF PInv
<1> QED
  BY <1>1, <1>2

LEMMA ParserAllocates == PInv /\ AllocString => PInv'
<1> SUFFICES ASSUME PInv, AllocString PROVE PInv'
  OBVIOUS
<1>1. CASE Fail(-ENOMEM) /\ UNCHANGED part_str
  BY <1>1, ParserFails DEF AllocString, EINVAGS, ENOMEM
<1>2. CASE ~(Fail(-ENOMEM) /\ UNCHANGED part_str)
  <2>1. /\ pc = "string" /\ pc' = "copy" /\ part_str' = <<>> /\ strs' = strs + 1
        /\ UNCHANGED <<path, tmp_path, root, parts, structs, ret>>
    BY <1>2 DEF AllocString
  <2>2. Len(part_str') = 0 /\ root
    BY <2>1 DEF PInv, PCount, Building
  <2>3. PTypes'
    BY <2>1 DEF PInv, PTypes
  <2>4. PCount'
    BY <2>1 DEF PInv, PCount, PTypes, Building
  <2>5. PFit'
    BY <2>1, <2>2, PathAssumption DEF PInv, PFit, PTypes, Building
  <2>6. PICK at \in Places(path, parts) : AtPart(at[Len(parts) + 1])
    BY <2>2 DEF PInv, PCuts
  <2>7. AtPart(at[Len(parts) + 1])'
    BY <2>1, <2>2, <2>6 DEF AtPart, Position, Holds, PInv, PTypes
  <2>8. PCuts' /\ PRefused'
    BY <2>1, <2>6, <2>7 DEF PCuts, PRefused
  <2> QED
    BY <2>3, <2>4, <2>5, <2>8 DEF PInv
<1> QED
  BY <1>1, <1>2

LEMMA ParserCopies == PInv /\ CopyChar => PInv'
<1> SUFFICES ASSUME PInv, CopyChar PROVE PInv'
  OBVIOUS
<1>1. /\ pc = "copy" /\ part_str' = Append(part_str, path[tmp_path])
      /\ tmp_path' = tmp_path + 1 /\ UNCHANGED <<path, root, parts, strs, structs, pc, ret>>
  BY DEF CopyChar
<1>2. tmp_path \in 1 .. Len(path) /\ path[tmp_path] # "/" /\ Len(path) \in Nat
  BY DEF CopyChar, InPart, AtEnd, PInv, PTypes
<1>3. path[tmp_path] \in STRING
  BY <1>2 DEF PInv, PTypes
<1>4. /\ part_str' \in Seq(STRING) /\ Len(part_str) \in Nat /\ Len(part_str') = Len(part_str) + 1
      /\ part_str'[Len(part_str) + 1] = path[tmp_path]
      /\ \A x \in 1 .. Len(part_str) : part_str'[x] = part_str[x]
  BY <1>1, <1>3 DEF PInv, PTypes
<1>5. PTypes'
  BY <1>1, <1>2, <1>4 DEF PInv, PTypes
<1>6. PCount'
  BY <1>1 DEF PInv, PCount
<1>7. /\ root /\ Len(path) <= MaxPath /\ Len(parts) \in Nat
      /\ Len(parts) + Len(part_str) + 4 <= tmp_path
  BY <1>1 DEF PInv, PCount, PFit, PTypes, Building
<1>8. PFit'
  <2>1. Len(part_str') + 1 <= MaxPath
    BY <1>2, <1>4, <1>7, PathAssumption
  <2>2. Len(parts) + Len(part_str') + 4 <= tmp_path + 1
    BY <1>2, <1>4, <1>7
  <2> QED
    BY <1>1, <2>1, <2>2 DEF PInv, PFit
<1>9. PICK at \in Places(path, parts) : AtPart(at[Len(parts) + 1])
  BY <1>7 DEF PInv, PCuts
<1>10. AtPart(at[Len(parts) + 1])'
  <2> DEFINE a == at[Len(parts) + 1]
  <2>1. a \in Nat /\ a >= 4 /\ tmp_path = Position(a) + Len(part_str) /\ Holds(path, Position(a), part_str)
    BY <1>1, <1>9 DEF AtPart
  <2>2. Position(a) \in Nat
    BY <2>1, <1>2 DEF Position
  <2> HIDE DEF a
  <2>3. tmp_path + 1 = Position(a) + Len(part_str')
    BY <2>1, <2>2, <1>4, <1>2
  <2>4. (Position(a) + (Len(part_str) + 1)) - 1 = tmp_path
    BY <2>1, <2>2, <1>4, <1>2
  <2>5. Holds(path, Position(a), part_str')
    <3> SUFFICES ASSUME NEW x \in 1 .. Len(part_str')
                 PROVE  part_str'[x] = path[(Position(a) + x) - 1] /\ part_str'[x] # "/"
      BY DEF Holds
    <3>1. CASE x = Len(part_str) + 1
      BY <3>1, <2>4, <1>2, <1>4
    <3>2. CASE x # Len(part_str) + 1
      <4>1. x \in 1 .. Len(part_str)
        BY <3>2, <1>4
      <4> QED
        BY <4>1, <2>1, <1>4 DEF Holds
    <3> QED
      BY <3>1, <3>2
  <2>6. AtPart(a)'
    BY <2>1, <2>3, <2>5, <1>1 DEF AtPart, Position, a
  <2> QED
    BY <2>6, <1>1 DEF a
<1>11. PCuts' /\ PRefused'
  BY <1>1, <1>9, <1>10 DEF PCuts, PRefused
<1> QED
  BY <1>5, <1>6, <1>8, <1>11 DEF PInv

LEMMA ParserEndsPart == PInv /\ EndPart => PInv'
<1> SUFFICES ASSUME PInv, EndPart PROVE PInv'
  OBVIOUS
<1>1. /\ pc = "copy" /\ ~ InPart
      /\ tmp_path' = (IF AtEnd THEN tmp_path ELSE tmp_path + 1)
      /\ strs' = (IF part_str = <<>> THEN strs - 1 ELSE strs)
      /\ pc' = (IF part_str = <<>> THEN "empty" ELSE "struct")
      /\ UNCHANGED <<path, root, parts, part_str, structs, ret>>
  BY DEF EndPart
<1>2. /\ tmp_path \in 1 .. Len(path) + 1 /\ Len(path) \in Nat /\ Len(parts) \in Nat
      /\ Len(part_str) \in Nat /\ strs \in Nat
  BY DEF PInv, PTypes
<1>3. /\ root /\ ret = 0 /\ strs = Len(parts) + 1 /\ structs = Len(parts)
      /\ Len(parts) + Len(part_str) + 4 <= tmp_path
  BY <1>1 DEF PInv, PCount, PFit, Building
<1>4. IsSep(path, tmp_path) /\ (AtEnd <=> tmp_path = Len(path) + 1)
  BY <1>1, <1>2 DEF InPart, AtEnd, IsSep
<1>5. tmp_path' \in 1 .. Len(path) + 1 /\ strs' \in Nat /\ tmp_path' >= 4
  BY <1>1, <1>2, <1>3, <1>4
<1>6. PTypes'
  BY <1>1, <1>5 DEF PInv, PTypes
<1>7. PCount'
  BY <1>1, <1>2, <1>3 DEF PInv, PCount, Building
<1>8. PFit'
  <2>1. CASE part_str = <<>>
    <3>1. Len(parts) + 4 <= tmp_path'
      BY <1>1, <1>2, <1>3, <2>1
    <3> QED
      BY <1>1, <2>1, <3>1 DEF PInv, PFit
  <2>2. CASE part_str # <<>>
    <3>1. Len(part_str) >= 1
      BY <2>2 DEF PInv, PTypes
    <3>2. Len(parts) + 5 <= tmp_path'
      BY <1>1, <1>2, <1>3, <3>1
    <3> QED
      BY <1>1, <2>2, <3>2 DEF PInv, PFit
  <2> QED
    BY <2>1, <2>2
<1>9. PICK at \in Places(path, parts) : AtPart(at[Len(parts) + 1])
  BY <1>3 DEF PInv, PCuts
<1>10. AtPart(at[Len(parts) + 1])'
  <2> DEFINE a == at[Len(parts) + 1]
  <2>1. a \in Nat /\ a >= 4 /\ tmp_path = Position(a) + Len(part_str) /\ Holds(path, Position(a), part_str)
    BY <1>1, <1>9 DEF AtPart
  <2> HIDE DEF a
  <2>2. CASE part_str = <<>>
    <3>1. Len(part_str) = 0
      BY <2>2
    <3>2. IsSep(path, a)
      BY <2>1, <3>1, <1>2, <1>4 DEF Position, IsSep
    <3> QED
      BY <1>1, <2>1, <2>2, <3>2 DEF AtPart, a
  <2>3. CASE part_str # <<>>
    <3>1. Len(part_str) >= 1
      BY <2>3, <1>2 DEF PInv, PTypes
    <3>2. Position(a) = a /\ a + Len(part_str) <= Len(path) + 1
      BY <2>1, <3>1, <1>2 DEF Position
    <3>3. Holds(path, a, part_str) /\ IsSep(path, a + Len(part_str))
      BY <2>1, <3>2, <1>4
    <3>4. tmp_path' = Position(a + Len(part_str) + 1)
      BY <2>1, <3>2, <1>1, <1>2, <1>4 DEF Position
    <3>5. pc' = "struct"
      BY <1>1, <2>3
    <3> QED
      BY <1>1, <2>1, <2>3, <3>2, <3>3, <3>4, <3>5 DEF AtPart, Position, a
  <2> QED
    BY <2>2, <2>3
<1>11. PCuts' /\ PRefused'
  BY <1>1, <1>9, <1>10 DEF PCuts, PRefused
<1> QED
  BY <1>6, <1>7, <1>8, <1>11 DEF PInv

LEMMA ParserStops == PInv /\ NoMoreParts => PInv'
<1> SUFFICES ASSUME PInv, NoMoreParts PROVE PInv'
  OBVIOUS
<1>1. root
  BY DEF PInv, PCount, Building, NoMoreParts
<1>2. PICK at \in Places(path, parts) : AtPart(at[Len(parts) + 1])
  BY <1>1 DEF PInv, PCuts
<1>3. CASE parts = <<>>
  <2>1. Len(parts) + 1 = 1
    BY <1>3
  <2> at[Len(parts) + 1] = 4
    BY <1>2, <2>1 DEF Places, Cut
  <2>2. Malformed(path)
    BY <1>2 DEF AtPart, NoMoreParts, Malformed
  <2> QED
    BY <1>3, <2>2, ParserFails DEF NoMoreParts
<1>4. CASE parts # <<>>
  <2>1. /\ pc = "empty" /\ pc' = "done"
        /\ UNCHANGED <<path, tmp_path, part_str, root, parts, strs, structs, ret>>
    BY <1>4 DEF NoMoreParts
  <2>2. PTypes'
    BY <2>1 DEF PInv, PTypes
  <2>3. PCount'
    BY <2>1, <1>4 DEF PInv, PCount, Building
  <2>4. PFit'
    BY <2>1 DEF PInv, PFit, Building
  <2>5. AtPart(at[Len(parts) + 1])'
    BY <2>1, <1>2 DEF AtPart, Position
  <2>6. PCuts' /\ PRefused'
    BY <2>1, <1>2, <2>5 DEF PCuts, PRefused, PInv, PCount, EINVAGS
  <2> QED
    BY <2>2, <2>3, <2>4, <2>6 DEF PInv
<1> QED
  BY <1>3, <1>4

LEMMA AppendParts ==
  ASSUME NEW S, NEW ps \in Seq(S), NEW c \in S
  PROVE  /\ Len(Append(ps, c)) = Len(ps) + 1 /\ Append(ps, c)[Len(ps) + 1] = c
         /\ \A j \in 1 .. Len(ps) : Append(ps, c)[j] = ps[j]
OBVIOUS

(* One more part, and where the next one begins.                           *)
LEMMA CutOneMore ==
  ASSUME NEW p \in Seq(STRING), NEW ps \in Seq(Seq(STRING)), NEW at \in Places(p, ps),
         NEW c \in Seq(STRING), c # <<>>, NEW a, a = at[Len(ps) + 1],
         a + Len(c) <= Len(p) + 1, Holds(p, a, c), IsSep(p, a + Len(c))
  PROVE  \E b \in Places(p, Append(ps, c)) : b[Len(Append(ps, c)) + 1] = a + Len(c) + 1
<1> DEFINE n == Len(ps)
           qs == Append(ps, c)
           b == [j \in 1 .. n + 2 |-> IF j = n + 2 THEN a + Len(c) + 1 ELSE at[j]]
<1>1. n \in Nat /\ Len(c) \in Nat /\ Len(p) \in Nat
  OBVIOUS
<1>2. /\ Len(qs) = n + 1 /\ qs[n + 1] = c
      /\ \A j \in 1 .. n : qs[j] = ps[j]
  BY AppendParts
<1>3. at \in [1 .. n + 1 -> Starts(p)] /\ at[1] = 4 /\ Cut(p, ps, at)
  BY DEF Places, Cut
<1>4. a \in Starts(p)
  <2>1. a = at[n + 1]
    OBVIOUS
  <2> HIDE DEF n
  <2>2. n + 1 \in 1 .. n + 1
    BY <1>1
  <2> QED
    BY <1>3, <2>1, <2>2
<1> HIDE DEF n, qs
<1>5. b \in [1 .. (n + 1) + 1 -> Starts(p)] /\ b[1] = 4
  <2>1. (n + 1) + 1 = n + 2 /\ 1 \in 1 .. n + 2 /\ 1 # n + 2
    BY <1>1
  <2>2. \A j \in 1 .. n + 2 : j # n + 2 => at[j] \in Starts(p)
    BY <1>1, <1>3
  <2>3. a + Len(c) + 1 \in Starts(p)
    <3>1. /\ a \in Nat /\ a >= 4 /\ a + Len(c) + 1 \in 4 .. Len(p) + 2
          /\ (a + Len(c) + 1) - 1 = a + Len(c)
      BY <1>1, <1>4 DEF Starts
    <3> QED
      BY <3>1 DEF Starts
  <2> QED
    BY <2>1, <2>2, <2>3, <1>3
<1>6. \A j \in 1 .. n + 1 : b[j] = at[j]
  BY <1>1
<1>7. b[n + 2] = a + Len(c) + 1
  BY <1>1
<1> HIDE DEF b
<1>8. ASSUME NEW j \in 1 .. n + 1
      PROVE  /\ qs[j] # <<>>
             /\ b[j + 1] = b[j] + Len(qs[j]) + 1
             /\ Holds(p, b[j], qs[j])
  <2>1. CASE j = n + 1
    <3>1. b[j] = a /\ qs[j] = c /\ b[j + 1] = a + Len(c) + 1
      BY <2>1, <1>1, <1>2, <1>6, <1>7 DEF n
    <3> QED
      BY <3>1
  <2>2. CASE j # n + 1
    <3>1. j \in 1 .. n /\ j + 1 \in 1 .. n + 1
      BY <2>2, <1>1
    <3>2. b[j] = at[j] /\ b[j + 1] = at[j + 1] /\ qs[j] = ps[j]
      BY <3>1, <1>2, <1>6
    <3> QED
      BY <1>3, <3>1, <3>2 DEF Cut, n
  <2> QED
    BY <2>1, <2>2
<1>9. b \in Places(p, qs)
  BY <1>2, <1>5, <1>8 DEF Places, Cut
<1>10. b[Len(qs) + 1] = a + Len(c) + 1
  <2>1. Len(qs) + 1 = n + 2
    BY <1>1, <1>2
  <2> QED
    BY <2>1, <1>7
<1> QED
  BY <1>9, <1>10 DEF qs

LEMMA ParserLinks == PInv /\ LinkPart => PInv'
<1> SUFFICES ASSUME PInv, LinkPart PROVE PInv'
  OBVIOUS
<1>1. /\ pc = "struct" /\ pc' = "string" /\ structs' = structs + 1
      /\ parts' = Append(parts, part_str)
      /\ UNCHANGED <<path, tmp_path, root, part_str, strs, ret>>
  BY DEF LinkPart
<1>2. parts \in Seq(Seq(STRING)) /\ part_str \in Seq(STRING) /\ path \in Seq(STRING)
  BY DEF PInv, PTypes
<1>3. /\ parts' \in Seq(Seq(STRING)) /\ Len(parts') = Len(parts) + 1 /\ Len(parts) \in Nat
      /\ Len(part_str) \in Nat
  BY <1>1, <1>2
<1>4. root /\ ret = 0 /\ strs = Len(parts) + 1 /\ structs = Len(parts)
  BY <1>1 DEF PInv, PCount, Building
<1>5. PTypes'
  BY <1>1, <1>3 DEF PInv, PTypes
<1>6. PCount'
  BY <1>1, <1>3, <1>4 DEF PInv, PCount, Building
<1>7. PFit'
  <2>1. Len(parts') + 4 <= tmp_path /\ Len(parts') <= Len(path)
    BY <1>1, <1>2, <1>3 DEF PInv, PFit, PTypes
  <2> QED
    BY <1>1, <2>1 DEF PInv, PFit
<1>8. PICK at \in Places(path, parts) : AtPart(at[Len(parts) + 1])
  BY <1>4 DEF PInv, PCuts
<1> DEFINE a == at[Len(parts) + 1]
<1>9. /\ a \in Nat /\ a >= 4 /\ part_str # <<>> /\ a + Len(part_str) <= Len(path) + 1
      /\ Holds(path, a, part_str) /\ IsSep(path, a + Len(part_str))
      /\ tmp_path = Position(a + Len(part_str) + 1)
  BY <1>1, <1>8 DEF AtPart
<1>10. PICK b \in Places(path, Append(parts, part_str)) :
         b[Len(Append(parts, part_str)) + 1] = a + Len(part_str) + 1
  BY <1>2, <1>8, <1>9, CutOneMore
<1>11. AtPart(b[Len(parts) + 1])'
  <2>0. PICK d \in Nat : d = a + Len(part_str) + 1
    BY <1>3, <1>9
  <2>1. d >= 4 /\ tmp_path = Position(d)
    BY <1>3, <1>9, <2>0
  <2>2. b[Len(parts') + 1] = d
    BY <1>1, <1>10, <2>0
  <2>3. AtPart(d)'
    BY <1>1, <2>1 DEF AtPart, Position
  <2> QED
    BY <2>2, <2>3
<1>12. PCuts' /\ PRefused'
  BY <1>1, <1>10, <1>11 DEF PCuts, PRefused
<1> QED
  BY <1>5, <1>6, <1>7, <1>12 DEF PInv

(* Both give everything back.                                              *)
LEMMA ParserGivesBack == PInv /\ (LinkFails \/ pathparser_free) => PInv'
<1> SUFFICES ASSUME PInv, LinkFails \/ pathparser_free PROVE PInv'
  OBVIOUS
<1>1. /\ root' = FALSE /\ parts' = <<>> /\ UNCHANGED <<path, tmp_path, part_str>>
      /\ \/ pc' = "done" /\ ret' = -ENOMEM
         \/ pc' = "freed" /\ ret' = 0
  BY DEF LinkFails, pathparser_free
<1>2. strs' = 0 /\ structs' = 0
  <2>1. Len(parts) \in Nat
    BY DEF PInv, PTypes
  <2> QED
    BY <2>1 DEF LinkFails, pathparser_free, PInv, PCount
<1>3. PTypes'
  <2>1. parts' \in Seq(Seq(STRING))
    BY <1>1, NoParts, Zenon
  <2> QED
    BY <1>1, <1>2, <2>1 DEF PInv, PTypes
<1>4. PCount'
  BY <1>1, <1>2, NoParts DEF PCount, Building, ENOMEM
<1>5. PFit'
  BY <1>1 DEF PInv, PFit, Building
<1>6. PCuts' /\ PRefused'
  BY <1>1 DEF PCuts, PRefused, ENOMEM, EINVAGS
<1> QED
  BY <1>3, <1>4, <1>5, <1>6 DEF PInv

LEMMA ParserStutters == PInv /\ UNCHANGED vars => PInv'
<1> SUFFICES ASSUME PInv, UNCHANGED vars PROVE PInv'
  OBVIOUS
<1>1. UNCHANGED <<path, tmp_path, root, parts, part_str, strs, structs, pc, ret>>
  BY DEF vars
<1>2. PCuts'
  BY <1>1 DEF PInv, PCuts, AtPart, Position
<1> QED
  BY <1>1, <1>2 DEF PInv, PTypes, PCount, PFit, PRefused

LEMMA ParserStep == PInv /\ [FNext]_fvars => PInv'
<1> SUFFICES ASSUME PInv, [FNext]_fvars PROVE PInv'
  OBVIOUS
<1>1. CASE pathparser_parse
  BY <1>1, ParserChecks, ParserCreatesRoot, ParserAllocates, ParserCopies, ParserEndsPart,
     ParserStops, ParserLinks, ParserGivesBack DEF pathparser_parse
<1>2. CASE FreePath
  BY <1>2, ParserGivesBack DEF FreePath
<1>3. CASE UNCHANGED vars
  BY <1>3, ParserStutters
<1> QED
  BY <1>1, <1>2, <1>3 DEF FNext, fvars, OpenRefused, OpenGoesOn, file_new_descriptor, fclose

-----------------------------------------------------------------------------
(* Names *)

(* Every non-empty set of naturals has a least element.                    *)
LEMMA LeastNatural ==
  ASSUME NEW S \in SUBSET Nat, S # {}
  PROVE  \E m \in S : \A x \in S : m <= x
<1> DEFINE R == OpToRel(<, Nat)
<1>1. IsWellFoundedOn(R, Nat)
  BY NatLessThanWellFounded, Zenon
<1>2. \A x, y \in Nat : x < y => <<x, y>> \in R
  BY DEF OpToRel
<1> HIDE DEF R
<1>3. PICK m \in S : \A x \in S : ~(<<x, m>> \in R)
  BY <1>1, WFMin, Zenon
<1>4. ASSUME NEW x \in S PROVE m <= x
  <2>1. m \in Nat /\ x \in Nat
    OBVIOUS
  <2>2. ~(x < m)
    BY <1>2, <1>3, <2>1, Zenon
  <2> QED
    BY <2>1, <2>2
<1> QED
  BY <1>4

LEMMA IntervalSize ==
  ASSUME NEW n \in Nat
  PROVE  IsFiniteSet(1 .. n) /\ Cardinality(1 .. n) = n
<1>1. CASE n = 0
  <2>1. 1 .. n = {}
    BY <1>1
  <2> QED
    BY <1>1, <2>1, FS_EmptySet
<1>2. CASE n # 0
  <2>1. 1 \in Int /\ n \in Int /\ ~(1 > n)
    BY <1>2
  <2>2. IsFiniteSet(1 .. n) /\ Cardinality(1 .. n) = n - 1 + 1
    BY <2>1, FS_Interval
  <2> QED
    BY <2>2
<1> QED
  BY <1>1, <1>2

(* The string up to the first space is the string without its padding.     *)
LEMMA ProperString ==
  ASSUME NEW s \in Seq(STRING), Padded(s)
  PROVE  /\ fat16_to_proper_string(s) = Unpadded(s)
         /\ Unpadded(s) \in Seq(STRING)
         /\ Len(s) >= 1 /\ s[1] # Space => Len(Unpadded(s)) >= 1 /\ Unpadded(s)[1] = s[1]
         /\ s = <<>> \/ s[1] = Space <=> Unpadded(s) = <<>>
<1> DEFINE stops == {j \in DOMAIN s : s[j] = Space} \cup {Len(s) + 1}
           full == {j \in DOMAIN s : s[j] # Space}
           m == CHOOSE j \in stops : \A x \in stops : j <= x
<1>1. Len(s) \in Nat /\ DOMAIN s = 1 .. Len(s) /\ \A x \in 1 .. Len(s) : s[x] \in STRING
  OBVIOUS
<1>2. stops \in SUBSET Nat /\ stops # {}
  BY <1>1
<1>3. m \in stops /\ \A x \in stops : m <= x
  <2>1. \E j \in stops : \A x \in stops : j <= x
    BY <1>2, LeastNatural
  <2> QED
    BY <2>1
<1>4. m \in 1 .. Len(s) + 1
  BY <1>1, <1>3
<1>5. \A x \in 1 .. Len(s) : s[x] # Space <=> x < m
  <2>1. ASSUME NEW x \in 1 .. Len(s), x < m PROVE s[x] # Space
    BY <1>1, <1>3, <1>4, <2>1
  <2>2. ASSUME NEW x \in 1 .. Len(s), ~(x < m) PROVE s[x] = Space
    <3>1. m \in 1 .. Len(s) /\ s[m] = Space
      BY <1>1, <1>3, <1>4, <2>2
    <3>2. CASE x = m
      BY <3>1, <3>2
    <3>3. CASE x # m
      <4>1. m < x
        BY <1>4, <2>2, <3>3
      <4> QED
        BY <1>1, <3>1, <4>1 DEF Padded
    <3> QED
      BY <3>2, <3>3
  <2> QED
    BY <2>1, <2>2
<1>6. fat16_to_proper_string(s) = SubSeq(s, 1, m - 1)
  BY DEF fat16_to_proper_string
<1> HIDE DEF stops, m
<1>7. full = 1 .. m - 1
  BY <1>1, <1>4, <1>5
<1>8. Cardinality(full) = m - 1
  <2>1. m - 1 \in Nat
    BY <1>4
  <2> QED
    BY <2>1, <1>7, IntervalSize
<1>9. Unpadded(s) = SubSeq(s, 1, m - 1)
  BY <1>8 DEF Unpadded
<1>10. /\ Unpadded(s) \in Seq(STRING) /\ Len(Unpadded(s)) = m - 1
       /\ \A x \in 1 .. m - 1 : Unpadded(s)[x] = s[x]
  BY <1>4, <1>9
<1>11. Len(s) >= 1 /\ s[1] # Space => m - 1 >= 1
  BY <1>1, <1>4, <1>5
<1>12. s = <<>> \/ s[1] = Space => m - 1 = 0
  <2>1. CASE s = <<>>
    BY <2>1, <1>1, <1>4
  <2>2. CASE s # <<>> /\ s[1] = Space
    <3>1. Len(s) >= 1
      BY <2>2
    <3> QED
      BY <3>1, <2>2, <1>1, <1>4, <1>5
  <2> QED
    BY <2>1, <2>2
<1>13. s # <<>> /\ s[1] # Space => Unpadded(s) # <<>>
  <2> SUFFICES ASSUME s # <<>>, s[1] # Space PROVE Unpadded(s) # <<>>
    OBVIOUS
  <2>1. Len(s) >= 1
    OBVIOUS
  <2>2. Len(Unpadded(s)) >= 1
    BY <2>1, <1>10, <1>11
  <2> QED
    BY <2>2
<1>14. s = <<>> \/ s[1] = Space => Unpadded(s) = <<>>
  BY <1>10, <1>12
<1>15. Len(s) >= 1 /\ s[1] # Space => Len(Unpadded(s)) >= 1 /\ Unpadded(s)[1] = s[1]
  BY <1>4, <1>10, <1>11
<1>16. s = <<>> \/ s[1] = Space <=> Unpadded(s) = <<>>
  BY <1>13, <1>14, Zenon
<1>17. fat16_to_proper_string(s) = Unpadded(s)
  BY <1>6, <1>9, Zenon
<1> QED
  BY <1>10, <1>15, <1>16, <1>17, Zenon

(* What the code compares is the name.                                     *)
LEMMA RelativeFilename ==
  ASSUME NEW name \in Names, Padded(name.base), Padded(name.ext)
  PROVE  fat16_get_full_relative_filename(name) = NameOf(name)
<1>1. name.base \in Seq(STRING) /\ name.ext \in Seq(STRING)
  BY DEF Names
<1>2. /\ fat16_to_proper_string(name.base) = Unpadded(name.base)
      /\ fat16_to_proper_string(name.ext) = Unpadded(name.ext)
      /\ Unpadded(name.base) \in Seq(STRING)
      /\ name.ext = <<>> \/ name.ext[1] = Space <=> Unpadded(name.ext) = <<>>
  BY <1>1, ProperString
<1> QED
  BY <1>2, Zenon DEF fat16_get_full_relative_filename, NameOf

-----------------------------------------------------------------------------
(* Directories *)

(* What DiskAssumption says of an entry of the disk.                       *)
LEMMA DiskEntry ==
  ASSUME disk \in Disks, NEW d \in DOMAIN disk, NEW x \in DOMAIN disk[d], NEW e, e = disk[d][x]
  PROVE  /\ e.kind \in {"file", "dir"} /\ e.to \in DOMAIN disk \cup {Nowhere}
         /\ e.name \in Names /\ e.name.base \in Seq(STRING) /\ e.name.base # <<>>
         /\ Padded(e.name.base) /\ Padded(e.name.ext)
         /\ fat16_get_full_relative_filename(e.name) = NameOf(e.name)
<1> DEFINE E == [name : Names, kind : {"file", "dir"}, to : DOMAIN disk \cup {Nowhere}]
<1>1. /\ disk[d] \in Seq(E)
      /\ disk[d][x].name.base # <<>>
      /\ Padded(disk[d][x].name.base) /\ Padded(disk[d][x].name.ext)
  BY DiskAssumption
<1>2. e \in E
  <2> HIDE DEF E
  <2> QED
    BY <1>1
<1>3. e.name \in Names /\ e.kind \in {"file", "dir"} /\ e.to \in DOMAIN disk \cup {Nowhere}
  BY <1>2
<1>4. e.name.base \in Seq(STRING)
  BY <1>3 DEF Names
<1> QED
  BY <1>1, <1>3, <1>4, RelativeFilename

LEMMA DiskDirectory ==
  ASSUME disk \in Disks, NEW d \in DOMAIN disk
  PROVE  Len(disk[d]) \in Nat /\ DOMAIN disk[d] = 1 .. Len(disk[d])
<1> DEFINE E == [name : Names, kind : {"file", "dir"}, to : DOMAIN disk \cup {Nowhere}]
<1>1. disk[d] \in Seq(E)
  BY DiskAssumption
<1> HIDE DEF E
<1> QED
  BY <1>1

LEMMA CountBound ==
  ASSUME disk \in Disks, NEW d \in DOMAIN disk
  PROVE  /\ Count(d) \in 0 .. Len(disk[d])
         /\ (\A x \in DOMAIN disk[d] : ~ IsDeleted(disk[d][x])) => Count(d) = Len(disk[d])
<1> DEFINE S == {j \in DOMAIN disk[d] : ~ IsDeleted(disk[d][j])}
<1>1. Len(disk[d]) \in Nat /\ DOMAIN disk[d] = 1 .. Len(disk[d])
  BY DiskDirectory
<1>2. /\ IsFiniteSet(1 .. Len(disk[d])) /\ Cardinality(1 .. Len(disk[d])) = Len(disk[d])
  BY <1>1, IntervalSize
<1>3. S \in SUBSET (1 .. Len(disk[d]))
  BY <1>1
<1>4. (\A x \in DOMAIN disk[d] : ~ IsDeleted(disk[d][x])) => S = 1 .. Len(disk[d])
  BY <1>1
<1>5. Count(d) = Cardinality(S)
  BY DEF Count
<1> HIDE DEF S
<1>6. IsFiniteSet(S) /\ Cardinality(S) <= Cardinality(1 .. Len(disk[d]))
  BY <1>2, <1>3, FS_Subset
<1>7. Cardinality(S) \in Nat
  BY <1>6, FS_CardinalityType
<1>8. Count(d) \in 0 .. Len(disk[d])
  BY <1>1, <1>2, <1>5, <1>6, <1>7
<1> QED
  BY <1>2, <1>4, <1>5, <1>8

(* The first entries of a directory, as they are on the disk.              *)
LEMMA FirstEntries ==
  ASSUME disk \in Disks, NEW d \in DOMAIN disk, NEW n \in 0 .. Len(disk[d])
  PROVE  /\ Len(SubSeq(disk[d], 1, n)) = n
         /\ \A x \in 1 .. n : SubSeq(disk[d], 1, n)[x] = disk[d][x] /\ x \in DOMAIN disk[d]
<1> DEFINE E == [name : Names, kind : {"file", "dir"}, to : DOMAIN disk \cup {Nowhere}]
<1>1. disk[d] \in Seq(E) /\ Len(disk[d]) \in Nat /\ DOMAIN disk[d] = 1 .. Len(disk[d])
  BY DiskAssumption, DiskDirectory
<1> HIDE DEF E
<1> QED
  BY <1>1

-----------------------------------------------------------------------------
(* The walk: its inductive invariant *)

(* item was made for entry x of directory d.                               *)
MadeFor(item, n, d, x) == \E c \in BOOLEAN : item = Item(n, disk[d][x], c)

IsItem(item, n) == \E d \in DOMAIN disk : \E x \in DOMAIN disk[d] : MadeFor(item, n, d, x)

(* The directory that is searched, and how many of its entries are.        *)
Dir == IF k = 1 THEN Root ELSE current_item.entry.to
Size == IF k = 1 THEN total ELSE Count(current_item.entry.to)

Matches(x) == SameName(fat16_get_full_relative_filename(disk[Dir][x].name), parts[k])

(* A directory that was loaded, and can be searched.                       *)
Searchable(item) == item.content /\ item.entry.kind = "dir" => item.entry.to # Nowhere

FatTypes ==
  /\ disk \in Disks /\ total \in 0 .. Len(disk[Root]) /\ streams \subseteq Streams
  /\ step \in {"boot", "mounted", "unmounted", "open", "scan", "opened",
               "fd", "closed", "failed", "wild"}
  /\ k \in 0 .. Len(path) /\ i \in Nat
  /\ faulty \in BOOLEAN
  /\ current_item = NULL \/ \E n \in Nat \ {0} : IsItem(current_item, n)
  /\ f_item = NULL \/ \E n \in Nat \ {0} : IsItem(f_item, n)

(* While a directory is searched, current_item is that directory, and      *)
(* f_item an entry of it that was looked at and has the name.              *)
InScan ==
  /\ Parsed /\ k \in 1 .. Len(parts) /\ i >= 1
  /\ IF k = 1 THEN current_item = NULL
     ELSE /\ IsItem(current_item, k - 1) /\ Searchable(current_item)
          /\ current_item.entry.kind = "dir" /\ current_item.content
  /\ f_item # NULL =>
       /\ Searchable(f_item)
       /\ \E x \in 1 .. Size : x < i /\ Matches(x) /\ MadeFor(f_item, k, Dir, x)

Walk ==
  /\ step \in {"boot", "mounted", "unmounted", "open"} => current_item = NULL
  /\ step \in {"open", "opened", "fd"} => Parsed
  /\ step = "scan" => InScan

(* What is freed is held.                                                  *)
Keeps ==
  /\ stray = FALSE
  /\ step \in {"boot", "unmounted"} => held = {}
  /\ step \in {"mounted", "open"} => held \subseteq Private
  /\ step = "scan" => {Descriptor} \cup fat16_fat_item_free(current_item)
                         \cup fat16_fat_item_free(f_item) \subseteq held
  /\ step \in {"opened", "fd"} => {Descriptor} \cup fat16_fat_item_free(current_item) \subseteq held
  /\ \A b \in held : b[2] \in 0 .. Len(path)

WInv == FatTypes /\ Walk /\ Keeps

LEMMA ItemFacts ==
  ASSUME disk \in Disks, NEW item, NEW n \in Nat \ {0}, IsItem(item, n)
  PROVE  /\ item # NULL /\ item.n = n /\ item.content \in BOOLEAN
         /\ item.entry.kind \in {"file", "dir"} /\ item.entry.to \in DOMAIN disk \cup {Nowhere}
<1>0. PICK d \in DOMAIN disk : \E x \in DOMAIN disk[d] : MadeFor(item, n, d, x)
  BY DEF IsItem
<1>1. PICK x \in DOMAIN disk[d] : MadeFor(item, n, d, x)
  BY <1>0
<1>2. PICK c \in BOOLEAN : item = Item(n, disk[d][x], c)
  BY <1>1 DEF MadeFor
<1>3. item.n = n /\ item.entry = disk[d][x] /\ item.content = c
  BY <1>2 DEF Item
<1>4. item # NULL
  BY <1>3 DEF NULL
<1> QED
  BY <1>3, <1>4, DiskEntry

(* The blocks of an item carry its number, so no two items share one and   *)
(* none is of the mounted disk or of a descriptor.                         *)
LEMMA ItemBlocks ==
  ASSUME disk \in Disks, NEW item, NEW n \in Nat \ {0}, IsItem(item, n)
  PROVE  /\ \A b \in Blocks(item) : b[2] = n /\ b # Descriptor /\ b \notin Private
         /\ fat16_fat_item_free(item) \subseteq Blocks(item)
<1>1. item # NULL /\ item.n = n
  BY ItemFacts
<1>2. \A b \in Blocks(item) : \E w : b = <<w, n>>
  BY <1>1 DEF Blocks
<1>3. ASSUME NEW b, NEW w, b = <<w, n>> PROVE b[2] = n /\ b # Descriptor /\ b \notin Private
  BY <1>3 DEF Descriptor, Private
<1> QED
  BY <1>2, <1>3 DEF fat16_fat_item_free

LEMMA NoBlocks == Blocks(NULL) = {} /\ fat16_fat_item_free(NULL) = {}
BY DEF Blocks, fat16_fat_item_free

(* The entries in the search are those of Dir.                             *)
LEMMA ScannedEntries ==
  ASSUME FatTypes, InScan
  PROVE  /\ Dir \in DOMAIN disk /\ Size \in 0 .. Len(disk[Dir])
         /\ Len(Scanned) = Size
         /\ \A x \in 1 .. Size : Scanned[x] = disk[Dir][x] /\ x \in DOMAIN disk[Dir]
<1>1. Root \in DOMAIN disk
  BY DiskAssumption DEF FatTypes
<1>2. CASE k = 1
  <2>1. Dir = Root /\ Size = total /\ Scanned = SubSeq(disk[Root], 1, total)
    BY <1>2 DEF Dir, Size, Scanned
  <2> QED
    BY <1>1, <2>1, FirstEntries DEF FatTypes
<1>3. CASE k # 1
  <2> DEFINE d == current_item.entry.to
  <2>1. Dir = d /\ Size = Count(d) /\ Scanned = SubSeq(disk[d], 1, Count(d))
    BY <1>3 DEF Dir, Size, Scanned, Loaded
  <2>2. k - 1 \in Nat \ {0} /\ IsItem(current_item, k - 1) /\ d # Nowhere
    BY <1>3 DEF InScan, FatTypes, Searchable
  <2>3. d \in DOMAIN disk
    BY <2>2, ItemFacts DEF FatTypes
  <2> HIDE DEF d
  <2>4. Count(d) \in 0 .. Len(disk[d])
    BY <2>3, CountBound DEF FatTypes
  <2> QED
    BY <2>1, <2>3, <2>4, FirstEntries DEF FatTypes
<1> QED
  BY <1>2, <1>3

LEMMA WalkInit == FInit => WInv
<1> SUFFICES ASSUME FInit PROVE WInv
  OBVIOUS
<1>1. /\ disk \in Disks /\ total = 0 /\ streams = {} /\ step = "boot" /\ k = 0 /\ i = 0
      /\ current_item = NULL /\ f_item = NULL /\ held = {} /\ stray = FALSE /\ faulty = FALSE
  BY DEF FInit, FatInit
<1>2. Len(path) \in Nat /\ path \in Paths
  BY PathAssumption DEF FInit, Init
<1>3. Root \in DOMAIN disk
  BY <1>1, DiskAssumption
<1>4. Len(disk[Root]) \in Nat
  BY <1>1, <1>3, DiskDirectory
<1>5. FatTypes
  <2>1. total \in 0 .. Len(disk[Root]) /\ k \in 0 .. Len(path) /\ i \in Nat
    BY <1>1, <1>2, <1>4
  <2> QED
    BY <1>1, <2>1 DEF FatTypes
<1>6. Walk /\ Keeps
  BY <1>1 DEF Walk, Keeps
<1> QED
  BY <1>5, <1>6 DEF WInv

-----------------------------------------------------------------------------
(* The walk: every step keeps it *)

LEMMA PathLength == PInv => Len(path) \in Nat /\ (Parsed => Len(parts) \in 1 .. Len(path))
<1> SUFFICES ASSUME PInv PROVE Len(path) \in Nat /\ (Parsed => Len(parts) \in 1 .. Len(path))
  OBVIOUS
<1>1. Len(path) \in Nat /\ Len(parts) \in Nat /\ parts \in Seq(Seq(STRING))
  BY DEF PInv, PTypes
<1>2. ASSUME Parsed PROVE Len(parts) \in 1 .. Len(path)
  <2>1. root /\ parts # <<>>
    BY <1>2 DEF PInv, PCount, Parsed
  <2>2. Len(parts) <= Len(path)
    BY <2>1 DEF PInv, PFit
  <2>3. Len(parts) >= 1
    BY <1>1, <2>1
  <2> QED
    BY <1>1, <2>2, <2>3
<1> QED
  BY <1>1, <1>2

LEMMA WalkMounts == PInv /\ WInv /\ fat16_resolve /\ UNCHANGED vars => WInv'
<1> SUFFICES ASSUME PInv, WInv, fat16_resolve, UNCHANGED vars PROVE WInv'
  OBVIOUS
<1>1. Len(path) \in Nat /\ path' = path
  BY PathLength DEF vars
<1>2. /\ step = "boot" /\ held = {} /\ current_item = NULL
      /\ UNCHANGED <<disk, k, i, current_item, f_item, stray>>
  BY DEF fat16_resolve, WInv, Walk, Keeps
<1>3. PICK private, header, counted, dir \in BOOLEAN, s \in SUBSET Streams :
        LET ok == header /\ dir /\ "directory" \in s
            taken == {<<"private", 0>>} \cup {<<x, 0>> : x \in s}
        IN  /\ faulty' = ~(private /\ header /\ counted /\ dir /\ s = Streams)
            /\ IF ~private THEN step' = "wild" /\ UNCHANGED <<total, streams, held>>
               ELSE IF ok
               THEN /\ step' = "mounted" /\ streams' = s
                    /\ total' = fat16_get_root_directory(s, counted)
                    /\ held' = taken \cup {<<"root", 0>>}
               ELSE /\ step' = "unmounted" /\ held' = taken \ fat16_free_private(s)
                    /\ UNCHANGED <<total, streams>>
  BY DEF fat16_resolve
<1>4. Root \in DOMAIN disk /\ disk \in Disks
  BY DiskAssumption DEF WInv, FatTypes
<1>5. Count(Root) \in 0 .. Len(disk[Root]) /\ 0 \in 0 .. Len(disk[Root])
  BY <1>4, CountBound, DiskDirectory
<1>6. total' \in 0 .. Len(disk[Root])
  BY <1>3, <1>5 DEF WInv, FatTypes, fat16_get_root_directory
<1>7. step' \in {"mounted", "unmounted", "wild"} /\ streams' \subseteq Streams /\ faulty' \in BOOLEAN
  BY <1>3 DEF WInv, FatTypes
<1>8. held' \subseteq Private /\ (step' = "unmounted" => held' = {})
  BY <1>2, <1>3 DEF Private, fat16_free_private
<1>9. FatTypes'
  BY <1>1, <1>2, <1>6, <1>7 DEF WInv, FatTypes, IsItem, MadeFor
<1>10. Walk'
  BY <1>2, <1>7 DEF Walk
<1>11. \A b \in Private : b[2] = 0
  BY DEF Private
<1>12. Keeps'
  <2>1. \A b \in held' : b[2] \in 0 .. Len(path)
    BY <1>1, <1>8, <1>11
  <2> QED
    BY <1>1, <1>2, <1>7, <1>8, <2>1 DEF WInv, Keeps
<1> QED
  BY <1>9, <1>10, <1>12 DEF WInv

(* The parser leaves the file system alone, and works only before the walk.*)
LEMMA WalkParses == PInv /\ WInv /\ (pathparser_parse \/ FreePath) => WInv'
<1> SUFFICES ASSUME PInv, WInv, pathparser_parse \/ FreePath PROVE WInv'
  OBVIOUS
<1>1. /\ UNCHANGED <<disk, total, streams, step, k, i, current_item, f_item, held, stray, faulty>>
      /\ step \in {"mounted", "unmounted", "failed"}
  BY DEF pathparser_parse, FreePath, fatvars
<1>2. path' = path
  BY DEF pathparser_parse, FreePath, CheckPath, pathparser_create_root, AllocString, CopyChar,
         EndPart, NoMoreParts, LinkPart, LinkFails, pathparser_free
<1>3. FatTypes'
  BY <1>1, <1>2 DEF WInv, FatTypes, IsItem, MadeFor
<1>4. Walk' /\ Keeps'
  BY <1>1, <1>2 DEF WInv, Walk, Keeps, Blocks, fat16_fat_item_free
<1> QED
  BY <1>3, <1>4 DEF WInv

LEMMA WalkBegins ==
  PInv /\ WInv /\ (OpenRefused \/ OpenGoesOn \/ (fat16_open /\ UNCHANGED vars)) => WInv'
<1> SUFFICES ASSUME PInv, WInv, OpenRefused \/ OpenGoesOn \/ (fat16_open /\ UNCHANGED vars)
             PROVE  WInv'
  OBVIOUS
<1>1. /\ UNCHANGED <<path, parts, pc, ret>> /\ UNCHANGED <<disk, total, streams, current_item, stray>>
      /\ step \in {"mounted", "unmounted", "open"} /\ current_item = NULL /\ Len(path) \in Nat
  BY PathLength DEF OpenRefused, OpenGoesOn, CanOpen, fat16_open, Returns, vars, WInv, Walk
<1>2. CASE OpenRefused \/ OpenGoesOn
  <2>1. UNCHANGED <<k, i, f_item, held, faulty>> /\ step' \in {"failed", "open"}
    BY <1>2 DEF OpenRefused, OpenGoesOn, Returns
  <2>2. step' = "open" => step = "mounted" /\ Parsed
    BY <1>2 DEF OpenRefused, OpenGoesOn, Returns, CanOpen
  <2>3. FatTypes'
    BY <1>1, <2>1 DEF WInv, FatTypes, IsItem, MadeFor
  <2>4. Walk'
    BY <1>1, <2>1, <2>2 DEF Walk, Parsed
  <2>5. Keeps'
    BY <1>1, <2>1, <2>2 DEF WInv, Keeps
  <2> QED
    BY <2>3, <2>4, <2>5 DEF WInv
<1>3. CASE fat16_open /\ UNCHANGED vars
  <2>1. step = "open" /\ Parsed /\ Len(parts) \in 1 .. Len(path)
    BY <1>3, PathLength DEF fat16_open, WInv, Walk
  <2>2. CASE step' = "failed" /\ faulty' = TRUE /\ UNCHANGED <<k, i, f_item, held>>
    <3>1. FatTypes'
      BY <1>1, <2>2 DEF WInv, FatTypes, IsItem, MadeFor
    <3>2. Walk' /\ Keeps'
      BY <1>1, <2>1, <2>2 DEF WInv, Walk, Keeps
    <3> QED
      BY <3>1, <3>2 DEF WInv
  <2>3. CASE StartScan(1) /\ step' = "scan" /\ held' = held \cup {Descriptor} /\ UNCHANGED faulty
    <3>1. k' = 1 /\ i' = 1 /\ f_item' = NULL
      BY <2>3 DEF StartScan
    <3>2. 1 \in 0 .. Len(path) /\ 1 \in 1 .. Len(parts)
      BY <1>1, <2>1
    <3>3. FatTypes'
      BY <1>1, <2>3, <3>1, <3>2 DEF WInv, FatTypes
    <3>4. Walk'
      BY <1>1, <2>1, <2>3, <3>1, <3>2 DEF Walk, InScan, Parsed
    <3>5. Descriptor[2] = 0 /\ 0 \in 0 .. Len(path)
      BY <1>1 DEF Descriptor
    <3>6. fat16_fat_item_free(current_item') = {} /\ fat16_fat_item_free(f_item') = {}
      BY <1>1, <3>1, NoBlocks
    <3>7. Keeps'
      BY <1>1, <2>3, <3>1, <3>5, <3>6 DEF WInv, Keeps, fat16_fat_item_free, Blocks
    <3> QED
      BY <3>3, <3>4, <3>7 DEF WInv
  <2> QED
    BY <1>3, <2>2, <2>3 DEF fat16_open
<1> QED
  BY <1>2, <1>3

(* What the search knows when it looks at an entry.                        *)
LEMMA InScanFacts ==
  ASSUME PInv, WInv, step = "scan"
  PROVE  /\ FatTypes /\ InScan /\ disk \in Disks
         /\ k \in 1 .. Len(parts) /\ k \in Nat \ {0} /\ k \in 0 .. Len(path) /\ Len(path) \in Nat
         /\ Len(parts) \in Nat /\ i \in Nat \ {0}
         /\ (f_item # NULL => IsItem(f_item, k))
<1>1. FatTypes /\ InScan
  BY DEF WInv, Walk
<1>2. /\ disk \in Disks /\ k \in 1 .. Len(parts) /\ k \in 0 .. Len(path) /\ i \in Nat /\ i >= 1
      /\ Len(path) \in Nat /\ Len(parts) \in 1 .. Len(path)
  BY <1>1, PathLength DEF FatTypes, InScan
<1>3. k \in Nat \ {0} /\ i \in Nat \ {0} /\ Len(parts) \in Nat
  BY <1>2
<1>4. ASSUME f_item # NULL PROVE IsItem(f_item, k)
  <2>1. PICK x \in 1 .. Size : MadeFor(f_item, k, Dir, x)
    BY <1>1, <1>4 DEF InScan
  <2>2. Dir \in DOMAIN disk /\ x \in DOMAIN disk[Dir]
    BY <1>1, ScannedEntries
  <2> QED
    BY <2>1, <2>2 DEF IsItem
<1> QED
  BY <1>1, <1>2, <1>3, <1>4

LEMMA WalkLooks ==
  PInv /\ WInv /\ fat16_find_item_in_directory(parts) /\ UNCHANGED vars => WInv'
<1> SUFFICES ASSUME PInv, WInv, fat16_find_item_in_directory(parts), UNCHANGED vars PROVE WInv'
  OBVIOUS
<1>1. /\ UNCHANGED <<path, parts, pc, ret>> /\ UNCHANGED <<disk, total, streams, k, current_item, stray>>
      /\ step = "scan" /\ i <= Len(Scanned) /\ i' = i + 1
  BY DEF fat16_find_item_in_directory, vars
<1>2. /\ FatTypes /\ InScan /\ disk \in Disks /\ k \in Nat \ {0} /\ k \in 0 .. Len(path)
      /\ i \in Nat \ {0} /\ (f_item # NULL => IsItem(f_item, k))
  BY <1>1, InScanFacts
<1>3. /\ Dir \in DOMAIN disk /\ Size \in Nat /\ i \in 1 .. Size
      /\ Scanned[i] = disk[Dir][i] /\ i \in DOMAIN disk[Dir]
  <2>1. Size \in 0 .. Len(disk[Dir]) /\ Len(Scanned) = Size
    BY <1>2, ScannedEntries
  <2>2. Size \in Nat /\ i \in 1 .. Size
    BY <1>1, <1>2, <2>1
  <2> QED
    BY <1>2, <2>2, ScannedEntries
<1>4. Dir' = Dir /\ Size' = Size /\ \A x : Matches(x)' = Matches(x)
  BY <1>1 DEF Dir, Size, Matches, Count
<1>5. i' \in Nat /\ i' >= 1 /\ \A x \in 1 .. Size : x < i => x < i'
  BY <1>1, <1>2, <1>3
<1>6. CASE ~ SameName(fat16_get_full_relative_filename(Scanned[i].name), parts[k])
  <2>1. UNCHANGED <<step, f_item, held, faulty>>
    BY <1>6 DEF fat16_find_item_in_directory
  <2>2. FatTypes'
    BY <1>1, <1>2, <1>5, <2>1 DEF FatTypes, IsItem, MadeFor
  <2>3. f_item # NULL =>
          /\ Searchable(f_item)
          /\ \E x \in 1 .. Size : x < i' /\ Matches(x) /\ MadeFor(f_item, k, Dir, x)
    BY <1>2, <1>5 DEF InScan
  <2>4. InScan'
    BY <1>1, <1>2, <1>4, <1>5, <2>1, <2>3 DEF InScan, Parsed, IsItem, MadeFor, Searchable
  <2>5. Walk' /\ Keeps'
    BY <1>1, <2>1, <2>4 DEF WInv, Walk, Keeps
  <2> QED
    BY <2>2, <2>5 DEF WInv
<1>7. CASE SameName(fat16_get_full_relative_filename(Scanned[i].name), parts[k])
  <2>1. PICK item \in fat16_new_fat_item_for_directory_item(Scanned[i]) :
          /\ f_item' = item
          /\ held' = held \cup Blocks(item)
          /\ faulty' = (faulty \/ item = NULL \/ (CanLoad(Scanned[i]) /\ ~ item.content))
          /\ step' = IF item.content /\ item.entry.kind = "dir" /\ item.entry.to = Nowhere
                       THEN "wild" ELSE step
    BY <1>7 DEF fat16_find_item_in_directory
  <2>2. item = NULL \/ MadeFor(item, k, Dir, i)
    BY <1>3, <2>1 DEF fat16_new_fat_item_for_directory_item, MadeFor
  <2>3. item = NULL \/ IsItem(item, k)
    BY <1>3, <2>2 DEF IsItem
  <2>4. item.content \in BOOLEAN
    <3>1. NULL.content \in BOOLEAN
      BY DEF NULL
    <3> QED
      BY <1>2, <2>3, <3>1, ItemFacts
  <2>5. faulty' \in BOOLEAN /\ step' \in {"wild", "scan"} /\ (step' = "scan" => Searchable(item))
    BY <1>1, <2>1, <2>4 DEF Searchable
  <2>6. FatTypes'
    BY <1>1, <1>2, <1>5, <2>1, <2>3, <2>5 DEF FatTypes, IsItem, MadeFor
  <2>7. Matches(i)
    BY <1>3, <1>7 DEF Matches
  <2>8. i < i'
    BY <1>1, <1>2
  <2>9. step' = "scan" => InScan'
    BY <1>1, <1>2, <1>3, <1>4, <1>5, <2>1, <2>2, <2>5, <2>7, <2>8
       DEF InScan, Parsed, IsItem, MadeFor, Searchable
  <2>10. Walk'
    BY <2>5, <2>9 DEF Walk
  <2>11. /\ \A b \in Blocks(item) : b[2] \in 0 .. Len(path)
         /\ fat16_fat_item_free(item) \subseteq Blocks(item)
    BY <1>2, <2>3, NoBlocks, ItemBlocks
  <2>12. Keeps'
    BY <1>1, <2>1, <2>5, <2>11 DEF WInv, Keeps
  <2> QED
    BY <2>6, <2>10, <2>12 DEF WInv
<1> QED
  BY <1>6, <1>7

LEMMA WalkMisses == PInv /\ WInv /\ NotFound /\ UNCHANGED vars => WInv'
<1> SUFFICES ASSUME PInv, WInv, NotFound, UNCHANGED vars PROVE WInv'
  OBVIOUS
<1>1. /\ UNCHANGED <<path, disk, total, streams, k, i, f_item, current_item, faulty>>
      /\ step = "scan" /\ step' = "failed" /\ Frees({Descriptor})
  BY DEF NotFound, vars
<1>2. FatTypes'
  BY <1>1 DEF WInv, FatTypes, IsItem, MadeFor
<1>3. Walk' /\ Keeps'
  BY <1>1 DEF WInv, Walk, Keeps, Frees
<1> QED
  BY <1>2, <1>3 DEF WInv

(* The item that was current and the one found share no block.             *)
LEMMA ItemsApart ==
  ASSUME PInv, WInv, step = "scan"
  PROVE  /\ fat16_fat_item_free(current_item) \cap fat16_fat_item_free(f_item) = {}
         /\ Descriptor \notin fat16_fat_item_free(current_item)
         /\ Descriptor \notin fat16_fat_item_free(f_item)
<1>1. /\ InScan /\ disk \in Disks /\ k \in Nat \ {0} /\ (f_item # NULL => IsItem(f_item, k))
  BY InScanFacts
<1>2. Descriptor \notin fat16_fat_item_free(f_item) /\ \A b \in fat16_fat_item_free(f_item) : b[2] = k
  BY <1>1, NoBlocks, ItemBlocks
<1>3. CASE k = 1
  BY <1>1, <1>2, <1>3, NoBlocks DEF InScan
<1>4. CASE k # 1
  <2>1. k - 1 \in Nat \ {0} /\ IsItem(current_item, k - 1) /\ k - 1 # k
    BY <1>1, <1>4 DEF InScan
  <2>2. Descriptor \notin fat16_fat_item_free(current_item)
        /\ \A b \in fat16_fat_item_free(current_item) : b[2] = k - 1
    BY <1>1, <2>1, ItemBlocks
  <2> QED
    BY <1>2, <2>1, <2>2
<1> QED
  BY <1>3, <1>4

LEMMA WalkGoesOn == PInv /\ WInv /\ NextPart(parts) /\ UNCHANGED vars => WInv'
<1> SUFFICES ASSUME PInv, WInv, NextPart(parts), UNCHANGED vars PROVE WInv'
  OBVIOUS
<1>1. /\ UNCHANGED <<path, parts, pc, ret>> /\ UNCHANGED <<disk, total, streams, faulty>>
      /\ step = "scan" /\ f_item # NULL /\ step' = After(parts) /\ current_item' = f_item
      /\ Frees(fat16_fat_item_free(current_item)
                 \cup IF After(parts) = "failed" THEN {Descriptor} ELSE {})
      /\ IF After(parts) = "scan" THEN StartScan(k + 1) ELSE UNCHANGED <<k, i, f_item>>
  BY DEF NextPart, vars
<1>2. /\ FatTypes /\ InScan /\ disk \in Disks /\ k \in Nat \ {0} /\ k \in 0 .. Len(path)
      /\ k \in 1 .. Len(parts) /\ Len(parts) \in Nat /\ IsItem(f_item, k) /\ Len(parts) \in 1 .. Len(path)
  BY <1>1, InScanFacts, PathLength DEF InScan
<1>3. f_item.content \in BOOLEAN /\ f_item.entry.kind \in {"file", "dir"} /\ Searchable(f_item)
  BY <1>1, <1>2, ItemFacts DEF InScan
<1>4. /\ After(parts) \in {"opened", "failed", "scan", "wild"}
      /\ After(parts) = "scan" => k < Len(parts) /\ f_item.entry.kind = "dir" /\ f_item.content
  BY <1>2, <1>3 DEF After
<1>5. FatTypes'
  <2>1. CASE After(parts) = "scan"
    <3>1. k' = k + 1 /\ i' = 1 /\ f_item' = NULL
      BY <1>1, <2>1 DEF StartScan
    <3>2. k + 1 \in 0 .. Len(path)
      BY <1>2, <1>4, <2>1
    <3> QED
      BY <1>1, <1>2, <2>1, <3>1, <3>2 DEF FatTypes, IsItem, MadeFor
  <2>2. CASE After(parts) # "scan"
    BY <1>1, <1>2, <1>4, <2>2 DEF FatTypes, IsItem, MadeFor
  <2> QED
    BY <2>1, <2>2
<1>6. Walk'
  <2>1. CASE After(parts) = "scan"
    <3>1. k' = k + 1 /\ i' = 1 /\ f_item' = NULL
      BY <1>1, <2>1 DEF StartScan
    <3>2. k' # 1 /\ k' \in 1 .. Len(parts) /\ k' - 1 = k
      BY <1>2, <1>4, <2>1, <3>1
    <3>3. IsItem(current_item, k - 1)'
      BY <1>1, <1>2, <3>2 DEF IsItem, MadeFor
    <3>4. InScan'
      BY <1>1, <1>2, <1>3, <1>4, <2>1, <3>1, <3>2, <3>3 DEF InScan, Parsed, Searchable
    <3> QED
      BY <1>1, <2>1, <3>4 DEF Walk
  <2>2. CASE After(parts) # "scan"
    BY <1>1, <1>2, <1>4, <2>2 DEF Walk, InScan, Parsed
  <2> QED
    BY <2>1, <2>2
<1>7. Keeps'
  <2>1. /\ {Descriptor} \cup fat16_fat_item_free(current_item)
             \cup fat16_fat_item_free(f_item) \subseteq held
        /\ stray = FALSE
    BY <1>1 DEF WInv, Keeps
  <2>2. stray' = FALSE /\ held' \subseteq held
    BY <1>1, <2>1 DEF Frees
  <2>3. After(parts) # "failed" => {Descriptor} \cup fat16_fat_item_free(f_item) \subseteq held'
    BY <1>1, <2>1, ItemsApart DEF Frees
  <2>4. After(parts) = "scan" => fat16_fat_item_free(f_item') = {}
    BY <1>1, NoBlocks DEF StartScan
  <2> QED
    BY <1>1, <1>4, <2>2, <2>3, <2>4 DEF WInv, Keeps
<1> QED
  BY <1>5, <1>6, <1>7 DEF WInv

LEMMA WalkEnds == PInv /\ WInv /\ (file_new_descriptor \/ fclose) => WInv'
<1> SUFFICES ASSUME PInv, WInv, file_new_descriptor \/ fclose PROVE WInv'
  OBVIOUS
<1>1. /\ UNCHANGED <<path, parts, pc, ret>> /\ UNCHANGED <<disk, total, streams, k, i, f_item>>
      /\ step \in {"opened", "fd"}
  BY DEF file_new_descriptor, fclose, Returns, fat16_close, vars
<1>2. CASE step = "opened" /\ Returns("fd")
  <2>1. FatTypes'
    BY <1>1, <1>2 DEF WInv, FatTypes, IsItem, MadeFor, Returns
  <2>2. Walk' /\ Keeps'
    BY <1>1, <1>2 DEF WInv, Walk, Keeps, Returns, Parsed
  <2> QED
    BY <2>1, <2>2 DEF WInv
<1>3. ASSUME NEW next \in {"failed", "closed"}, fat16_close(next) PROVE WInv'
  <2>1. /\ step' = next /\ current_item' = NULL
        /\ faulty' = (faulty \/ next = "failed")
        /\ Frees(fat16_fat_item_free(current_item) \cup {Descriptor})
    BY <1>3 DEF fat16_close
  <2>2. FatTypes'
    BY <1>1, <2>1 DEF WInv, FatTypes, IsItem, MadeFor
  <2>3. Walk' /\ Keeps'
    BY <1>1, <2>1 DEF WInv, Walk, Keeps, Frees
  <2> QED
    BY <2>2, <2>3 DEF WInv
<1> QED
  BY <1>2, <1>3 DEF file_new_descriptor, fclose

LEMMA WalkStep == PInv /\ WInv /\ [FNext]_fvars => WInv'
<1> SUFFICES ASSUME PInv, WInv, [FNext]_fvars PROVE WInv'
  OBVIOUS
<1>1. CASE UNCHANGED fvars
  <2>1. UNCHANGED <<path, parts, pc, ret>>
        /\ UNCHANGED <<disk, total, streams, step, k, i, current_item, f_item, held, stray, faulty>>
    BY <1>1 DEF fvars, vars, fatvars
  <2>2. FatTypes'
    BY <2>1 DEF WInv, FatTypes, IsItem, MadeFor
  <2>3. InScan => InScan'
    BY <2>1 DEF InScan, Parsed, IsItem, MadeFor, Searchable, Dir, Size, Matches, Count
  <2>4. Walk' /\ Keeps'
    BY <2>1, <2>3 DEF WInv, Walk, Keeps, Parsed
  <2> QED
    BY <2>2, <2>4 DEF WInv
<1> QED
  BY <1>1, WalkMounts, WalkParses, WalkBegins, WalkLooks, WalkMisses, WalkGoesOn, WalkEnds DEF FNext

-----------------------------------------------------------------------------
(* Deleted entries *)

(* No path has the character that marks deleted entries.                   *)
CleanPaths == \A p \in Paths : \A j \in DOMAIN p : tolower(<<p[j]>>) # tolower(<<Deleted>>)

(* A part begins with a character of the path.                             *)
LEMMA PartBegins ==
  ASSUME PInv, Parsed, NEW j \in 1 .. Len(parts)
  PROVE  /\ parts[j] \in Seq(STRING) /\ Len(parts[j]) >= 1
         /\ \E y \in DOMAIN path : parts[j][1] = path[y]
<1>1. parts \in Seq(Seq(STRING)) /\ path \in Seq(STRING) /\ root
  BY DEF PInv, PTypes, PCount, Parsed
<1>2. /\ parts[j] \in Seq(STRING) /\ Len(parts[j]) \in Nat /\ Len(parts) \in Nat /\ Len(path) \in Nat
      /\ DOMAIN path = 1 .. Len(path)
  BY <1>1
<1>3. PICK at \in Places(path, parts) : TRUE
  BY <1>1 DEF PInv, PCuts
<1>4. /\ at \in [1 .. Len(parts) + 1 -> Starts(path)] /\ parts[j] # <<>>
      /\ at[j + 1] = at[j] + Len(parts[j]) + 1
      /\ Holds(path, at[j], parts[j])
  BY <1>3 DEF Places, Cut
<1>5. Len(parts[j]) >= 1
  BY <1>2, <1>4
<1>6. at[j] \in Starts(path) /\ at[j + 1] \in Starts(path)
  <2>1. j \in 1 .. Len(parts) + 1 /\ j + 1 \in 1 .. Len(parts) + 1
    BY <1>2
  <2> QED
    BY <1>4, <2>1
<1>7. at[j] \in DOMAIN path
  <2>1. at[j] \in 4 .. Len(path) + 2 /\ at[j + 1] \in 4 .. Len(path) + 2
    BY <1>6 DEF Starts
  <2>2. at[j + 1] = at[j] + Len(parts[j]) + 1
    BY <1>4
  <2>3. at[j] \in 1 .. Len(path)
    BY <1>2, <1>5, <2>1, <2>2
  <2> QED
    BY <1>2, <2>3
<1>8. 1 \in 1 .. Len(parts[j]) /\ (at[j] + 1) - 1 = at[j]
  BY <1>2, <1>5, <1>6 DEF Starts
<1>9. parts[j][1] = path[at[j]]
  BY <1>4, <1>8 DEF Holds
<1> QED
  BY <1>2, <1>5, <1>7, <1>9

LEMMA SeqWiden ==
  ASSUME NEW S, NEW T, S \subseteq T, NEW s \in Seq(S)
  PROVE  s \in Seq(T)
OBVIOUS

LEMMA PrependType ==
  ASSUME NEW S, NEW c \in S, NEW t \in Seq(S)
  PROVE  <<c>> \o t \in Seq(S)
OBVIOUS

LEMMA ConcatFirst ==
  ASSUME NEW S, NEW s \in Seq(S), Len(s) >= 1, NEW t \in Seq(S)
  PROVE  1 \in DOMAIN (s \o t) /\ (s \o t)[1] = s[1]
OBVIOUS

(* The name of a deleted entry begins with its mark.                       *)
LEMMA DeletedName ==
  ASSUME disk \in Disks, NEW d \in DOMAIN disk, NEW x \in DOMAIN disk[d], IsDeleted(disk[d][x])
  PROVE  /\ 1 \in DOMAIN NameOf(disk[d][x].name)
         /\ NameOf(disk[d][x].name)[1] = Deleted
<1> DEFINE name == disk[d][x].name
           ext == IF Unpadded(name.ext) = <<>> THEN <<>> ELSE <<".">> \o Unpadded(name.ext)
<1>1. /\ name \in Names /\ name.base \in Seq(STRING) /\ name.base # <<>>
      /\ Padded(name.base) /\ Padded(name.ext)
  BY DiskEntry
<1>2. name.ext \in Seq(STRING)
  BY <1>1 DEF Names
<1>3. Len(name.base) >= 1 /\ name.base[1] = Deleted /\ name.base[1] # Space
  BY <1>1, DiskAssumption DEF IsDeleted
<1>4. Unpadded(name.base) \in Seq(STRING) /\ Len(Unpadded(name.base)) >= 1
      /\ Unpadded(name.base)[1] = Deleted
  BY <1>1, <1>3, ProperString
<1>5. Unpadded(name.ext) \in Seq(STRING)
  BY <1>1, <1>2, ProperString
<1>6. NameOf(name) = Unpadded(name.base) \o ext
  BY DEF NameOf
<1> HIDE DEF name
<1> DEFINE T == STRING \cup {"."}
<1>7. STRING \subseteq T /\ "." \in T
  OBVIOUS
<1> HIDE DEF T
<1>8. 1 \in DOMAIN NameOf(name) /\ NameOf(name)[1] = Deleted
  <2>1. Unpadded(name.base) \in Seq(T) /\ Unpadded(name.ext) \in Seq(T)
    BY <1>4, <1>5, <1>7, SeqWiden
  <2>2. <<>> \in Seq(T) /\ <<".">> \o Unpadded(name.ext) \in Seq(T)
    BY <1>7, <2>1, PrependType
  <2>3. ext \in Seq(T)
    BY <2>2
  <2> HIDE DEF ext
  <2> QED
    BY <1>4, <1>6, <2>1, <2>3, ConcatFirst
<1> QED
  BY <1>8 DEF name

(* The search takes no deleted entry, for its name has the mark.           *)
LEMMA TakenNotDeleted ==
  ASSUME CleanPaths, PInv, FatTypes, InScan, NEW x \in 1 .. Size, Matches(x)
  PROVE  ~ IsDeleted(disk[Dir][x])
<1>1. disk \in Disks /\ Dir \in DOMAIN disk /\ x \in DOMAIN disk[Dir] /\ Parsed /\ k \in 1 .. Len(parts)
  BY ScannedEntries DEF FatTypes, InScan
<1>2. tolower(NameOf(disk[Dir][x].name)) = tolower(parts[k])
  BY <1>1, DiskEntry DEF Matches, SameName
<1> SUFFICES ASSUME IsDeleted(disk[Dir][x]) PROVE FALSE
  OBVIOUS
<1> DEFINE name == NameOf(disk[Dir][x].name)
           part == parts[k]
<1>3. 1 \in DOMAIN name /\ name[1] = Deleted
  BY <1>1, DeletedName
<1>4. part \in Seq(STRING) /\ Len(part) >= 1
  BY <1>1, PartBegins
<1>5. PICK y \in DOMAIN path : part[1] = path[y]
  BY <1>1, PartBegins
<1>6. 1 \in DOMAIN part
  BY <1>4
<1>7. tolower(name) = tolower(part)
  BY <1>2
<1> HIDE DEF name, part
<1>8. tolower(name)[1] = tolower(<<Deleted>>)[1] /\ tolower(part)[1] = tolower(<<path[y]>>)[1]
  BY <1>3, <1>5, <1>6 DEF tolower
<1>9. tolower(<<Deleted>>)[1] = tolower(<<path[y]>>)[1]
  BY <1>7, <1>8
<1>10. tolower(<<Deleted>>) = tolower(<<path[y]>>)
  BY <1>9 DEF tolower
<1>11. path \in Paths
  BY DEF PInv, PTypes
<1> QED
  BY <1>5, <1>10, <1>11 DEF CleanPaths

-----------------------------------------------------------------------------
(* What the file system holds, when no directory has a name twice *)

(* No two entries of a directory that are not deleted have one name.       *)
DistinctNames ==
  \A dk \in Disks : \A d \in DOMAIN dk : \A x, y \in DOMAIN dk[d] :
    /\ ~ IsDeleted(dk[d][x]) /\ ~ IsDeleted(dk[d][y])
    /\ SameName(fat16_get_full_relative_filename(dk[d][x].name),
                fat16_get_full_relative_filename(dk[d][y].name))
    => x = y

(* The blocks of h that are neither arrays nor of the mounted disk.        *)
Files(h) == {b \in h : b[1] # "array" /\ b \notin Private}

Exact ==
  /\ step = "scan" => Files(held) = {Descriptor} \cup fat16_fat_item_free(current_item)
                                       \cup fat16_fat_item_free(f_item)
  /\ step \in {"opened", "fd"} => Files(held) = {Descriptor} \cup fat16_fat_item_free(current_item)
  /\ step = "failed" => Files(held) \subseteq fat16_fat_item_free(current_item)
  /\ step = "closed" => Files(held) = {}

LEMMA FilesOfItem ==
  ASSUME disk \in Disks, NEW item, NEW n \in Nat \ {0}, item = NULL \/ IsItem(item, n)
  PROVE  Files(Blocks(item)) = fat16_fat_item_free(item)
<1>1. CASE item = NULL
  BY <1>1, NoBlocks DEF Files
<1>2. CASE IsItem(item, n)
  BY <1>2, ItemBlocks DEF Files, fat16_fat_item_free
<1> QED
  BY <1>1, <1>2

LEMMA DescriptorIsFile == Files({Descriptor}) = {Descriptor} /\ \A h \in SUBSET Private : Files(h) = {}
<1>1. Descriptor[1] # "array" /\ Descriptor \notin Private
  BY DEF Descriptor, Private, Streams
<1> QED
  BY <1>1 DEF Files

(* Two entries with the name would be one.                                 *)
LEMMA OneMatch ==
  ASSUME DistinctNames, FatTypes, InScan, NEW x \in DOMAIN disk[Dir], NEW y \in DOMAIN disk[Dir],
         Matches(x), Matches(y), ~ IsDeleted(disk[Dir][x]), ~ IsDeleted(disk[Dir][y])
  PROVE  x = y
<1>1. Dir \in DOMAIN disk /\ disk \in Disks
  BY ScannedEntries DEF FatTypes
<1>2. SameName(fat16_get_full_relative_filename(disk[Dir][x].name),
               fat16_get_full_relative_filename(disk[Dir][y].name))
  BY DEF Matches, SameName
<1> QED
  BY <1>1, <1>2 DEF DistinctNames

LEMMA ExactStep ==
  ASSUME CleanPaths, DistinctNames, PInv, WInv, Exact, [FNext]_fvars
  PROVE  Exact'
<1>1. CASE UNCHANGED fvars
  BY <1>1 DEF fvars, fatvars, Exact
<1>2. CASE fat16_resolve
  BY <1>2 DEF fat16_resolve, Exact
<1>3. CASE pathparser_parse \/ FreePath
  BY <1>3 DEF pathparser_parse, FreePath, fatvars, Exact
<1>4. CASE OpenRefused \/ OpenGoesOn
  <2>1. /\ step' \in {"failed", "open"} /\ held' = held /\ held \subseteq Private
        /\ step \in {"mounted", "unmounted"}
    BY <1>4 DEF OpenRefused, OpenGoesOn, CanOpen, Returns, WInv, Keeps
  <2> QED
    BY <2>1, DescriptorIsFile DEF Exact
<1>5. CASE fat16_open
  <2>1. held \subseteq Private /\ current_item = NULL /\ current_item' = NULL
    BY <1>5 DEF fat16_open, WInv, Keeps, Walk
  <2>2. Files(held) = {}
    BY <2>1, DescriptorIsFile
  <2>3. CASE step' = "failed" /\ held' = held
    BY <2>2, <2>3 DEF Exact
  <2>4. CASE step' = "scan" /\ held' = held \cup {Descriptor} /\ f_item' = NULL
    BY <2>1, <2>2, <2>4, NoBlocks, DescriptorIsFile DEF Exact, Files
  <2> QED
    BY <1>5, <2>3, <2>4 DEF fat16_open, StartScan
<1>6. CASE fat16_find_item_in_directory(parts)
  <2>1. step = "scan" /\ i <= Len(Scanned) /\ current_item' = current_item
    BY <1>6 DEF fat16_find_item_in_directory
  <2>2. /\ FatTypes /\ InScan /\ disk \in Disks /\ k \in Nat \ {0} /\ i \in Nat \ {0}
    BY <2>1, InScanFacts
  <2>3. CASE UNCHANGED <<step, f_item, held, faulty>>
    BY <2>1, <2>3 DEF Exact
  <2>4. CASE SameName(fat16_get_full_relative_filename(Scanned[i].name), parts[k])
    <3>1. /\ Dir \in DOMAIN disk /\ i \in 1 .. Size
          /\ Scanned[i] = disk[Dir][i] /\ i \in DOMAIN disk[Dir]
      <4>1. Size \in 0 .. Len(disk[Dir]) /\ Len(Scanned) = Size
        BY <2>2, ScannedEntries
      <4>2. i \in 1 .. Size
        BY <2>1, <2>2, <4>1
      <4> QED
        BY <2>2, <4>2, ScannedEntries
    <3>2. Matches(i)
      BY <2>4, <3>1 DEF Matches
    <3>3. f_item = NULL
      <4> SUFFICES ASSUME f_item # NULL PROVE FALSE
        OBVIOUS
      <4>1. PICK x \in 1 .. Size : x < i /\ Matches(x)
        BY <2>2 DEF InScan
      <4>2. x \in DOMAIN disk[Dir]
        BY <2>2, ScannedEntries
      <4>3. ~ IsDeleted(disk[Dir][x]) /\ ~ IsDeleted(disk[Dir][i])
        BY <2>2, <3>1, <3>2, <4>1, TakenNotDeleted
      <4>4. x = i
        BY <2>2, <3>1, <3>2, <4>1, <4>2, <4>3, OneMatch
      <4> QED
        BY <2>2, <4>1, <4>4
    <3>4. PICK item \in fat16_new_fat_item_for_directory_item(Scanned[i]) :
            /\ f_item' = item
            /\ held' = held \cup Blocks(item)
            /\ step' = IF item.content /\ item.entry.kind = "dir" /\ item.entry.to = Nowhere
                         THEN "wild" ELSE step
      BY <1>6, <2>4 DEF fat16_find_item_in_directory
    <3>5. item = NULL \/ IsItem(item, k)
      BY <3>1, <3>4 DEF fat16_new_fat_item_for_directory_item, IsItem, MadeFor
    <3>6. Files(held') = Files(held) \cup fat16_fat_item_free(item)
      <4>1. Files(Blocks(item)) = fat16_fat_item_free(item)
        BY <2>2, <3>5, FilesOfItem
      <4> QED
        BY <3>4, <4>1 DEF Files
    <3> QED
      BY <2>1, <3>3, <3>4, <3>6, NoBlocks DEF Exact
  <2> QED
    BY <1>6, <2>3, <2>4 DEF fat16_find_item_in_directory
<1>7. CASE NotFound
  <2>1. step = "scan" /\ step' = "failed" /\ f_item = NULL /\ held' = held \ {Descriptor}
        /\ current_item' = current_item
    BY <1>7 DEF NotFound, Frees
  <2> QED
    BY <2>1, NoBlocks DEF Exact, Files
<1>8. CASE NextPart(parts)
  <2>1. /\ step = "scan" /\ step' = After(parts) /\ current_item' = f_item
        /\ held' = held \ (fat16_fat_item_free(current_item)
                              \cup IF After(parts) = "failed" THEN {Descriptor} ELSE {})
    BY <1>8 DEF NextPart, Frees
  <2>2. After(parts) = "scan" => f_item' = NULL
    BY <1>8 DEF NextPart, StartScan
  <2>3. After(parts) # "closed"
    <3>1. k \in 1 .. Len(parts) /\ Len(parts) \in Nat /\ f_item # NULL
      BY <1>8, <2>1, InScanFacts DEF NextPart
    <3>2. f_item.entry.kind \in {"file", "dir"}
      BY <2>1, <3>1, InScanFacts, ItemFacts
    <3> QED
      BY <3>1, <3>2 DEF After
  <2>4. /\ fat16_fat_item_free(current_item) \cap fat16_fat_item_free(f_item) = {}
        /\ Descriptor \notin fat16_fat_item_free(current_item)
    BY <2>1, ItemsApart
  <2>5. Files(held) = {Descriptor} \cup fat16_fat_item_free(current_item) \cup fat16_fat_item_free(f_item)
    BY <2>1 DEF Exact
  <2>6. After(parts) # "failed" => Files(held') = {Descriptor} \cup fat16_fat_item_free(f_item)
    BY <2>1, <2>4, <2>5 DEF Files
  <2>7. After(parts) = "failed" => Files(held') \subseteq fat16_fat_item_free(f_item)
    BY <2>1, <2>4, <2>5 DEF Files
  <2> QED
    BY <2>1, <2>2, <2>3, <2>6, <2>7, NoBlocks DEF Exact
<1>9. CASE file_new_descriptor \/ fclose
  <2>1. step \in {"opened", "fd"}
    BY <1>9 DEF file_new_descriptor, fclose
  <2>2. CASE Returns("fd")
    BY <2>1, <2>2 DEF Returns, Exact
  <2>3. CASE fat16_close("failed") \/ fat16_close("closed")
    BY <2>1, <2>3 DEF fat16_close, Frees, Exact, Files
  <2> QED
    BY <1>9, <2>2, <2>3 DEF file_new_descriptor, fclose
<1> QED
  BY <1>1, <1>2, <1>3, <1>4, <1>5, <1>6, <1>7, <1>8, <1>9 DEF FNext

-----------------------------------------------------------------------------
(* Which entry is opened *)

(* r is a route along the first n parts.                                   *)
RouteUpTo(r, n) ==
  \A j \in 1 .. n :
    IF j = 1 THEN r[j] \in Lookup(Root, parts[j])
    ELSE /\ r[j - 1].kind = "dir" /\ r[j - 1].to # Nowhere
         /\ r[j] \in Lookup(r[j - 1].to, parts[j])

(* It ends at entry e, and is over entries of the disk.                    *)
LeadsTo(r, n, e) ==
  /\ RouteUpTo(r, n) /\ r[n] = e
  /\ \A j \in 1 .. n : r[j] \in Candidates(parts)

Routed ==
  /\ step = "scan" /\ k > 1 => \E r : LeadsTo(r, k - 1, current_item.entry)
  /\ step \in {"opened", "fd"} => \E r : LeadsTo(r, Len(parts), current_item.entry)

(* An entry the search takes is one the part names.                        *)
LEMMA MatchNamed ==
  ASSUME CleanPaths, PInv, FatTypes, InScan, NEW x \in 1 .. Size, Matches(x)
  PROVE  disk[Dir][x] \in Lookup(Dir, parts[k])
<1>1. disk \in Disks /\ Dir \in DOMAIN disk /\ x \in DOMAIN disk[Dir] /\ Parsed /\ k \in 1 .. Len(parts)
  BY ScannedEntries DEF FatTypes, InScan
<1>2. tolower(NameOf(disk[Dir][x].name)) = tolower(parts[k])
  BY <1>1, DiskEntry DEF Matches, SameName
<1>3. ~ IsDeleted(disk[Dir][x])
  BY TakenNotDeleted
<1>4. disk[Dir][x] \in Range(disk[Dir])
  BY <1>1 DEF Range
<1> QED
  BY <1>2, <1>3, <1>4 DEF Lookup

(* And what the part names is taken by the search, if it gets there.       *)
LEMMA NamedMatches ==
  ASSUME FatTypes, InScan, NEW e \in Lookup(Dir, parts[k])
  PROVE  \E x \in DOMAIN disk[Dir] : e = disk[Dir][x] /\ Matches(x)
<1>1. disk \in Disks /\ Dir \in DOMAIN disk
  BY ScannedEntries DEF FatTypes
<1>2. PICK x \in DOMAIN disk[Dir] : e = disk[Dir][x]
  BY DEF Lookup, Range
<1>3. tolower(NameOf(e.name)) = tolower(parts[k])
  BY DEF Lookup
<1>4. Matches(x)
  BY <1>1, <1>2, <1>3, DiskEntry DEF Matches, SameName
<1> QED
  BY <1>2, <1>4

(* A route along one part more.                                            *)
LEMMA RouteGrows ==
  ASSUME CleanPaths, PInv, WInv, Routed, step = "scan", f_item # NULL
  PROVE  \E r : LeadsTo(r, k, f_item.entry)
<1>1. FatTypes /\ InScan /\ k \in Nat \ {0} /\ k \in DOMAIN parts /\ Dir \in DOMAIN disk
  BY InScanFacts, ScannedEntries DEF PInv, PTypes
<1>2. PICK x \in 1 .. Size : Matches(x) /\ MadeFor(f_item, k, Dir, x)
  BY <1>1 DEF InScan
<1>3. f_item.entry = disk[Dir][x]
  BY <1>2 DEF MadeFor, Item
<1>4. f_item.entry \in Lookup(Dir, parts[k])
  BY <1>1, <1>2, <1>3, MatchNamed
<1>7. f_item.entry \in Candidates(parts)
  BY <1>1, <1>4 DEF Candidates
<1>5. CASE k = 1
  <2> DEFINE r == [j \in 1 .. 1 |-> f_item.entry]
  <2>1. r[1] = f_item.entry /\ Dir = Root
    BY <1>5 DEF Dir
  <2> HIDE DEF r
  <2>2. \A j \in 1 .. k : j = 1
    BY <1>5
  <2> QED
    BY <1>4, <1>5, <1>7, <2>1, <2>2 DEF RouteUpTo, LeadsTo
<1>6. CASE k # 1
  <2>1. k > 1 /\ k - 1 \in 1 .. k
    BY <1>1, <1>6
  <2>2. PICK r : /\ RouteUpTo(r, k - 1) /\ r[k - 1] = current_item.entry
                 /\ \A j \in 1 .. k - 1 : r[j] \in Candidates(parts)
    BY <2>1 DEF Routed, LeadsTo
  <2> DEFINE q == [j \in 1 .. k |-> IF j = k THEN f_item.entry ELSE r[j]]
  <2>3. q[k] = f_item.entry /\ \A j \in 1 .. k - 1 : q[j] = r[j]
    BY <1>1
  <2> HIDE DEF q
  <2>4. Dir = current_item.entry.to /\ current_item.entry.kind = "dir" /\ current_item.entry.to # Nowhere
    BY <1>1, <1>6 DEF Dir, InScan, Searchable
  <2>5. ASSUME NEW j \in 1 .. k
        PROVE  IF j = 1 THEN q[j] \in Lookup(Root, parts[j])
               ELSE /\ q[j - 1].kind = "dir" /\ q[j - 1].to # Nowhere
                    /\ q[j] \in Lookup(q[j - 1].to, parts[j])
    <3>1. CASE j = k
      <4>1. q[j - 1] = current_item.entry /\ j # 1
        BY <1>1, <1>6, <2>2, <2>3, <3>1
      <4> QED
        BY <1>4, <2>3, <2>4, <3>1, <4>1
    <3>2. CASE j # k
      <4>1. j \in 1 .. k - 1 /\ (j # 1 => j - 1 \in 1 .. k - 1)
        BY <1>1, <3>2
      <4>2. q[j] = r[j] /\ (j # 1 => q[j - 1] = r[j - 1])
        BY <2>3, <4>1
      <4> QED
        BY <2>2, <4>1, <4>2 DEF RouteUpTo
    <3> QED
      BY <3>1, <3>2
  <2>6. RouteUpTo(q, k)
    BY <2>5 DEF RouteUpTo
  <2>7. \A j \in 1 .. k : j = k \/ j \in 1 .. k - 1
    BY <1>1
  <2> QED
    BY <1>7, <2>2, <2>3, <2>6, <2>7 DEF LeadsTo
<1> QED
  BY <1>5, <1>6

(* Where the route of a step is kept: the disk and the parts are.          *)
LEMMA RouteStays ==
  ASSUME disk' = disk, parts' = parts, NEW r, NEW n
  PROVE  RouteUpTo(r, n)' <=> RouteUpTo(r, n)
BY DEF RouteUpTo, Lookup, IsDeleted

LEMMA LeadStays ==
  ASSUME disk' = disk, parts' = parts, NEW r, NEW n, NEW e, LeadsTo(r, n, e)
  PROVE  LeadsTo(r, n, e)'
<1>1. \A d, name : Lookup(d, name)' = Lookup(d, name)
  BY DEF Lookup, IsDeleted
<1>2. Candidates(parts)' = Candidates(parts)
  BY <1>1 DEF Candidates
<1> QED
  BY <1>2, RouteStays DEF LeadsTo

LEMMA RoutedStays ==
  ASSUME Routed, disk' = disk, parts' = parts, current_item' = current_item,
         \/ step' = step /\ k' = k
         \/ step = "opened" /\ step' = "fd"
  PROVE  Routed'
<1>1. \A r, n, e : LeadsTo(r, n, e) => LeadsTo(r, n, e)'
  BY LeadStays
<1> QED
  BY <1>1 DEF Routed

LEMMA RoutedStep ==
  ASSUME CleanPaths, PInv, WInv, Routed, [FNext]_fvars
  PROVE  Routed'
<1>1. CASE NextPart(parts) /\ UNCHANGED vars
  <2>1. /\ step = "scan" /\ f_item # NULL /\ step' = After(parts) /\ current_item' = f_item
        /\ disk' = disk /\ parts' = parts
        /\ IF After(parts) = "scan" THEN StartScan(k + 1) ELSE UNCHANGED <<k, i, f_item>>
    BY <1>1 DEF NextPart, vars
  <2>2. PICK r : LeadsTo(r, k, f_item.entry)
    BY <2>1, RouteGrows
  <2>3. k \in Nat \ {0} /\ k \in 1 .. Len(parts) /\ Len(parts) \in Nat
        /\ f_item.entry.kind \in {"file", "dir"}
    BY <2>1, InScanFacts, ItemFacts
  <2>4. \A n, e : LeadsTo(r, n, e) => LeadsTo(r, n, e)'
    BY <2>1, LeadStays
  <2>5. CASE After(parts) = "scan"
    <3>1. step' = "scan" /\ k' = k + 1 /\ k' - 1 = k
      BY <2>1, <2>3, <2>5 DEF StartScan
    <3>2. LeadsTo(r, k - 1, current_item.entry)'
      BY <2>1, <2>2, <2>4, <3>1
    <3> QED
      BY <3>1, <3>2 DEF Routed
  <2>6. CASE After(parts) # "scan"
    <3>1. After(parts) \in {"opened", "fd"} => k = Len(parts)
      BY <2>3 DEF After
    <3>2. k = Len(parts) => LeadsTo(r, Len(parts), current_item.entry)'
      BY <2>1, <2>2, <2>4
    <3> QED
      BY <2>1, <2>6, <3>1, <3>2 DEF Routed
  <2> QED
    BY <2>5, <2>6
<1>3. CASE step' \notin {"scan", "opened", "fd"}
  BY <1>3 DEF Routed
<1>4. CASE step' = "scan" /\ k' = 1
  BY <1>4 DEF Routed
<1>5. CASE UNCHANGED fvars
  <2>1. disk' = disk /\ parts' = parts /\ current_item' = current_item /\ step' = step /\ k' = k
    BY <1>5 DEF fvars, vars, fatvars
  <2> QED
    BY <2>1, RoutedStays
<1>6. CASE fat16_resolve \/ pathparser_parse \/ FreePath \/ OpenRefused \/ OpenGoesOn \/ NotFound \/ fclose
  BY <1>6, <1>3 DEF fat16_resolve, pathparser_parse, FreePath, OpenRefused, OpenGoesOn, NotFound,
                   fclose, fat16_close, Returns, fatvars
<1>7. CASE fat16_open
  BY <1>7, <1>3, <1>4 DEF fat16_open, StartScan
<1>8. CASE fat16_find_item_in_directory(parts) /\ UNCHANGED vars
  <2>1. disk' = disk /\ parts' = parts /\ current_item' = current_item /\ k' = k /\ step = "scan"
    BY <1>8 DEF fat16_find_item_in_directory, vars
  <2>2. step' \in {"wild", "scan"}
    BY <1>8, <2>1 DEF fat16_find_item_in_directory
  <2>3. CASE step' = "wild"
    BY <2>3, <1>3
  <2>4. CASE step' = "scan"
    BY <2>1, <2>4, RoutedStays
  <2> QED
    BY <2>2, <2>3, <2>4
<1>9. CASE file_new_descriptor
  BY <1>9, <1>3, RoutedStays DEF file_new_descriptor, Returns, fat16_close, vars
<1> QED
  BY <1>1, <1>5, <1>6, <1>7, <1>8, <1>9 DEF FNext

-----------------------------------------------------------------------------
(* Which entries are found *)

(* entry is for no directory that can be loaded.                           *)
Astray(entry) == entry.to = Nowhere \/ Count(entry.to) = 0

(* While nothing failed, everything was looked at: the entries before i in *)
(* the directory, and the routes to it.                                    *)
Complete ==
  ~ faulty =>
    /\ step # "unmounted"
    /\ step \in {"mounted", "open", "scan"} => total = Count(Root) /\ streams = Streams
    /\ step = "scan" /\ f_item = NULL => \A x \in 1 .. Size : x < i => ~ Matches(x)
    /\ step = "scan" /\ f_item # NULL => f_item.content \/ Astray(f_item.entry)
    /\ step = "scan" /\ k > 1 /\ NothingDeleted =>
         \A r : RouteUpTo(r, k - 1) => r[k - 1] = current_item.entry
    /\ step = "failed" /\ Parsed /\ NothingDeleted /\ disk_get(path[1]) =>
         \A r : ~ RouteUpTo(r, Len(parts))
    /\ step = "wild" => Astray(f_item.entry)

(* At the end of a directory, the entry found is the only one a route can  *)
(* go through.                                                             *)
LEMMA OnlyRoute ==
  ASSUME DistinctNames, PInv, WInv, Complete, ~ faulty, step = "scan", NothingDeleted,
         i > Len(Scanned), NEW r, RouteUpTo(r, k)
  PROVE  f_item # NULL /\ r[k] = f_item.entry
<1>1. FatTypes /\ InScan /\ k \in Nat \ {0} /\ i \in Nat \ {0} /\ disk \in Disks
  BY InScanFacts
<1>2. /\ Dir \in DOMAIN disk /\ Len(Scanned) = Size
      /\ DOMAIN disk[Dir] = 1 .. Len(disk[Dir]) /\ Len(disk[Dir]) \in Nat
  BY <1>1, ScannedEntries, DiskDirectory
<1>3. Size = Len(disk[Dir])
  <2>1. \A x \in DOMAIN disk[Dir] : ~ IsDeleted(disk[Dir][x])
    BY <1>2 DEF NothingDeleted, Range
  <2>2. Size = Count(Dir)
    BY DEF Size, Dir, Complete
  <2> QED
    BY <1>1, <1>2, <2>1, <2>2, CountBound
<1>4. r[k] \in Lookup(Dir, parts[k])
  <2>1. k \in 1 .. k
    BY <1>1
  <2>2. CASE k = 1
    BY <2>1, <2>2 DEF RouteUpTo, Dir
  <2>3. CASE k # 1
    <3>1. k > 1 /\ \A j \in 1 .. k - 1 : j \in 1 .. k
      BY <1>1, <2>3
    <3>2. RouteUpTo(r, k - 1)
      BY <3>1 DEF RouteUpTo
    <3>3. r[k - 1] = current_item.entry
      BY <3>1, <3>2 DEF Complete
    <3> QED
      BY <2>1, <2>3, <3>3 DEF RouteUpTo, Dir
  <2> QED
    BY <2>2, <2>3
<1>5. PICK x \in DOMAIN disk[Dir] : r[k] = disk[Dir][x] /\ Matches(x)
  BY <1>1, <1>4, NamedMatches
<1>6. x \in 1 .. Size /\ x < i
  BY <1>1, <1>2, <1>3
<1>7. f_item # NULL
  BY <1>5, <1>6 DEF Complete
<1>8. PICK y \in 1 .. Size : Matches(y) /\ MadeFor(f_item, k, Dir, y)
  BY <1>1, <1>7 DEF InScan
<1>9. y \in DOMAIN disk[Dir] /\ f_item.entry = disk[Dir][y]
  BY <1>2, <1>3, <1>8 DEF MadeFor, Item
<1>10. ~ IsDeleted(disk[Dir][x]) /\ ~ IsDeleted(disk[Dir][y])
  BY <1>2, <1>9 DEF NothingDeleted, Range
<1>11. x = y
  BY <1>1, <1>5, <1>8, <1>9, <1>10, OneMatch
<1> QED
  BY <1>5, <1>7, <1>9, <1>11

LEMMA ShorterRoute ==
  ASSUME NEW n \in Nat, NEW m \in 0 .. n, NEW r, RouteUpTo(r, n)
  PROVE  RouteUpTo(r, m)
<1>1. \A j \in 1 .. m : j \in 1 .. n
  OBVIOUS
<1> QED
  BY <1>1 DEF RouteUpTo

LEMMA CompleteLooks ==
  ASSUME PInv, WInv, Complete, fat16_find_item_in_directory(parts), UNCHANGED vars
  PROVE  Complete'
<1>1. /\ UNCHANGED <<path, parts, pc, ret>> /\ UNCHANGED <<disk, total, streams, k, current_item, stray>>
      /\ step = "scan" /\ i <= Len(Scanned) /\ i' = i + 1
  BY DEF fat16_find_item_in_directory, vars
<1>2. FatTypes /\ InScan /\ k \in Nat \ {0} /\ i \in Nat \ {0}
  BY <1>1, InScanFacts
<1>3. /\ Size \in Nat /\ i \in 1 .. Size /\ Scanned[i] = disk[Dir][i]
      /\ Dir \in DOMAIN disk /\ i \in DOMAIN disk[Dir]
  <2>1. Size \in 0 .. Len(disk[Dir]) /\ Len(Scanned) = Size
    BY <1>2, ScannedEntries
  <2>2. Size \in Nat /\ i \in 1 .. Size
    BY <1>1, <1>2, <2>1
  <2> QED
    BY <1>2, <2>2, ScannedEntries
<1>4. /\ Size' = Size /\ (\A x : Matches(x)' = Matches(x)) /\ Count(Root)' = Count(Root)
      /\ NothingDeleted' = NothingDeleted /\ \A e : Astray(e)' <=> Astray(e)
  BY <1>1 DEF Dir, Size, Matches, Count, NothingDeleted, Astray, IsDeleted
<1>5. ASSUME NEW r PROVE RouteUpTo(r, k - 1)' <=> RouteUpTo(r, k - 1)
  BY <1>1, RouteStays
<1>6. CASE ~ SameName(fat16_get_full_relative_filename(Scanned[i].name), parts[k])
  <2>1. UNCHANGED <<step, f_item, held, faulty>>
    BY <1>6 DEF fat16_find_item_in_directory
  <2>2. ~ Matches(i)
    BY <1>3, <1>6 DEF Matches
  <2>3. \A x \in 1 .. Size : x < i' => x < i \/ x = i
    BY <1>1, <1>2, <1>3
  <2> QED
    BY <1>1, <1>4, <1>5, <2>1, <2>2, <2>3 DEF Complete
<1>7. CASE SameName(fat16_get_full_relative_filename(Scanned[i].name), parts[k])
  <2>1. PICK item \in fat16_new_fat_item_for_directory_item(Scanned[i]) :
          /\ f_item' = item
          /\ faulty' = (faulty \/ item = NULL \/ (CanLoad(Scanned[i]) /\ ~ item.content))
          /\ step' = IF item.content /\ item.entry.kind = "dir" /\ item.entry.to = Nowhere
                       THEN "wild" ELSE step
    BY <1>7 DEF fat16_find_item_in_directory
  <2>2. item # NULL => item.entry = Scanned[i]
    BY <2>1 DEF fat16_new_fat_item_for_directory_item, Item
  <2>3. ~ faulty' => ~ faulty /\ item # NULL /\ (item.content \/ Astray(item.entry))
    <3> SUFFICES ASSUME ~ faulty' PROVE item.content \/ Astray(Scanned[i])
      BY <2>1, <2>2
    <3>1. streams = Streams /\ {"cluster", "directory"} \subseteq Streams
      BY <1>1, <2>1 DEF Complete, Streams
    <3>2. Scanned[i].to \in DOMAIN disk \cup {Nowhere} /\ disk \in Disks
      BY <1>2, <1>3, DiskEntry DEF FatTypes
    <3>3. Scanned[i].to # Nowhere => Count(Scanned[i].to) \in Nat
      BY <3>2, CountBound, DiskDirectory
    <3> QED
      <4> SUFFICES ASSUME Scanned[i].to # Nowhere, Count(Scanned[i].to) # 0
                   PROVE  item.content
        BY DEF Astray
      <4>1. Count(Scanned[i].to) > 0
        BY <3>3
      <4>2. CanLoad(Scanned[i])
        BY <3>1, <4>1 DEF CanLoad
      <4> QED
        BY <2>1, <4>2
  <2>4. CASE step' = "wild"
    BY <1>1, <1>4, <2>1, <2>3, <2>4 DEF Complete, Astray
  <2>5. CASE step' = "scan"
    BY <1>1, <1>4, <1>5, <2>1, <2>3, <2>5 DEF Complete
  <2> QED
    BY <1>1, <2>1, <2>4, <2>5
<1> QED
  BY <1>6, <1>7

LEMMA CompleteMisses ==
  ASSUME DistinctNames, PInv, WInv, Complete, NotFound, UNCHANGED vars
  PROVE  Complete'
<1>1. /\ step = "scan" /\ step' = "failed" /\ i > Len(Scanned) /\ f_item = NULL
      /\ disk' = disk /\ parts' = parts /\ faulty' = faulty
  BY DEF NotFound, vars
<1>2. k \in 0 .. Len(parts) /\ Len(parts) \in Nat
  BY <1>1, InScanFacts
<1>3. ASSUME ~ faulty, NothingDeleted, NEW r PROVE ~ RouteUpTo(r, Len(parts))
  BY <1>1, <1>2, <1>3, ShorterRoute, OnlyRoute
<1>4. ASSUME NEW r PROVE RouteUpTo(r, Len(parts))' <=> RouteUpTo(r, Len(parts))
  BY <1>1, RouteStays
<1>5. NothingDeleted' = NothingDeleted
  BY <1>1 DEF NothingDeleted
<1> QED
  BY <1>1, <1>3, <1>4, <1>5 DEF Complete

LEMMA CompleteGoesOn ==
  ASSUME DistinctNames, PInv, WInv, Complete, NextPart(parts), UNCHANGED vars
  PROVE  Complete'
<1>1. /\ step = "scan" /\ i > Len(Scanned) /\ f_item # NULL /\ step' = After(parts)
      /\ current_item' = f_item /\ disk' = disk /\ parts' = parts /\ faulty' = faulty /\ total' = total
      /\ IF After(parts) = "scan" THEN StartScan(k + 1) ELSE UNCHANGED <<k, i, f_item>>
  BY DEF NextPart, vars
<1>2. /\ k \in 1 .. Len(parts) /\ k \in 0 .. Len(parts) /\ k \in Nat \ {0} /\ Len(parts) \in Nat
      /\ f_item.entry.kind \in {"file", "dir"}
  BY <1>1, InScanFacts, ItemFacts
<1>3. ASSUME ~ faulty, NothingDeleted, NEW r, RouteUpTo(r, k) PROVE r[k] = f_item.entry
  BY <1>1, <1>3, OnlyRoute
<1>4. /\ NothingDeleted' = NothingDeleted /\ Count(Root)' = Count(Root)
      /\ streams' = streams /\ \A e : Astray(e)' <=> Astray(e)
  BY <1>1 DEF NothingDeleted, Count, NextPart, Astray, IsDeleted
<1>5. CASE k = Len(parts)
  <2>1. step' = "opened"
    BY <1>1, <1>5 DEF After
  <2> QED
    BY <2>1 DEF Complete
<1>6. CASE k < Len(parts) /\ f_item.entry.kind = "file"
  <2>1. step' = "failed"
    BY <1>1, <1>2, <1>6 DEF After
  <2>2. ASSUME ~ faulty, NothingDeleted, NEW r PROVE ~ RouteUpTo(r, Len(parts))
    <3> SUFFICES ASSUME RouteUpTo(r, Len(parts)) PROVE FALSE
      OBVIOUS
    <3>1. r[k] = f_item.entry
      BY <1>2, <1>3, <2>2, ShorterRoute
    <3>2. k + 1 \in 1 .. Len(parts) /\ k + 1 # 1 /\ (k + 1) - 1 = k
      BY <1>2, <1>6
    <3>3. r[k].kind = "dir"
      BY <3>2 DEF RouteUpTo
    <3> QED
      BY <1>6, <3>1, <3>3
  <2>3. ASSUME NEW r PROVE RouteUpTo(r, Len(parts))' <=> RouteUpTo(r, Len(parts))
    BY <1>1, RouteStays
  <2> QED
    BY <1>1, <1>4, <2>1, <2>2, <2>3 DEF Complete
<1>7. CASE k < Len(parts) /\ f_item.entry.kind = "dir" /\ f_item.content
  <2>1. step' = "scan" /\ k' = k + 1 /\ i' = 1 /\ f_item' = NULL
    BY <1>1, <1>2, <1>7 DEF After, StartScan
  <2>2. Size' \in Nat
    <3>1. (PInv /\ WInv /\ step = "scan" => FatTypes /\ InScan)'
      BY InScanFacts, PTL
    <3>2. PInv' /\ WInv'
      BY ParserStutters, WalkGoesOn
    <3>3. (FatTypes /\ InScan => Size \in 0 .. Len(disk[Dir]))'
      BY ScannedEntries, PTL
    <3> QED
      BY <2>1, <3>1, <3>2, <3>3
  <2>3. \A x \in 1 .. Size' : ~(x < i')
    BY <2>1, <2>2
  <2>4. (k - 1)' = k
    BY <1>2, <2>1
  <2>5. ASSUME NEW r PROVE RouteUpTo(r, k - 1)' <=> RouteUpTo(r, k)
    BY <1>1, <2>4 DEF RouteUpTo, Lookup, IsDeleted
  <2>6. ASSUME ~ faulty, NothingDeleted, NEW r, RouteUpTo(r, k - 1)'
        PROVE  (r[k - 1] = current_item.entry)'
    BY <1>1, <1>3, <2>4, <2>5, <2>6
  <2> QED
    BY <1>1, <1>4, <2>1, <2>3, <2>6 DEF Complete
<1>8. CASE k < Len(parts) /\ f_item.entry.kind = "dir" /\ ~ f_item.content
  <2>1. step' = "wild" /\ f_item' = f_item
    BY <1>1, <1>2, <1>8 DEF After
  <2>2. ~ faulty => Astray(f_item.entry)
    BY <1>1, <1>8 DEF Complete
  <2> QED
    BY <1>1, <1>4, <2>1, <2>2 DEF Complete
<1> QED
  BY <1>2, <1>5, <1>6, <1>7, <1>8

LEMMA CompleteStep ==
  ASSUME DistinctNames, PInv, WInv, Complete, [FNext]_fvars
  PROVE  Complete'
<1>1. CASE UNCHANGED fvars
  <2>1. /\ UNCHANGED <<path, parts, pc, ret>>
        /\ UNCHANGED <<disk, total, streams, step, k, i, current_item, f_item, faulty>>
    BY <1>1 DEF fvars, vars, fatvars
  <2>2. /\ Size' = Size /\ (\A x : Matches(x)' = Matches(x)) /\ Count(Root)' = Count(Root)
        /\ (NothingDeleted' <=> NothingDeleted) /\ (Parsed' <=> Parsed)
        /\ \A e : Astray(e)' <=> Astray(e)
    BY <2>1 DEF Dir, Size, Matches, Count, NothingDeleted, Parsed, Astray, IsDeleted
  <2>3. \A r : /\ RouteUpTo(r, k - 1)' <=> RouteUpTo(r, k - 1)
               /\ RouteUpTo(r, Len(parts))' <=> RouteUpTo(r, Len(parts))
    BY <2>1 DEF RouteUpTo, Lookup, IsDeleted
  <2> QED
    BY <2>1, <2>2, <2>3, Zenon DEF Complete, disk_get
<1>2. CASE fat16_resolve
  <2>1. disk' = disk
    BY <1>2 DEF fat16_resolve
  <2>2. Count(Root)' = Count(Root)
    BY <2>1 DEF Count
  <2>3. ASSUME ~ faulty' PROVE step' = "mounted" /\ total' = Count(Root) /\ streams' = Streams
    <3>1. PICK private, header, counted, dir \in BOOLEAN, s \in SUBSET Streams :
            /\ faulty' = ~(private /\ header /\ counted /\ dir /\ s = Streams)
            /\ private /\ header /\ dir /\ "directory" \in s =>
                 /\ step' = "mounted" /\ total' = fat16_get_root_directory(s, counted)
                 /\ streams' = s
      BY <1>2 DEF fat16_resolve
    <3>2. private /\ header /\ counted /\ dir /\ s = Streams
      BY <2>3, <3>1
    <3>3. "directory" \in s
      BY <3>2 DEF Streams
    <3> QED
      BY <3>1, <3>2, <3>3 DEF fat16_get_root_directory
  <2> QED
    BY <2>2, <2>3 DEF Complete
<1>3. CASE pathparser_parse \/ FreePath
  <2>1. /\ UNCHANGED <<disk, total, streams, step, k, i, current_item, f_item, faulty>>
        /\ \/ step \in {"mounted", "unmounted"}
           \/ step = "failed" /\ ~ Parsed'
    BY <1>3 DEF pathparser_parse, FreePath, fatvars, pathparser_free, Parsed
  <2>2. Count(Root)' = Count(Root)
    BY <2>1 DEF Count
  <2> QED
    BY <2>1, <2>2 DEF Complete
<1>4. CASE OpenRefused \/ OpenGoesOn
  <2>1. /\ UNCHANGED <<path, parts, pc, ret>> /\ UNCHANGED <<disk, total, streams, faulty>>
        /\ step \in {"mounted", "unmounted"} /\ step' \in {"failed", "open"}
        /\ step' = "failed" => ~ CanOpen
        /\ step' = "open" => step = "mounted"
    BY <1>4 DEF OpenRefused, OpenGoesOn, CanOpen, Returns, vars
  <2>2. Count(Root)' = Count(Root)
    BY <2>1 DEF Count
  <2> QED
    BY <2>1, <2>2 DEF Complete, CanOpen, Parsed, disk_get
<1>5. CASE fat16_open
  <2>1. disk' = disk /\ total' = total /\ streams' = streams /\ step = "open"
    BY <1>5 DEF fat16_open
  <2>2. Count(Root)' = Count(Root)
    BY <2>1 DEF Count
  <2>3. CASE faulty' = TRUE
    BY <2>3 DEF Complete
  <2>4. CASE step' = "scan" /\ k' = 1 /\ i' = 1 /\ f_item' = NULL /\ faulty' = faulty
    <3>1. Size' = total
      BY <2>1, <2>4 DEF Size
    <3>2. total \in Nat
      <4>1. Root \in DOMAIN disk /\ disk \in Disks
        BY DiskAssumption DEF WInv, FatTypes
      <4>2. Len(disk[Root]) \in Nat
        BY <4>1, DiskDirectory
      <4> QED
        BY <4>2 DEF WInv, FatTypes
    <3>3. \A x \in 1 .. Size' : ~(x < i')
      BY <2>4, <3>1, <3>2
    <3> QED
      BY <2>1, <2>2, <2>4, <3>3 DEF Complete
  <2> QED
    BY <1>5, <2>3, <2>4 DEF fat16_open, StartScan
<1>6. CASE file_new_descriptor \/ fclose
  <2>1. CASE Returns("fd") \/ fat16_close("closed")
    BY <2>1 DEF Returns, fat16_close, Complete
  <2>2. CASE fat16_close("failed")
    BY <2>2 DEF fat16_close, Complete
  <2> QED
    BY <1>6, <2>1, <2>2 DEF file_new_descriptor, fclose
<1> QED
  BY <1>1, <1>2, <1>3, <1>4, <1>5, <1>6, CompleteLooks, CompleteMisses, CompleteGoesOn DEF FNext

-----------------------------------------------------------------------------
(* Theorems *)

LEMMA OpenInvariant == FSpec => [](PInv /\ WInv)
<1>1. FInit => PInv /\ WInv
  BY ParserInit, WalkInit DEF FInit
<1>2. PInv /\ WInv /\ [FNext]_fvars => (PInv /\ WInv)'
  BY ParserStep, WalkStep
<1> QED
  BY <1>1, <1>2, PTL DEF FSpec

(* A part and its terminator never leave the MaxPath bytes that            *)
(* pathparser_get_path_part allocates, whatever the path.                  *)
THEOREM PathPartFits == FSpec => []PartFits
<1>1. PInv => PartFits
  BY DEF PInv, PFit, PartFits
<1> QED
  BY <1>1, OpenInvariant, PTL

(* Whichever allocation of pathparser_parse fails, what was allocated is   *)
(* freed; a parse that succeeds holds a string and a struct for each part, *)
(* and pathparser_free frees them all.                                     *)
THEOREM PathNothingLost == FSpec => []NothingLost
<1>1. PInv => NothingLost
  <2> SUFFICES ASSUME PInv, pc \in {"done", "freed"}
               PROVE  /\ root = (pc = "done" /\ ret = 0)
                      /\ strs = Len(parts) /\ structs = Len(parts)
                      /\ ~ root => parts = <<>>
    BY DEF NothingLost
  <2>1. root \in BOOLEAN /\ Len(parts) \in Nat
    BY DEF PInv, PTypes
  <2>2. root <=> pc = "done" /\ ret = 0
    BY DEF PInv, PCount, Building
  <2>3. root = (pc = "done" /\ ret = 0)
    BY <2>1, <2>2
  <2> QED
    BY <2>1, <2>3 DEF PInv, PCount
<1> QED
  BY <1>1, OpenInvariant, PTL

(* pathparser_parse cuts every path it accepts into its components, each   *)
(* from where the one before ended up to the next slash, and stops at the  *)
(* first empty one; it refuses only a path that is too long, has no drive  *)
(* or has no component.                                                    *)
THEOREM PathParses == FSpec => []ParsesPath
<1>1. PInv => ParsesPath
  <2> SUFFICES ASSUME PInv, pc = "done" PROVE ParsesPath
    BY DEF ParsesPath
  <2>1. ASSUME ret = 0
        PROVE  /\ pathpraser_path_vaild_format(path) /\ parts # <<>>
               /\ Components(path, parts)
    <3>1. root /\ parts # <<>>
      BY <2>1 DEF PInv, PCount
    <3>2. pathpraser_path_vaild_format(path)
      BY <3>1 DEF PInv, PFit
    <3>3. PICK at \in Places(path, parts) : IsSep(path, at[Len(parts) + 1])
      BY <3>1 DEF PInv, PCuts, AtPart
    <3> QED
      BY <3>1, <3>2, <3>3 DEF Places, Components
  <2>2. ASSUME ret = -EINVAGS
        PROVE  \/ Len(path) > MaxPath
               \/ ~ pathpraser_path_vaild_format(path)
               \/ Components(path, <<>>)
    <3> SUFFICES ASSUME pathpraser_path_vaild_format(path), IsSep(path, 4)
                 PROVE  Components(path, <<>>)
      BY <2>2 DEF PInv, PRefused, Malformed
    <3>1. Len(path) \in Nat /\ Len(path) >= 3 /\ path[3] = "/"
      BY DEF PInv, PTypes, pathpraser_path_vaild_format
    <3>2. 4 \in Starts(path)
      BY <3>1 DEF Starts, IsSep
    <3> DEFINE at == [j \in 1 .. 1 |-> 4]
    <3>3. at \in [1 .. Len(<<>>) + 1 -> Starts(path)] /\ at[1] = 4
      BY <3>2, NoParts
    <3>4. Cut(path, <<>>, at) /\ IsSep(path, at[Len(<<>>) + 1])
      BY <3>3, NoParts DEF Cut
    <3> QED
      BY <3>3, <3>4 DEF Components
  <2> QED
    BY <2>1, <2>2 DEF ParsesPath, PInv, PTypes, EINVAGS, ENOMEM
<1> QED
  BY <1>1, OpenInvariant, PTL

(* No block of the file system is freed twice or freed while it is not     *)
(* held, whichever allocation or read fails on the way, and whatever       *)
(* names the disk has.                                                     *)
THEOREM OpenNoStrayFree == FSpec => [](stray = FALSE)
<1>1. WInv => stray = FALSE
  BY DEF WInv, Keeps
<1> QED
  BY <1>1, OpenInvariant, PTL

LEMMA OpenTypes == PInv /\ WInv => FTypeOK
<1> SUFFICES ASSUME PInv, WInv PROVE FTypeOK
  OBVIOUS
<1>1. TypeOK
  BY DEF PInv, PTypes, TypeOK
<1>2. NULL.content \in BOOLEAN
  BY DEF NULL
<1>3. current_item.content \in BOOLEAN /\ f_item.content \in BOOLEAN
  BY <1>2, ItemFacts DEF WInv, FatTypes
<1>4. stray \in BOOLEAN /\ \A b \in held : b[2] \in 0 .. Len(path)
  BY DEF WInv, Keeps
<1> QED
  BY <1>1, <1>3, <1>4 DEF FTypeOK, WInv, FatTypes

(* On disks whose directories have no name twice, and for paths without    *)
(* the mark of deleted entries, the file system holds exactly the blocks   *)
(* of the open file, beside those of the mounted disk and the arrays of    *)
(* directories: after fclose nothing of the file, and after a failure at   *)
(* most the item at which the search stopped.                              *)
THEOREM OpenHoldsOnly == ASSUME CleanPaths, DistinctNames PROVE FSpec => []HoldsOnly
<1>1. FInit => Exact
  BY DEF FInit, FatInit, Exact
<1>2. PInv /\ WInv /\ Exact /\ [FNext]_fvars => Exact'
  BY ExactStep
<1>3. PInv /\ WInv /\ Exact => HoldsOnly
  <2> SUFFICES ASSUME PInv, WInv, Exact PROVE HoldsOnly
    OBVIOUS
  <2>1. FTypeOK /\ ~ stray /\ (step = "unmounted" => held = {})
    BY OpenTypes DEF WInv, Keeps
  <2>2. (held \ Arrays) \ Private = Files(held)
    BY DEF Arrays, Files
  <2>3. fat16_fat_item_free(current_item) \subseteq Blocks(current_item)
        /\ fat16_fat_item_free(current_item) = {b \in Blocks(current_item) : b[1] # "array"}
    BY DEF fat16_fat_item_free
  <2> QED
    BY <2>1, <2>2, <2>3 DEF HoldsOnly, Exact
<1> QED
  BY <1>1, <1>2, <1>3, OpenInvariant, PTL DEF FSpec

(* For paths without the character that marks deleted entries, an item     *)
(* that was opened is an undeleted entry that the parts of the path lead   *)
(* to, one in the directory of the other.                                  *)
THEOREM OpenNamed == ASSUME CleanPaths PROVE FSpec => []OpensNamed
<1>1. FInit => Routed
  BY DEF FInit, FatInit, Routed
<1>2. PInv /\ WInv /\ Routed /\ [FNext]_fvars => Routed'
  BY RoutedStep
<1>3. PInv /\ WInv /\ Routed => OpensNamed
  <2> SUFFICES ASSUME PInv, WInv, Routed, step \in {"opened", "fd"}
               PROVE  current_item.entry \in Resolve(parts)
    BY DEF OpensNamed
  <2>1. PICK r : /\ RouteUpTo(r, Len(parts)) /\ r[Len(parts)] = current_item.entry
                 /\ \A j \in 1 .. Len(parts) : r[j] \in Candidates(parts)
    BY DEF Routed, LeadsTo
  <2>2. DOMAIN parts = 1 .. Len(parts) /\ Len(parts) \in Nat /\ Len(parts) >= 1
    BY PathLength DEF PInv, PTypes, WInv, Walk
  <2> DEFINE q == [j \in DOMAIN parts |-> r[j]]
  <2>3. q \in [DOMAIN parts -> Candidates(parts)] /\ q[Len(parts)] = current_item.entry
        /\ \A j \in 1 .. Len(parts) : q[j] = r[j] /\ (j # 1 => q[j - 1] = r[j - 1])
    BY <2>1, <2>2
  <2> HIDE DEF q
  <2>4. IsRoute(q, parts)
    BY <2>1, <2>2, <2>3 DEF IsRoute, RouteUpTo
  <2> QED
    BY <2>3, <2>4 DEF Resolve
<1> QED
  BY <1>1, <1>2, <1>3, OpenInvariant, PTL DEF FSpec

(* On disks whose directories have no name twice, when nothing fails, the  *)
(* walk does not miss a file: a path that was parsed and whose disk is     *)
(* mounted is refused only if it leads to no entry, unless deleted entries *)
(* hide others; and only an entry for the directory of cluster 0, or for a *)
(* directory without entries, leads astray.                                *)
THEOREM OpenFindsNamed == ASSUME DistinctNames PROVE FSpec => []FindsNamed
<1>1. FInit => Complete
  BY DEF FInit, FatInit, Complete
<1>2. PInv /\ WInv /\ Complete /\ [FNext]_fvars => Complete'
  BY CompleteStep
<1>3. PInv /\ WInv /\ Complete => FindsNamed
  <2> SUFFICES ASSUME PInv, WInv, Complete, ~ faulty, Parsed
               PROVE  /\ step = "failed" /\ NothingDeleted /\ disk_get(path[1])
                            => Resolve(parts) = {}
                      /\ step = "wild" => Astray(f_item.entry)
    BY DEF FindsNamed, Astray
  <2>1. DOMAIN parts = 1 .. Len(parts)
    BY DEF PInv, PTypes
  <2>2. \A r : IsRoute(r, parts) => RouteUpTo(r, Len(parts))
    BY <2>1 DEF IsRoute, RouteUpTo
  <2>3. ASSUME step = "failed", NothingDeleted, disk_get(path[1]) PROVE Resolve(parts) = {}
    <3>1. \A r : ~ RouteUpTo(r, Len(parts))
      BY <2>3 DEF Complete
    <3> QED
      BY <2>2, <3>1 DEF Resolve
  <2> QED
    BY <2>3 DEF Complete
<1> QED
  BY <1>1, <1>2, <1>3, OpenInvariant, PTL DEF FSpec

=============================================================================
