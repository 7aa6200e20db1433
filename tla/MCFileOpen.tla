----------------------------- MODULE MCFileOpen -----------------------------
(***************************************************************************)
(* Every path of up to three characters more than MaxPath over x and /, so *)
(* that one part alone may be longer than its buffer; malformed ones; and  *)
(* paths to what the disks have.  Names have two characters and one of     *)
(* extension.  The second disk has a deleted entry before others, the      *)
(* third a directory with none but a deleted one.                          *)
(***************************************************************************)
EXTENDS FileOpen

Rests == UNION {[1 .. n -> {"x", "/"}] : n \in 0 .. MaxPath}

MCPaths == {<<"0", ":", "/">> \o r : r \in Rests}
  \cup {<<>>, <<"0">>, <<"0", ":">>, <<"x", ":", "/", "x">>, <<"0", "/", "/", "x">>, <<"0", ":", "x", "/">>}
  \cup {<<"1", ":", "/", "x">>, <<"0", ":", "/", "x", "y", ".", "X">>, <<"0", ":", "/", "x", "y">>,
        <<"0", ":", "/", "X", "/", "x", ".", "x">>, <<"0", ":", "/", "x", "/", ".", ".">>}

Upper == [c \in {"X", "Y"} |-> IF c = "X" THEN "x" ELSE "y"]

Named(base, ext, kind, to) == [name |-> [base |-> base, ext |-> ext], kind |-> kind, to |-> to]
Dot(d) == Named(<<".", " ">>, <<" ">>, "dir", d)
DotDot(d) == Named(<<".", ".">>, <<" ">>, "dir", d)

Tree == [root |-> <<Named(<<"X", "Y">>, <<"X">>, "file", "root"),
                    Named(<<"X", " ">>, <<" ">>, "dir", "sub"),
                    Named(<<"X", "X">>, <<" ">>, "file", "root")>>,
         sub |-> <<Dot("sub"), DotDot(Nowhere),
                   Named(<<"X", " ">>, <<" ">>, "dir", "deep"),
                   Named(<<"X", " ">>, <<"X">>, "file", "sub"),
                   Named(<<"X", "X">>, <<" ">>, "file", "sub")>>,
         deep |-> <<Dot("deep"), DotDot("sub"), Named(<<"X", "X">>, <<" ">>, "file", "deep")>>]

Gone == Named(<<"E5", "X">>, <<" ">>, "file", "root")

MCDisks == {Tree, [Tree EXCEPT !.root = <<Gone>> \o @, !.sub = <<@[1], @[2], Gone, @[3], @[4], @[5]>>],
            [Tree EXCEPT !.sub = <<Gone>>]}

=============================================================================
