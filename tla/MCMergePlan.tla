---------------------------- MODULE MCMergePlan ----------------------------
(***************************************************************************)
(* Merges and reverts of up to three paths, of one text and of one program.*)
(***************************************************************************)
EXTENDS MergeContents

MCPathOrder == <<"a", "b", "c">>
MCExtension == [p \in Path |-> IF p = "c" THEN "txt" ELSE "py"]

Merges(op, bases, lefts, rights) ==
    [op : op, base : bases, left : lefts, right : rights]

Distinct(s) == \A i, j \in DOMAIN s : s[i] = s[j] => i = j

SeqsOf(S, lengths) == UNION {[1..n -> S] : n \in lengths}

Sole(files) == {[p \in Path |-> IF p = "a" THEN f ELSE NoFile] : f \in files}

-----------------------------------------------------------------------------
(* Three paths; the sides bring "z" and "w".                               *)

OfValue(v)    == IF v = "" THEN NoFile ELSE Binary("regular", v)
Trees(values) == {[p \in Path |-> OfValue(t[p])] : t \in [Path -> values]}

PathJobs == Merges({"merge", "revert"},
                   {t \in Trees({"", "x", "y"}) : t.a = OfValue("x") /\ t.c = NoFile},
                   Trees({"", "x", "y", "z"}), Trees({"", "x", "y", "w"}))

\* Modes and kinds.
Odd == {NoFile, Binary("regular", "x"), Binary("executable", "x"), Binary("executable", "y"),
        Symlink("x"), Text(<<"x">>)}
ModeJobs == Merges({"merge", "revert"}, Sole(Odd), Sole(Odd), Sole(Odd))

-----------------------------------------------------------------------------
(* Texts of three lines.                                                   *)

Lines == <<"1", "2", "3">>
Edited(fresh) == {Text(s) : s \in {s \in [1..3 -> ToSet(Lines) \cup fresh] :
                                      \A i \in 1..3 : s[i] \in {Lines[i]} \cup fresh}}
Shortened == {Text(SelectSeq(Lines, LAMBDA x : x \in kept)) : kept \in SUBSET ToSet(Lines)}

TextJobs == Merges({"merge"}, Sole({Text(Lines)}), Sole(Edited({"p"}) \cup Shortened),
                   Sole(Edited({"p", "q"}) \cup Shortened))

-----------------------------------------------------------------------------
(* Programs: statements that name a variable, and one with a list.         *)

Name(x)    == Node("Identifier", x, <<>>)
Number(x)  == Node("Literal", x, <<>>)
Token(t)   == Node("Token", t, <<>>)
Parsed(root) == Ast(Subtree(root), root)
Program(s) == Parsed(Node("Module", "", [i \in DOMAIN s |-> Node("Statement", "", <<s[i]>>)]))

ListOf(s) ==
    Node("list", "", <<Token("[")>>
         \o FlattenSeq([i \in DOMAIN s |-> IF i = 1 THEN <<Number(s[i])>>
                                           ELSE <<Token(","), Number(s[i])>>])
         \o <<Token("]")>>)

Programs(names, lengths) ==
    Sole({Program([i \in DOMAIN s |-> Name(s[i])]) :
             s \in {s \in SeqsOf(names, lengths) : Distinct(s)}})

WithLists(values, lengths) ==
    Sole({Program(<<ListOf(s)>>) : s \in {s \in SeqsOf(values, lengths) : Distinct(s)}})

SyntaxJobs ==
    Merges({"merge"}, Programs({"x", "y"}, {2}),
           Programs({"x", "y", "z"}, 1..3), Programs({"x", "y", "z", "w"}, 1..3))
    \cup Merges({"merge"}, Sole({Program(<<Name("x"), Name("y"), Name("w")>>)}),
                Programs({"x", "y", "w", "z"}, 2..4), Programs({"x", "y", "w"}, 1..3))
    \cup Merges({"merge"}, Sole({Program(<<ListOf(<<"1", "2">>)>>)}),
                WithLists({"1", "2", "3"}, 1..3), WithLists({"1", "2", "4"}, 1..3))

\* A program that one branch renames, to one or another of two paths.
Renaming ==
    LET At(path, f) == [p \in Path |-> IF p = path THEN f ELSE NoFile]
        x == Program(<<Name("x")>>)
        z == Program(<<Name("z")>>)
        zz == Program(<<Name("z"), Name("w")>>)
    IN  Merges({"merge"}, {At("a", x)}, {At(p, f) : p \in Path, f \in {x, z, zz}},
               {At(p, f) : p \in {"a", "b"}, f \in {x, z, zz}})

MCJobs == PathJobs \cup ModeJobs \cup TextJobs \cup SyntaxJobs \cup Renaming

RenameJobs  == PathJobs
ReorderJobs == Merges({"merge"}, Programs({"x", "y"}, {2}), Programs({"x", "y", "z"}, 1..3),
                      Programs({"x", "y"}, 1..2))
=============================================================================
