----------------------------- MODULE PathMerge -----------------------------
(***************************************************************************)
(* The three-way merge of one tracked path (merge/mod.rs).  A file has its *)
(* kind, its mode and its content: the lines of a text, or of anything     *)
(* opaque its one value; the graph of a syntax tree.  NoFile is absence.   *)
(*                                                                         *)
(* A merge is the set of its possible outcomes: the code iterates hash     *)
(* maps, and the line diff is an external crate.  How two syntax trees     *)
(* merge is a parameter here; the runs give it the value of TreeMerge.     *)
(***************************************************************************)
EXTENDS TextMerge

\* The merges of three trees, given by their roots: runs of the two batches of
\* mutations, each with its graph g, ok when all of them could be applied.
CONSTANT MergeTrees(_, _, _)

NoRoot == [kind |-> "none", payload |-> "", children |-> <<>>]

File(kind, mode, lines, nodes, root) ==
    [kind |-> kind, mode |-> mode, lines |-> lines, nodes |-> nodes, root |-> root]

NoFile             == File("none", "regular", <<>>, {}, NoRoot)
Text(lines)        == File("text", "regular", lines, {}, NoRoot)
Binary(mode, v)    == File("binary", mode, <<v>>, {}, NoRoot)
Symlink(target)    == File("symlink", "symlink", <<target>>, {}, NoRoot)
Ast(nodes, root)   == File("ast", "regular", <<>>, nodes, root)

SemanticEq(f, g) == [f EXCEPT !.mode = g.mode] = g

Keep(f)  == [what |-> "keep", file |-> f]
Drop   == [what |-> "remove", file |-> NoFile]
Conflict == [what |-> "conflict", file |-> NoFile]

-----------------------------------------------------------------------------
(* Contents.                                                               *)

\* One side wins or they conflict: binaries and symlink targets, and the
\* first cases of every other kind.
OneSide(b, l, r) ==
    IF SemanticEq(l, r) \/ SemanticEq(b, r) THEN {Keep(l)}
    ELSE IF SemanticEq(b, l) THEN {Keep(r)}
    ELSE {}

MergeOpaque(b, l, r) == IF OneSide(b, l, r) # {} THEN OneSide(b, l, r) ELSE {Conflict}

MergeLines(b, l, r) ==
    IF OneSide(b, l, r) # {} THEN OneSide(b, l, r)
    ELSE UNION {LET m == MergeText(b.lines, l.lines, r.lines, la, ra) IN
                IF m = {} THEN {Conflict} ELSE {Keep(Text(t)) : t \in m} :
                la \in Alignments(b.lines, l.lines), ra \in Alignments(b.lines, r.lines)}

MergeAst(b, l, r) ==
    IF OneSide(b, l, r) # {} THEN OneSide(b, l, r)
    ELSE {IF run.ok THEN Keep(Ast(run.g.nodes, run.g.root)) ELSE Conflict :
             run \in MergeTrees(b.root, l.root, r.root)}

MergeFiles(b, l, r) ==
    LET kinds == {b.kind, l.kind, r.kind} IN
    IF Cardinality(kinds) > 1 THEN {Conflict}
    ELSE CASE b.kind = "ast"  -> MergeAst(b, l, r)
           [] b.kind = "text" -> MergeLines(b, l, r)
           [] OTHER           -> MergeOpaque(b, l, r)

-----------------------------------------------------------------------------
(* Presence and mode.                                                      *)

\* Mutant: a deletion beats a modification.
MergePathDeletes(b, l, r) ==
    LET one == IF l # NoFile THEN l ELSE r IN
    CASE l = NoFile /\ r = NoFile -> {Drop}
      [] l # NoFile /\ r # NoFile ->
            IF b # NoFile THEN MergeFiles(b, l, r)
            ELSE IF SemanticEq(l, r) THEN {Keep(l)} ELSE {Conflict}
      [] OTHER -> IF b # NoFile THEN {Drop} ELSE {Keep(one)}

\* A modification beats a deletion; two equal additions are one.
MergePath(b, l, r) ==
    LET one == IF l # NoFile THEN l ELSE r IN
    CASE l = NoFile /\ r = NoFile -> {Drop}
      [] l # NoFile /\ r # NoFile ->
            IF b # NoFile THEN MergeFiles(b, l, r)
            ELSE IF SemanticEq(l, r) THEN {Keep(l)} ELSE {Conflict}
      [] OTHER -> IF b # NoFile /\ SemanticEq(b, one) THEN {Drop} ELSE {Keep(one)}

MergeModes(b, l, r) ==
    CASE l = NoFile -> {r.mode}
      [] r = NoFile -> {l.mode}
      [] l.mode = r.mode -> {l.mode}
      [] OTHER -> IF b = NoFile \/ (b.mode # l.mode /\ b.mode # r.mode) THEN {}
                  ELSE {IF b.mode = l.mode THEN r.mode ELSE l.mode}

MergeTrackedPath(b, l, r) ==
    IF (l.mode = "symlink") # (r.mode = "symlink") THEN {Conflict}
    ELSE UNION {IF o.what # "keep" THEN {o}
                ELSE IF MergeModes(b, l, r) = {} THEN {Conflict}
                ELSE {Keep([o.file EXCEPT !.mode = m]) : m \in MergeModes(b, l, r)} :
                    o \in MergePath(b, l, r)}
=============================================================================
