--------------------------- MODULE MergeContents ---------------------------
(***************************************************************************)
(* What a merge makes of syntax trees, merged as the code does.            *)
(***************************************************************************)
EXTENDS MergePlan, TreeMerge

-----------------------------------------------------------------------------
(* Syntax trees.                                                           *)

\* The leaves but for tokens, in the order they print; a missing node has none.
RECURSIVE Printed(_, _)
Printed(f, n) ==
    IF n \notin f.nodes \/ n.kind = "Token" THEN <<>>
    ELSE IF IsLeaf(n) THEN <<n>>
    ELSE FlattenSeq([i \in DOMAIN n.children |-> Printed(f, n.children[i])])

Leaves(f) == ToSet(Printed(f, f.root))

NothingShared(f) == \A n \in f.nodes : n.kind # "Token" => References(f, n) <= 1

Before(s, x, y) == \E i, j \in DOMAIN s : i < j /\ s[i] = x /\ s[j] = y

Moved(b, s) ==
    \E x, y \in Leaves(b) : Before(Printed(b, b.root), x, y) /\ Before(Printed(s, s.root), y, x)

(***************************************************************************)
(* When no subtree repeats and neither side moves anything, a merge that   *)
(* does not conflict holds what both sides kept and what either brought,   *)
(* nothing that a side deleted or replaced, and no node is missing.        *)
(***************************************************************************)
EditsBothApplied ==
    Planned => \A p \in Path \ conflicts :
        LET b == job.base[p]
            l == job.left[p]
            r == job.right[p]
        IN  /\ Diverged(p, "ast")
            /\ \A f \in {b, l, r} : NothingShared(f)
            /\ ~Moved(b, l) /\ ~Moved(b, r)
            => /\ Whole(merged[p])
               /\ Leaves(merged[p]) = (Leaves(l) \cap Leaves(r)) \cup (Leaves(l) \ Leaves(b))
                                      \cup (Leaves(r) \ Leaves(b))

\* What a side inserted is in a merge that does not conflict: the merge
\* "applies both sides when alignment finds disjoint structural edits".
InsertsKept ==
    Planned => \A p \in Path \ conflicts :
        Diverged(p, "ast") /\ NothingShared(job.base[p]) =>
            \A side \in Side :
               Leaves(job[side][p]) \ Leaves(job.base[p]) \subseteq Leaves(merged[p])
=============================================================================
