----------------------------- MODULE FileMerge -----------------------------
(***************************************************************************)
(* When two mutations overlap and how two batches combine (merge/mod.rs,   *)
(* intent/mod.rs).  "base" is the graph both batches start from.           *)
(***************************************************************************)
EXTENDS AstDiff

Punctuation == {",", ";", "[", "]", "{", "}", "(", ")"}

\* The kinds of inserts that can stand beside another one at the same anchor.
Substantive == {"Function", "Declaration", "Statement", "Struct", "Enum", "Impl", "Field",
                "Parameter", "Loop", "Conditional", "decorator", "attribute_item",
                "marker_annotation", "annotation"}

-----------------------------------------------------------------------------
(* Intents.                                                                *)

Intent(base, m) ==
    LET n == m.node
        kind == IF n \in base.nodes THEN n.kind ELSE ""
        p == CHOOSE p \in m.parent : TRUE
        atStart == p \notin base.nodes \/
                   (IF m.before = {} THEN p.children = <<>>
                    ELSE p.children # <<>> /\ Head(p.children) \in m.before)
        Nameless(what) == [what |-> what, m |-> NoMutation("", base.root)]
    IN  CASE m.op = "rename" -> [what |-> "value", m |-> EditPayload(n, m.payload, {}, {})]
          [] m.op = "edit"   -> [what |-> "value", m |-> EditPayload(n, m.payload, {}, {})]
          [] m.op = "insert" /\ n.kind = "Comment" /\ atStart -> Nameless("prependComment")
          [] m.op = "insert" /\ n.kind \in {"Statement", "Declaration"} ->
                Nameless("insertStatement")
          [] m.op = "delete" /\ kind \in {"Statement", "Declaration"} ->
                Nameless("deleteStatement")
          [] m.op = "insert" -> [what |-> "insert",
                 m |-> InsertSubtree(p, m.before, {}, Node(n.kind, "", <<>>))]
          [] m.op = "delete" -> [what |-> "delete", m |-> m]
          [] m.op = "reorder" -> [what |-> "reorder", m |-> ReorderChildren(p, <<>>)]
          [] IsMove(m) -> [what |-> m.op, m |-> [m EXCEPT !.before = {}]]

IntentsDisjoint(i, j) ==
    LET kinds == {i.what, j.what} IN
    CASE kinds = {"value"}  -> i.m.node # j.m.node
      [] kinds = {"insert"} -> i.m.parent # j.m.parent \/ i.m.before # j.m.before
      [] kinds = {"moveSubtree"} -> i.m.node # j.m.node
      [] kinds \in {{"move", "value"}, {"moveSubtree", "value"}} -> i.m.node = j.m.node
      [] OTHER -> kinds \in {{"prependComment", "insertStatement"}, {"prependComment", "value"},
                             {"insertStatement", "value"}, {"reorder", "insert"},
                             {"reorder", "value"}}

-----------------------------------------------------------------------------
(* Overlaps.                                                               *)

HasDuplicate(base, p, n) == p \in base.nodes /\ Copies(p.children, n) > 1

SameAnchorDisjoint(m, n) == m # n /\ m.kind \in Substantive /\ n.kind \in Substantive

SameSite(a, b) ==
    a.parent = b.parent /\ a.before = b.before /\ a.occurrence = b.occurrence

\* Two edits of one node, at different copies in the same child list.
DifferentCopies(base, a, b) ==
    /\ a.parent = b.parent
    /\ a.occurrence # b.occurrence
    /\ \E p \in a.parent : HasDuplicate(base, p, a.node)

DisjointEdits(base, a, b) ==
    CASE a.op = "insert" /\ b.op = "insert" ->
            SameSite(a, b) => SameAnchorDisjoint(a.node, b.node)
      [] IsEdit(a) /\ IsEdit(b) ->
            a.op # b.op \/ a.node # b.node \/ DifferentCopies(base, a, b)
      [] (IsMove(a) /\ IsEdit(b)) \/ (IsEdit(a) /\ IsMove(b)) -> a.node = b.node
      [] IsMove(a) /\ IsMove(b) -> a.op = b.op /\ a.node # b.node
      [] OTHER -> \/ IsEdit(a) /\ b.op = "insert"
                  \/ a.op = "insert" /\ IsEdit(b)

\* Edits below different copies of a repeated subtree: the occurrence they
\* carry is that of the subtree, not of the node itself.
NestedDuplicateScope(base, a, b) ==
    LET Inherited(m) == /\ m.occurrence # {}
                        /\ \A p \in m.parent : ~HasDuplicate(base, p, m.node)
    IN  /\ IsEdit(a) /\ IsEdit(b) /\ a.parent # {} /\ b.parent # {}
        /\ a.occurrence # b.occurrence
        /\ Inherited(a) /\ Inherited(b)

RECURSIVE Above(_, _)
Above(g, n) == {n} \cup UNION {Above(g, p) : p \in ParentsOf(g, n)}

DeletionCovers(base, a, b) ==
    /\ a.op = "delete"
    /\ \E n \in PrimaryNode(b) : n # a.node /\ a.node \in Above(base, n)

SameInsertSite(a, b) ==
    \/ a.op = "insert" /\ b.op = "insert" /\ SameSite(a, b)
       /\ ~SameAnchorDisjoint(a.node, b.node)
    \/ a.op = "delete" /\ b.op = "delete" /\ a.node = b.node
    \/ a.op = "delete" /\ b.op = "insert" /\ b.before = {a.node}
    \/ a.op = "insert" /\ b.op = "delete" /\ a.before = {b.node}

\* Mutant: deletions of theirs are not compared with edits of ours.
OverlapsOneWay(base, a, b) ==
    LET ia == Intent(base, a)
        ib == Intent(base, b)
    IN  IF a = b THEN FALSE
        ELSE IF NestedDuplicateScope(base, a, b) THEN TRUE
        ELSE IF DisjointEdits(base, a, b) \/ IntentsDisjoint(ia, ib) THEN FALSE
        ELSE \/ ia = ib
             \/ DeletionCovers(base, a, b)
             \/ PrimaryNode(a) \cap PrimaryNode(b) # {}
             \/ a.parent \cap b.parent # {} /\ SameInsertSite(a, b)

Overlaps(base, a, b) ==
    LET ia == Intent(base, a)
        ib == Intent(base, b)
    IN  IF a = b THEN FALSE
        ELSE IF NestedDuplicateScope(base, a, b) THEN TRUE
        ELSE IF DisjointEdits(base, a, b) \/ IntentsDisjoint(ia, ib) THEN FALSE
        ELSE \/ ia = ib
             \/ DeletionCovers(base, a, b)
             \/ DeletionCovers(base, b, a)
             \/ PrimaryNode(a) \cap PrimaryNode(b) # {}
             \/ a.parent \cap b.parent # {} /\ SameInsertSite(a, b)

FindOverlapping(base, left, right) ==
    {p \in (DOMAIN left) \X (DOMAIN right) : Overlaps(base, left[p[1]], right[p[2]])}

-----------------------------------------------------------------------------
(* Combining two batches that do not overlap.                              *)

IsPunctuationInsert(m) ==
    m.op = "insert" /\ m.node.kind = "Token" /\ m.node.payload \in Punctuation

SharedPunctuation(m, left, right) ==
    /\ IsPunctuationInsert(m)
    /\ \A side \in {left, right} :
          \E x \in ToSet(side) : IsPunctuationInsert(x) /\ SameSite(x, m)

Later(a, b) ==      \* Option order: none before any
    \E o \in a.occurrence : \A q \in b.occurrence : q < o

\* The sort compares edits of one node only, highest occurrence first; up to
\* twenty mutations it is an insertion sort.
SortEdits(batch) ==
    LET RECURSIVE Place(_, _)
        Place(s, m) ==
            IF s # <<>> /\ IsEdit(m) /\ IsEdit(Last(s)) /\ Last(s).node = m.node
                        /\ Later(m, Last(s))
            THEN Append(Place(Front(s), m), Last(s))
            ELSE Append(s, m)
    IN  FoldLeft(Place, <<>>, batch)

CombineBatches(left, right) ==
    LET Ours(m)   == IF m \in ToSet(right) THEN ~IsPunctuationInsert(m)
                     ELSE ~SharedPunctuation(m, left, right)
        Theirs(m) == m \notin ToSet(left) /\ ~SharedPunctuation(m, left, right)
    IN  SortEdits(SelectSeq(left, Ours) \o SelectSeq(right, Theirs))
=============================================================================
