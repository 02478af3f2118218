------------------------------ MODULE AstDiff ------------------------------
(***************************************************************************)
(* The structural diff of two syntax graphs (diff/ast_diff.rs, with the    *)
(* pairings of diff/align.rs and diff/lcs.rs): the mutations that should   *)
(* turn the old graph into the new one.                                    *)
(*                                                                         *)
(* Sibling lists are paired in passes, each taking what the earlier left.  *)
(* The passes that iterate a hash map visit their pairs in an order of the *)
(* process; "up" is that order, ascending or descending, which is every    *)
(* order of two pairs.  Ids are one-to-one with nodes, so a pair of equal  *)
(* ids holds no edit and only marks its slots.                             *)
(***************************************************************************)
EXTENDS AstGraph

CONSTANT LcsThreshold     \* the cross-product above which a list is wide (48)

ASSUME LcsThresholdAssumption == LcsThreshold \in Nat

Named == {"Module", "Function", "Struct", "Enum", "Impl", "Block", "Loop",
          "Conditional", "Declaration", "Parameter", "Field", "Expression",
          "Statement", "Type", "Identifier", "Literal", "Token", "Comment"}

IsPayloadEditableLeaf(kind) == kind \in {"Literal", "Identifier", "Token"} \/ kind \notin Named

IsListElement(n) ==
    n.kind \in {"Parameter", "Field", "Declaration", "Statement", "Expression", "Literal"}

IsListSeparator(n) == n.kind = "Token" /\ n.payload \in {",", ";"}

Apart(i, j) == IF i < j THEN j - i ELSE i - j

-----------------------------------------------------------------------------
(* Pairings of two sequences, as sequences of index pairs.                 *)

LcsPairs(a, b) ==
    LET size[i \in 0..Len(a), j \in 0..Len(b)] ==
            IF i = 0 \/ j = 0 THEN 0
            ELSE IF a[i] = b[j] THEN size[i - 1, j - 1] + 1
            ELSE Max({size[i - 1, j], size[i, j - 1]})
        RECURSIVE Back(_, _)
        Back(i, j) ==
            IF i = 0 \/ j = 0 THEN <<>>
            ELSE IF a[i] = b[j] THEN Append(Back(i - 1, j - 1), <<i, j>>)
            ELSE IF size[i - 1, j] >= size[i, j - 1] THEN Back(i - 1, j)
            ELSE Back(i, j - 1)
    IN  Back(Len(a), Len(b))

\* Each value's i-th occurrence on one side with its i-th on the other, value
\* by value.
InOrderByKey(a, b, up) ==
    LET pairs == {p \in (DOMAIN a) \X (DOMAIN b) :
                     /\ a[p[1]] = b[p[2]]
                     /\ Copies(SubSeq(a, 1, p[1]), a[p[1]]) = Copies(SubSeq(b, 1, p[2]), b[p[2]])}
        First(p) == Positions(a, a[p[1]])[1]
    IN  SetToSortSeq(pairs, LAMBDA p, q : IF First(p) = First(q) THEN p[1] < q[1]
                                          ELSE (First(p) < First(q)) = up)

\* The values that occur once on each side.
UniqueBijective(a, b) ==
    {p \in (DOMAIN a) \X (DOMAIN b) :
        a[p[1]] = b[p[2]] /\ Copies(a, a[p[1]]) = 1 /\ Copies(b, b[p[2]]) = 1}

Keys(s)       == [i \in DOMAIN s |-> <<s[i].kind, s[i].payload, Len(s[i].children)>>]
Roles(s)      == [i \in DOMAIN s |-> <<s[i].kind, Len(s[i].children)>>]
StructKeys(s) == [i \in DOMAIN s |-> <<s[i].kind, s[i].payload>>]

RECURSIVE Fingerprint(_)
Fingerprint(n) ==
    <<<<n.kind, Len(n.children),
        IF IsLeaf(n) /\ IsPayloadEditableLeaf(n.kind) THEN n.payload ELSE "">>>>
    \o FlattenSeq([i \in DOMAIN n.children |-> Fingerprint(n.children[i])])

OccurrenceAt(s, i) == Copies(SubSeq(s, 1, i - 1), s[i])

DuplicateOccurrence(s, i) == IF Copies(s, s[i]) > 1 THEN {OccurrenceAt(s, i)} ELSE {}

(***************************************************************************)
(* The slots of equal ids: the longest common subsequence, and for an id   *)
(* with several copies on a side the copies at the same index first, then  *)
(* each remaining one with the nearest.                                    *)
(***************************************************************************)
NearestCopies(at, bt) ==
    LET same == ToSet(at) \cap ToSet(bt)
        Step(m, i) ==
            LET free == {j \in ToSet(bt) : \A p \in m : p[2] # j}
                best == CHOOSE j \in free : \A k \in free :
                            Apart(i, j) < Apart(i, k) \/ (Apart(i, j) = Apart(i, k) /\ j <= k)
            IN  IF i \in same \/ free = {} THEN m ELSE m \cup {<<i, best>>}
    IN  FoldLeft(Step, {<<i, i>> : i \in same}, at)

MatchedById(a, b) ==
    LET ids     == ToSet(a) \cup ToSet(b)
        several == {id \in ids : Copies(a, id) > 1 \/ Copies(b, id) > 1}
    IN  {p \in ToSet(LcsPairs(a, b)) : a[p[1]] \notin several}
        \cup UNION {NearestCopies(Positions(a, id), Positions(b, id)) : id \in several}

-----------------------------------------------------------------------------
(* Where an insert goes in the old list.                                   *)

ClosingBrace(s) == {i \in DOMAIN s : s[i].kind = "Token" /\ s[i].payload = "}"}

\* A separator whose place the old list already has is not inserted again.
IsRedundantSeparator(a, b, matched, i) ==
    /\ IsListSeparator(b[i])
    /\ b[i] \in ToSet(a)
    /\ i - 1 \in matched
    /\ Copies(SubSeq(b, 1, i), b[i]) <= Copies(a, b[i])

ResolveInsertBefore(nodes, a, b, matched, i) ==
    LET later  == {j \in matched : j > i /\ b[j] \in ToSet(a)}
        anchor == b[Min(later)]
        next   == IF i < Len(b) THEN {b[i + 1]} ELSE {}
        found  == IF later # {} THEN <<{anchor}, {Copies(a, anchor) - 1}>> ELSE <<next, {}>>
        braces == ClosingBrace(a)
    IN  IF /\ IsListSeparator(b[i])
           /\ i + 1 \notin matched
           /\ \E n \in next : IsListElement(n)
        THEN <<next, {}>>
        ELSE IF /\ b[i].kind \in {"Field", "Declaration", "Statement"}
                /\ \E n \in found[1] : n \in nodes /\ n.kind = "Token" /\ n.payload = ","
                /\ braces # {}
        THEN <<{a[Max(braces)]}, {OccurrenceAt(a, Max(braces))}>>
        ELSE found

-----------------------------------------------------------------------------
(* The diff of a pair of nodes and of their children.  A pass folds over   *)
(* candidate pairs; "st" holds the slots matched so far and the mutations. *)

RECURSIVE DiffSubtree(_, _, _, _, _, _)

Free(st, p) == p[1] \notin st.old /\ p[2] \notin st.new

Marked(st, pairs) ==
    [st EXCEPT !.old = @ \cup {p[1] : p \in pairs}, !.new = @ \cup {p[2] : p \in pairs}]

\* Take a pair: its move if it changed slots, then the edits below it.
TakePair(nodes, o, n, scope, up, st, p, moves) ==
    LET old == o.children[p[1]]
        dup == DuplicateOccurrence(o.children, p[1])
        occ == IF dup # {} THEN dup ELSE scope
        before == IF p[2] < Len(n.children) THEN {n.children[p[2] + 1]} ELSE {}
    IN  [Marked(st, {p}) EXCEPT
            !.out = @ \o (IF p[1] # p[2] /\ dup = {}
                          THEN SelectSeq(<<MoveNode(old, o, before), MoveSubtree(old, o, before)>>,
                                         LAMBDA m : m.op \in moves)
                          ELSE <<>>)
                      \o DiffSubtree(nodes, old, n.children[p[2]], {o}, occ, up)]

\* apply_role_match, apply_key_match: equal ids do not move.
MatchMoves(o, n, p) == IF o.children[p[1]] = n.children[p[2]] THEN {} ELSE {"move"}

ByRole(nodes, o, n, scope, up, st, p) ==
    IF Free(st, p) /\ Roles(o.children)[p[1]] = Roles(n.children)[p[2]]
    THEN TakePair(nodes, o, n, scope, up, st, p, MatchMoves(o, n, p)) ELSE st

ByKey(nodes, o, n, scope, up, st, p) ==
    IF Free(st, p) /\ ~IsLeaf(o.children[p[1]])
    THEN TakePair(nodes, o, n, scope, up, st, p, MatchMoves(o, n, p)) ELSE st

NoPairs == [old |-> {}, new |-> {}, out |-> <<>>]

NarrowPasses(nodes, o, n, scope, up) ==
    LET a == o.children
        b == n.children
    IN  FoldLeft(LAMBDA st, p : ByKey(nodes, o, n, scope, up, st, p),
                 FoldLeft(LAMBDA st, p : ByRole(nodes, o, n, scope, up, st, p),
                          Marked(NoPairs, MatchedById(a, b)), LcsPairs(Roles(a), Roles(b))),
                 LcsPairs(Keys(a), Keys(b)))

\* The quadratic passes, where few slots are left.
LastPasses(nodes, o, n, scope, up, st) ==
    LET a == o.children
        b == n.children
        left == (Len(a) - Cardinality(st.old)) * (Len(b) - Cardinality(st.new))
    IN  IF left > LcsThreshold THEN st
        ELSE FoldLeft(LAMBDA t, p : ByKey(nodes, o, n, scope, up, t, p),
                      FoldLeft(LAMBDA t, p : ByRole(nodes, o, n, scope, up, t, p),
                               st, LcsPairs(Roles(a), Roles(b))),
                      LcsPairs(Keys(a), Keys(b)))

\* By id, by kind and payload, by key and by role.
WidePasses(nodes, o, n, scope, up) ==
    LET a == o.children
        b == n.children
        ByStruct(st, p) == IF Free(st, p) THEN TakePair(nodes, o, n, scope, up, st, p, {})
                           ELSE st
    IN  FoldLeft(LAMBDA st, p : ByRole(nodes, o, n, scope, up, st, p),
                 FoldLeft(LAMBDA st, p : ByKey(nodes, o, n, scope, up, st, p),
                          FoldLeft(ByStruct, Marked(NoPairs, UniqueBijective(a, b)),
                                   LcsPairs(StructKeys(a), StructKeys(b))),
                          InOrderByKey(Keys(a), Keys(b), up)),
                 InOrderByKey(Roles(a), Roles(b), up))

\* Inner nodes of equal shape, each the only one of that shape left on its side.
FingerprintPass(nodes, o, n, scope, up, st) ==
    LET a == o.children
        b == n.children
        Inner(s, taken) == {i \in DOMAIN s : i \notin taken /\ ~IsLeaf(s[i])}
        Sole(s, taken, i) == \A j \in Inner(s, taken) :
                                 Fingerprint(s[j]) = Fingerprint(s[i]) => j = i
        pairs == {p \in Inner(a, st.old) \X Inner(b, st.new) :
                     /\ Fingerprint(a[p[1]]) = Fingerprint(b[p[2]])
                     /\ Sole(a, st.old, p[1]) /\ Sole(b, st.new, p[2])}
    IN  FoldLeft(LAMBDA s, p : TakePair(nodes, o, n, scope, up, s, p, {"moveSubtree"}),
                 st, SetToSortSeq(pairs, LAMBDA p, q : (p[1] < q[1]) = up))

\* Each old slot left, in order, with the closest new one that may stand for it.
Fallback(nodes, o, n, scope, up, st, MayStand(_, _), Score(_, _)) ==
    LET Step(s, i) ==
            LET can  == {j \in DOMAIN n.children \ s.new :
                            MayStand(o.children[i], n.children[j])}
                best == CHOOSE j \in can : \A k \in can :
                            Score(i, j) < Score(i, k) \/ (Score(i, j) = Score(i, k) /\ j <= k)
            IN  IF i \in s.old \/ can = {} THEN s
                ELSE TakePair(nodes, o, n, scope, up, s, <<i, best>>, {"move"})
    IN  FoldLeft(Step, st, [i \in DOMAIN o.children |-> i])

\* best_structural_match: the child counts first, then the distance.
StructuralScore(o, n, i, j) ==
    1000 * Apart(Len(o.children[i].children), Len(n.children[j].children)) + Apart(i, j)

\* best_leaf_payload_match: another payload, at the least distance.
LeafMayStand(x, y) ==
    /\ x.kind = y.kind /\ IsLeaf(x) /\ IsLeaf(y)
    /\ IsPayloadEditableLeaf(x.kind) /\ x.payload # y.payload

StructuralFallback(nodes, o, n, scope, up, st) ==
    Fallback(nodes, o, n, scope, up, st,
             LAMBDA x, y : x.kind = y.kind /\ ~IsLeaf(x) /\ ~IsLeaf(y),
             LAMBDA i, j : StructuralScore(o, n, i, j))

LeafFallback(nodes, o, n, scope, up, st) ==
    Fallback(nodes, o, n, scope, up, st,
             LeafMayStand, Apart)

Deletes(o, st) ==
    LET gone == SetToSortSeq(DOMAIN o.children \ st.old, <)
    IN  [k \in DOMAIN gone |-> DeleteSubtree(o, o.children[gone[k]])]

\* Separators are inserted after the other siblings.
Inserts(nodes, o, n, st) ==
    LET a == o.children
        b == n.children
        new == {i \in DOMAIN b \ st.new : ~IsRedundantSeparator(a, b, st.new, i)}
        Earlier(i, j) == IF IsListSeparator(b[i]) = IsListSeparator(b[j]) THEN i < j
                         ELSE IsListSeparator(b[j])
        slots == SetToSortSeq(new, Earlier)
        Site(i) == ResolveInsertBefore(nodes, a, b, st.new, i)
    IN  [k \in DOMAIN slots |->
            InsertSubtree(o, Site(slots[k])[1], Site(slots[k])[2], b[slots[k]])]

\* The list edits for what the passes have left.
Completed(nodes, o, n, st) == st.out \o Deletes(o, st) \o Inserts(nodes, o, n, st)

DiffChildren(nodes, o, n, scope, up) ==
    LET a == o.children
        b == n.children
        paired == IF Len(a) * Len(b) > LcsThreshold
                  THEN LastPasses(nodes, o, n, scope, up, WidePasses(nodes, o, n, scope, up))
                  ELSE NarrowPasses(nodes, o, n, scope, up)
        shaped == StructuralFallback(nodes, o, n, scope, up,
                      FingerprintPass(nodes, o, n, scope, up, paired))
    IN  IF a = b THEN <<>>
        ELSE IF ToBag(a) = ToBag(b) THEN <<ReorderChildren(o, b)>>
        ELSE Completed(nodes, o, n, LeafFallback(nodes, o, n, scope, up, shaped))

\* Only roots can differ in kind, and then nothing is recorded.
DiffSubtree(nodes, o, n, parent, scope, up) ==
    IF o = n \/ o.kind # n.kind THEN <<>>
    ELSE IF IsLeaf(o) /\ IsLeaf(n) THEN <<EditPayload(o, n.payload, parent, scope)>>
    ELSE DiffChildren(nodes, o, n, scope, up)

DiffGraphs(old, new, up) == DiffSubtree(Subtree(old), old, new, {}, {}, up)
=============================================================================
