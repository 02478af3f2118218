------------------------------ MODULE AstGraph ------------------------------
(***************************************************************************)
(* The content-addressed syntax graph and the mutations applied to it      *)
(* (graph/node.rs, graph/mutation.rs, graph/dag.rs).                       *)
(*                                                                         *)
(* A NodeId is a hash of kind, payload and child ids: here a node is its   *)
(* own id, so equal subtrees are one node and changing a node re-seals     *)
(* every ancestor the walk over "parents" finds.  That map keeps one       *)
(* parent per node: of the parents of a shared node, the one that the hash *)
(* order visited last when the map was rebuilt.  The gaps between tokens   *)
(* (trivia) are layout and left out.                                       *)
(*                                                                         *)
(* An Option is a set of at most one element.                              *)
(***************************************************************************)
EXTENDS Naturals, FiniteSets, Sequences, SequencesExt, TLC

Node(kind, payload, children) ==
    [kind |-> kind, payload |-> payload, children |-> children]

IsLeaf(n) == n.children = <<>>

Positions(s, e) == SetToSortSeq({i \in DOMAIN s : s[i] = e}, <)

Copies(s, e) == Cardinality({i \in DOMAIN s : s[i] = e})

RECURSIVE Subtree(_)
Subtree(n) == {n} \cup UNION {Subtree(c) : c \in ToSet(n.children)}

\* The graphs that rebuild_parents may leave: each child has one of its parents.
Rebuilt(g) ==
    LET Holders(c) == {n \in g.nodes : c \in ToSet(n.children)}
        maps == FoldSet(LAMBDA c, ms : {m \cup {<<c, p>>} : m \in ms, p \in Holders(c)},
                        {{}}, UNION {ToSet(n.children) : n \in g.nodes})
    IN  {[g EXCEPT !.parents = m] : m \in maps}

GraphsOf(root) ==
    Rebuilt([nodes |-> Subtree(root), root |-> root, parents |-> {}])

ParentsOf(g, n) == {e[2] : e \in {e \in g.parents : e[1] = n}}

Whole(g) == g.root \in g.nodes /\ \A n \in g.nodes : ToSet(n.children) \subseteq g.nodes

\* The nodes below n that the graph still holds.
RECURSIVE CollectSubtree(_, _)
CollectSubtree(g, n) ==
    IF n \notin g.nodes THEN {}
    ELSE {n} \cup UNION {CollectSubtree(g, c) : c \in ToSet(n.children)}

References(g, n) == FoldSet(LAMBDA x, sum : sum + Copies(x.children, n), 0, g.nodes)

-----------------------------------------------------------------------------
(* The mutations.                                                          *)

NoMutation(op, n) == [op |-> op, node |-> n, parent |-> {}, before |-> {},
                      occurrence |-> {}, payload |-> "", order |-> <<>>]

InsertSubtree(p, before, occ, n) ==
    [NoMutation("insert", n) EXCEPT !.parent = {p}, !.before = before, !.occurrence = occ]

DeleteSubtree(p, n) == [NoMutation("delete", n) EXCEPT !.parent = {p}]

MoveNode(n, p, before) == [NoMutation("move", n) EXCEPT !.parent = {p}, !.before = before]

MoveSubtree(n, p, before) == [MoveNode(n, p, before) EXCEPT !.op = "moveSubtree"]

EditPayload(n, payload, scope, occ) ==
    [NoMutation(IF n.kind = "Identifier" THEN "rename" ELSE "edit", n) EXCEPT
        !.payload = payload, !.parent = scope, !.occurrence = occ]

ReorderChildren(p, order) ==
    [NoMutation("reorder", p) EXCEPT !.parent = {p}, !.order = order]

IsEdit(m) == m.op \in {"rename", "edit"}
IsMove(m) == m.op \in {"move", "moveSubtree"}
PrimaryNode(m) == IF m.op = "reorder" THEN {} ELSE {m.node}

-----------------------------------------------------------------------------
(* Child lists.                                                            *)

InsertBefore(children, n, before, occ) ==
    IF before = {} THEN Append(children, n)
    ELSE LET anchor == CHOOSE a \in before : TRUE
             at     == Positions(children, anchor)
             k      == IF occ = {} THEN 1 ELSE (CHOOSE o \in occ : TRUE) + 1
         IN  IF at = <<>> THEN Append(children, n)
             ELSE InsertAt(children, IF k <= Len(at) THEN at[k] ELSE Last(at), n)

ReplaceOccurrence(children, old, new, occ) ==
    LET at == Positions(children, old)
        k  == IF occ = {} THEN 1 ELSE (CHOOSE o \in occ : TRUE) + 1
    IN  IF at = <<>> THEN children
        ELSE [children EXCEPT ![IF k <= Len(at) THEN at[k] ELSE at[1]] = new]

-----------------------------------------------------------------------------
(* Applying.  The result of a step is the set of its possible outcomes; an *)
(* outcome carries the ids that changed, in the order they did.            *)

Failed(g) == [ok |-> FALSE, g |-> g, changed |-> <<>>]
Done(g, changed) == [ok |-> TRUE, g |-> g, changed |-> changed]

Then(outcomes, Op(_)) == UNION {IF r.ok THEN Op(r) ELSE {r} : r \in outcomes}

(***************************************************************************)
(* cascade_id_change: re-seal the ancestors of a node that changed, up to  *)
(* the root or to an ancestor the change does not reach.                   *)
(***************************************************************************)
RECURSIVE Reseal(_, _, _, _, _)
Reseal(g, old, new, changed, seen) ==
    IF ParentsOf(g, old) = {} THEN {Done(h, changed) : h \in Rebuilt(g)}
    ELSE UNION {LET r == [a EXCEPT !.children = ReplaceOccurrence(@, old, new, {})] IN
                IF a \in seen \/ a \notin g.nodes THEN {Failed(g)}
                ELSE IF r = a THEN {Done(h, changed) : h \in Rebuilt(g)}
                ELSE Reseal([g EXCEPT !.nodes = (@ \ {a}) \cup {r},
                                      !.root  = IF @ = a THEN r ELSE @],
                            a, r, Append(changed, <<a, r>>), seen \cup {a}) :
                a \in ParentsOf(g, old)}

SpliceChildren(g, p, children, changed) ==
    LET q == [p EXCEPT !.children = children]
        h == [g EXCEPT !.nodes = (@ \ {p}) \cup {q}, !.root = IF @ = p THEN q ELSE @]
    IN  IF p \notin g.nodes THEN {Failed(g)}
        ELSE IF p = q THEN {Done(g, Append(changed, <<p, q>>))}
        ELSE Reseal(h, p, q, Append(changed, <<p, q>>), {})

\* redirect and redirect_map: follow the ids that changed, stopping on cycles.
RECURSIVE Follow(_, _, _)
Follow(table, n, seen) ==
    IF n \in DOMAIN table /\ table[n] # n /\ n \notin seen
    THEN Follow(table, table[n], seen \cup {n})
    ELSE n

Redirects(table, changed) == FoldLeft(LAMBDA t, c : (c[1] :> c[2]) @@ t, table, changed)

FirstRedirects(changed) == FoldLeft(LAMBDA t, c : t @@ (c[1] :> c[2]), <<>>, changed)

ApplyInsert(g, m) ==
    LET p == CHOOSE p \in m.parent : TRUE IN
    IF p \notin g.nodes THEN {Failed(g)}
    ELSE SpliceChildren([g EXCEPT !.nodes = @ \cup Subtree(m.node)], p,
                        InsertBefore(p.children, m.node, m.before, m.occurrence), <<>>)

\* remove_subtree_nodes: what is used from outside the subtree stays.
Orphans(g, root) ==
    LET below == CollectSubtree(g, root)
    IN  {n \in below : \A x \in g.nodes \ below : n \notin ToSet(x.children)}

\* Every copy of the node leaves the list.
ApplyDelete(g, m) ==
    LET p == CHOOSE p \in m.parent : TRUE
    IN  IF m.node \notin g.nodes THEN {Failed(g)}
        ELSE Then(SpliceChildren(g, p, SelectSeq(p.children, LAMBDA c : c # m.node), <<>>),
                  LAMBDA r : {[r EXCEPT
                      !.g.nodes   = @ \ Orphans(r.g, m.node),
                      !.g.parents = {e \in @ : e[1] \notin Orphans(r.g, m.node)}]})

ApplyMove(g, m) ==
    LET n == m.node
        target == CHOOSE p \in m.parent : TRUE
        Within(p) ==
            IF n \notin ToSet(p.children) THEN {Failed(g)}
            ELSE SpliceChildren(g, p,
                     InsertBefore(RemoveFirst(p.children, n), n, m.before, {}), <<>>)
        Across(p) ==
            Then(SpliceChildren(g, p, SelectSeq(p.children, LAMBDA c : c # n), <<>>),
                 LAMBDA r : LET q == Follow(FirstRedirects(r.changed), target, {}) IN
                     SpliceChildren(r.g, q, InsertBefore(q.children, n, m.before, {}),
                                    r.changed))
    IN  IF n \notin g.nodes \/ ParentsOf(g, n) = {} THEN {Failed(g)}
        ELSE UNION {IF p = target THEN Within(p) ELSE Across(p) : p \in ParentsOf(g, n)}

(***************************************************************************)
(* edit_payload: a node referenced more than once is copied and replaced   *)
(* under the parent the edit names; otherwise it is replaced in place.     *)
(***************************************************************************)
ApplyEdit(g, m) ==
    LET n == m.node
        new == [n EXCEPT !.payload = m.payload]
        Under(h, p) == SpliceChildren(h, p,
                           ReplaceOccurrence(p.children, n, new, m.occurrence), <<>>)
        inPlace == [g EXCEPT !.nodes = (@ \ {n}) \cup {new}]
    IN  IF n \notin g.nodes THEN {Failed(g)}
        ELSE IF References(g, n) > 1
        THEN IF \E p \in m.parent : p \in g.nodes /\ n \in ToSet(p.children)
             THEN Under([g EXCEPT !.nodes = @ \cup {new}], CHOOSE p \in m.parent : TRUE)
             ELSE {Failed(g)}
        ELSE IF ParentsOf(g, n) = {} THEN {Done(inPlace, <<>>)}
        ELSE UNION {Under(inPlace, p) : p \in ParentsOf(g, n)}

Apply(g, m) ==
    CASE m.op = "insert"  -> ApplyInsert(g, m)
      [] m.op = "delete"  -> ApplyDelete(g, m)
      [] m.op = "reorder" -> LET p == CHOOSE p \in m.parent : TRUE IN
                             SpliceChildren(g, p, m.order, <<>>)
      [] IsMove(m)        -> ApplyMove(g, m)
      [] IsEdit(m)        -> ApplyEdit(g, m)

\* remap_mutation: an inserted node keeps its id, the sites are followed.
Remap(m, table) ==
    LET To(n) == Follow(table, n, {}) IN
    [m EXCEPT !.node   = IF m.op = "insert" THEN @ ELSE To(@),
              !.parent = {To(p) : p \in @},
              !.before = {To(b) : b \in @},
              !.order  = [i \in DOMAIN @ |-> To(@[i])]]
=============================================================================
