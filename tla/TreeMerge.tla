----------------------------- MODULE TreeMerge -----------------------------
(***************************************************************************)
(* The three-way merge of syntax trees (merge/mod.rs, graph/dag.rs): both  *)
(* sides are diffed against the base, and batches that do not overlap are  *)
(* applied together.                                                       *)
(***************************************************************************)
EXTENDS FileMerge

\* apply_batch: each mutation is remapped through all the changes before it.
ApplyBatch(g, batch) ==
    LET Step(runs, m) ==
            UNION {IF ~run.ok THEN {run}
                   ELSE {[ok |-> r.ok, g |-> r.g, table |-> Redirects(run.table, r.changed)] :
                            r \in Apply(run.g, Remap(m, run.table))} : run \in runs}
    IN  FoldLeft(Step, {[ok |-> TRUE, g |-> g, table |-> <<>>]}, batch)

\* Batches that overlap are not applied.
MergeGraphs(g, left, right) ==
    IF FindOverlapping(g, left, right) # {} THEN {[ok |-> FALSE, g |-> g, table |-> <<>>]}
    ELSE ApplyBatch(g, CombineBatches(left, right))

MergeRoots(b, l, r) ==
    UNION {MergeGraphs(g, DiffGraphs(b, l, lu), DiffGraphs(b, r, ru)) :
               g \in GraphsOf(b), lu \in BOOLEAN, ru \in BOOLEAN}

\* The diff of two trees neither inserts nor deletes.
OnlyEdited(old, new, up) ==
    \A m \in ToSet(DiffGraphs(old, new, up)) : m.op \notin {"insert", "delete"}
=============================================================================
