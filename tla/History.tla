------------------------------ MODULE History ------------------------------
(***************************************************************************)
(* The commit graph of a repository: ancestry walks, reachability and the  *)
(* merge base (store/history.rs, store/reachability.rs).                   *)
(*                                                                         *)
(* A graph is a function par from state ids to the set of their parents.   *)
(* The program's walks are breadth-first searches over the timeline files; *)
(* here each is the set, or the distance, that its walk computes, so that  *)
(* the definitions can be reasoned about without recursion.                *)
(***************************************************************************)
EXTENDS Naturals, FiniteSets

\* A set of states that holds the parents of all its members.
ParentClosed(par, C) == \A s \in C : par[s] \subseteq C

\* What reachable_from_tips collects: the least parent-closed set around the tips.
Reachable(par, tips) ==
    {s \in DOMAIN par :
        \A C \in SUBSET DOMAIN par :
            (tips \subseteq C /\ ParentClosed(par, C)) => s \in C}

\* is_ancestor_of: reflexive, as the code returns true for equal ids.
IsAncestorOf(par, ancestor, descendant) ==
    ancestor \in Reachable(par, {descendant})

\* The states exactly n parent links away from s, for every n the walk can reach.
Levels(par, s) ==
    LET level[n \in 0 .. Cardinality(DOMAIN par)] ==
            IF n = 0 THEN {s} ELSE UNION {par[t] : t \in level[n - 1]}
    IN  level

\* ancestors_with_depth: each ancestor of s, s included, with the depth at which
\* the breadth-first walk from s first meets it.
Depths(par, s) ==
    LET level == Levels(par, s)
    IN  [a \in Reachable(par, {s}) |->
            CHOOSE n \in DOMAIN level :
                a \in level[n] /\ \A m \in 0 .. n - 1 : a \notin level[m]]

(***************************************************************************)
(* merge_base_checked on complete history: the common ancestors of least   *)
(* total depth.  Several may tie: the code keeps the first that a HashMap  *)
(* iteration meets, so any of them may be the answer.                      *)
(***************************************************************************)
MergeBases(par, a, b) ==
    LET fromA  == Depths(par, a)
        fromB  == Depths(par, b)
        common == DOMAIN fromA \cap DOMAIN fromB
        total  == [x \in common |-> fromA[x] + fromB[x]]
    IN  {x \in common : \A y \in common : total[x] <= total[y]}

\* linear_timeline_parent succeeds on states with exactly one parent.
IsLinear(par, s) == \E t \in par[s] : par[s] = {t}
LinearParent(par, s) == CHOOSE t \in par[s] : TRUE
=============================================================================
