------------------------------ MODULE MCReplay ------------------------------
(***************************************************************************)
(* A branch with two commits and an upstream with one, over a commit that  *)
(* both start from.                                                        *)
(***************************************************************************)
EXTENDS Replay, TLC

CONSTANTS base, old1, old2, up, main, topic, NewState, x, y

MCState   == {Root, base, old1, old2, up} \cup NewState
MCLineage == (Root :> {}) @@ (base :> {Root}) @@ (up :> {base}) @@ (old1 :> {base})
             @@ (old2 :> {old1})
MCAt      == (main :> up) @@ (topic :> old2)
At1(f) == [q \in Path |-> f]
History4(b, o1, o2, u) ==
    (Root :> NoFiles) @@ (base :> At1(b)) @@ (old1 :> At1(o1)) @@ (old2 :> At1(o2)) @@ (up :> At1(u))
\* Two commits that conflict with up at the first, at the second, or never.
First  == History4(Absent, x, y, y)
Second == History4(Absent, Absent, x, y)
Never  == History4(x, y, Absent, x)

Scenario(kinds, histories) == {[uses |-> kinds, files |-> f] : f \in histories}

Stashing == {"push", "apply", "pop", "drop", "clear"}

MCScenarios ==
    Scenario({"rebase", "commit", "edit"}, {First})
    \cup Scenario({"rebase", "checkout", "edit"}, {Second})
    \cup Scenario({"rebase", "add"}, {First})
    \cup Scenario({"rebase", "push"}, {Never})
    \cup Scenario(Stashing \cup {"commit", "edit"}, {First})
    \cup Scenario(Stashing \cup {"add", "edit"}, {Never})

Symmetry == Permutations(NewState)
=============================================================================
