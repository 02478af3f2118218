----------------------------- MODULE BranchLog -----------------------------
(***************************************************************************)
(* What a repository promises its users about history, without files,      *)
(* locks, processes or crashes.  A repository is a set of states that can  *)
(* be named, refs that point at some of them, and HEAD.  History grows by  *)
(* children of the state HEAD stands on and never loses what a ref needs;  *)
(* a ref only ever names a state that can be named, is never overwritten   *)
(* by creating another, and HEAD always has a branch or a state to be at.  *)
(***************************************************************************)
CONSTANTS State, Root, Branch, Tag, NoState

VARIABLES known,    \* states that can be named
          lineage,  \* parents of each known state
          tip,      \* what each branch and tag points at
          cur       \* HEAD: a branch, or a state when detached

logVars == <<known, lineage, tip, cur>>

CurTip == IF cur \in Branch THEN tip[cur] ELSE cur

Tips == ({tip[r] : r \in Branch \cup Tag} \ {NoState}) \cup {CurTip}

Init ==
    \E b \in Branch :
        /\ known = {Root}
        /\ lineage = [s \in {Root} |-> {}]
        /\ tip = [r \in Branch \cup Tag |-> IF r = b THEN Root ELSE NoState]
        /\ cur = b

\* A new state is recorded as a child of the current one; no ref names it yet.
Learn(s, parents) ==
    /\ s \in State \ known
    /\ parents \subseteq known /\ CurTip \in parents
    /\ known' = known \cup {s}
    /\ lineage' = [t \in known' |-> IF t = s THEN parents ELSE lineage[t]]
    /\ UNCHANGED <<tip, cur>>

\* HEAD's branch, or a detached HEAD, comes to stand on s.
Move(s) ==
    /\ s \in known
    /\ IF cur \in Branch
       THEN tip' = [tip EXCEPT ![cur] = s] /\ cur' = cur
       ELSE tip' = tip /\ cur' = s
    /\ UNCHANGED <<known, lineage>>

Switch(to) ==
    /\ \/ to \in Branch /\ tip[to] # NoState
       \/ to \in known
    /\ cur' = to
    /\ UNCHANGED <<known, lineage, tip>>

SetRef(r, s) ==
    /\ tip[r] = NoState
    /\ s \in known
    /\ tip' = [tip EXCEPT ![r] = s]
    /\ UNCHANGED <<known, lineage, cur>>

DropRef(r) ==
    /\ r # cur
    /\ r \in Branch => \E b \in Branch \ {r} : tip[b] # NoState
    /\ tip' = [tip EXCEPT ![r] = NoState]
    /\ UNCHANGED <<known, lineage, cur>>

\* Forgetting states that neither a ref nor a state that is kept needs.
Forget(kept) ==
    /\ kept \subseteq known
    /\ Tips \subseteq kept
    /\ \A s \in kept : lineage[s] \subseteq kept
    /\ known' = kept
    /\ lineage' = [s \in kept |-> lineage[s]]
    /\ UNCHANGED <<tip, cur>>

Next ==
    \/ \E s \in State, parents \in SUBSET known : Learn(s, parents)
    \/ \E s \in known : Move(s)
    \/ \E to \in Branch \cup known : Switch(to)
    \/ \E r \in Branch \cup Tag : DropRef(r)
    \/ \E r \in Branch \cup Tag, s \in known : SetRef(r, s)
    \/ \E kept \in SUBSET known : Forget(kept)

Spec == Init /\ [][Next]_logVars
=============================================================================
