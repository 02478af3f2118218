------------------------------- MODULE MCRepo -------------------------------
(***************************************************************************)
(* Small instances of Repo for TLC.  The root state is set apart; the      *)
(* other ids, the branches, the contents and the processes are             *)
(* interchangeable.                                                        *)
(***************************************************************************)
EXTENDS Repo, TLC

CONSTANTS NewState   \* the ids that commits may get

MCState == {Root} \cup NewState

Symmetry ==
    Permutations(NewState) \cup Permutations(Branch) \cup Permutations(Content)
    \cup Permutations(Proc) \cup Permutations(Path)

AllKinds == Kinds

\* Every commit and merge keeps the lock; each may or may not.  Without --no-verify the
\* lock is lost even where no hook is installed.
AlwaysNoVerify == {TRUE}
AnyVerify      == BOOLEAN
=============================================================================
