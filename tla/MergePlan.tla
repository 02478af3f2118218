----------------------------- MODULE MergePlan -----------------------------
(***************************************************************************)
(* The plan of a merge or a revert over all tracked paths: plan_three_way  *)
(* and plan_revert (store/repo.rs), path renames (diff/path_rename.rs) and *)
(* the resolutions of a merge (store/merge_resolve.rs).                    *)
(*                                                                         *)
(* A job has three trees, functions from paths to files.  For a revert the *)
(* base is the state reverted, left its parent and right HEAD.  The paths  *)
(* are visited in the order of a hash map.                                 *)
(***************************************************************************)
EXTENDS PathMerge

CONSTANTS Jobs,         \* the merges and reverts to plan
          PathOrder,    \* the paths as the code sorts them
          Extension,    \* the extension of each path
          SameShape(_, _, _)    \* of two roots: their diff inserts and deletes nothing

Path == ToSet(PathOrder)

Side == {"left", "right"}

\* A file that the program can hold: only a symlink has the mode of one.
IsFile(f) ==
    /\ f = File(f.kind, f.mode, f.lines, f.nodes, f.root)
    /\ f.kind \in {"none", "ast", "text", "binary", "symlink"}
    /\ f.mode = "symlink" <=> f.kind = "symlink"

\* A text is its lines and nothing else.
LinesOnly(f) ==
    f.kind = "text" => f.lines \in Seq(ToSet(f.lines)) /\ f.nodes = {} /\ f.root = NoRoot

ASSUME FilesAssumption ==
    /\ PathOrder \in Seq(Path)
    /\ \A j \in Jobs :
          /\ j.op \in {"merge", "revert"}
          /\ \A tree \in {j.base, j.left, j.right} :
                DOMAIN tree = Path /\ \A p \in Path : IsFile(tree[p]) /\ LinesOnly(tree[p])

VARIABLES job,          \* [op, base, left, right]
          renames,      \* on each side, base paths to their new paths
          stage,        \* "renames", "base", "rest", "resolve" or "done"
          todo,         \* paths to visit in this stage
          processed,    \* paths accounted for by the first stage
          merged,       \* merged_files, reverted_files: path to file, or NoFile
          conflicts     \* paths in conflict

vars == <<job, renames, stage, todo, processed, merged, conflicts>>

Held(tree) == {p \in Path : tree[p] # NoFile}
AllPaths   == Held(job.base) \cup Held(job.left) \cup Held(job.right)

-----------------------------------------------------------------------------
(* Renames.                                                                *)

NoRenames == [p \in {} |-> p]

\* Equal contents, or two syntax trees whose diff neither inserts nor deletes.
IsRename(old, new, from, to, up) ==
    \/ SemanticEq(old, new)
    \/ /\ Extension[from] = Extension[to]
       /\ old.kind = "ast" /\ new.kind = "ast"
       /\ SameShape(old.root, new.root, up)

\* The places in PathOrder of the added paths that "from" may take.
FreeTargets(old, new, up, map, from) ==
    {i \in DOMAIN PathOrder :
        LET to == PathOrder[i] IN
        /\ to \in Held(new) \ Held(old)
        /\ to \notin Range(map)
        /\ IsRename(old[from], new[to], from, to, up)}

\* A removed path takes the first added path still free.
TakeTarget(old, new, up, map, from) ==
    LET free == FreeTargets(old, new, up, map, from) IN
    IF from \notin Held(old) \ Held(new) \/ free = {} THEN map
    ELSE [p \in DOMAIN map \cup {from} |-> IF p = from THEN PathOrder[Min(free)] ELSE map[p]]

\* The removed paths in order.
DetectPathRenames(old, new, up) ==
    LET map[n \in 0 .. Len(PathOrder)] ==
            IF n = 0 THEN NoRenames ELSE TakeTarget(old, new, up, map[n - 1], PathOrder[n])
    IN  map[Len(PathOrder)]

Renamed(side, p) == p \in DOMAIN renames[side]
Target(side, p)  == IF Renamed(side, p) THEN renames[side][p] ELSE p

\* The path a base path's result goes to: ours first.
ResultPath(p) == IF Renamed("left", p) THEN Target("left", p) ELSE Target("right", p)

\* Where a side holds what descends from a base path, if anywhere.
SidePaths(side, p) ==
    LET tree == job[side]
        result == ResultPath(p)
    IN  IF Renamed(side, p) THEN {Target(side, p)}
        ELSE IF p \in Held(tree) THEN {p}
        ELSE Held(tree) \cap ({result} \ Held(job.base))

FileAt(side, paths) == IF paths = {} THEN NoFile ELSE job[side][CHOOSE p \in paths : TRUE]

\* Both sides renamed a base path, to different ones.
RenamedApart(p) ==
    Renamed("left", p) /\ Renamed("right", p) /\ Target("left", p) # Target("right", p)

\* HEAD still has a path that the other side renamed, and where it went another file.
DestinationTaken(p) ==
    LET theirs == SidePaths("right", p) IN
    /\ Renamed("left", p) \/ Renamed("right", p)
    /\ p \in Held(job.left)
    /\ ResultPath(p) \in Held(job.left) /\ theirs # {}
    /\ job.left[ResultPath(p)] # FileAt("right", theirs)

-----------------------------------------------------------------------------

Init ==
    /\ job \in Jobs
    /\ stage = "renames"
    /\ renames = [side \in Side |-> NoRenames]
    /\ todo = {}
    /\ processed = {}
    /\ merged = [p \in Path |-> IF job.op = "revert" THEN job.base[p] ELSE NoFile]
    /\ conflicts = {}

\* Mutant: the sides are mixed up.
FindRenamesSwapped(upLeft, upRight) ==
    /\ stage = "renames" /\ job.op = "merge"
    /\ renames' = [left  |-> DetectPathRenames(job.base, job.right, upRight),
                   right |-> DetectPathRenames(job.base, job.left, upLeft)]
    /\ stage' = "base"
    /\ todo' = Held(job.base)
    /\ UNCHANGED <<job, processed, merged, conflicts>>

FindRenames(upLeft, upRight) ==
    /\ stage = "renames" /\ job.op = "merge"
    /\ renames' = [left  |-> DetectPathRenames(job.base, job.left, upLeft),
                   right |-> DetectPathRenames(job.base, job.right, upRight)]
    /\ stage' = "base"
    /\ todo' = Held(job.base)
    /\ UNCHANGED <<job, processed, merged, conflicts>>

\* A revert looks for no renames.
StartRevert ==
    /\ stage = "renames" /\ job.op = "revert"
    /\ stage' = "rest"
    /\ todo' = AllPaths
    /\ UNCHANGED <<job, renames, processed, merged, conflicts>>

\* What an outcome at a path leaves in the plan.
Settle(p, o) ==
    /\ merged' = IF o.what = "keep" THEN [merged EXCEPT ![p] = o.file] ELSE merged
    /\ conflicts' = IF o.what = "conflict" THEN conflicts \cup {p} ELSE conflicts

BasePath(p) ==
    LET ours   == SidePaths("left", p)
        theirs == SidePaths("right", p)
    IN  /\ stage = "base" /\ p \in todo
        /\ todo' = todo \ {p}
        /\ IF RenamedApart(p)
           THEN /\ Settle(p, Conflict)
                /\ processed' = processed \cup {p, Target("left", p), Target("right", p)}
           ELSE IF DestinationTaken(p)
           THEN /\ Settle(ResultPath(p), Conflict)
                /\ processed' = processed \cup {p, ResultPath(p)} \cup ours \cup theirs
           ELSE /\ \E o \in MergeTrackedPath(job.base[p], FileAt("left", ours),
                                             FileAt("right", theirs)) : Settle(ResultPath(p), o)
                /\ processed' = processed \cup {p} \cup ours \cup theirs
        /\ UNCHANGED <<job, renames, stage>>

BaseDone ==
    /\ stage = "base" /\ todo = {}
    /\ stage' = "rest"
    /\ todo' = AllPaths \ processed
    /\ UNCHANGED <<job, renames, processed, merged, conflicts>>

RestPath(p) ==
    LET b == job.base[p]
        l == job.left[p]
        r == job.right[p]
        Reverted(o) ==
            IF o.what = "remove" THEN Settle(p, Keep(NoFile))
            ELSE IF o.what = "keep" /\ b # NoFile /\ l = NoFile /\ r # NoFile /\ r # b
            THEN Settle(p, Conflict)
            ELSE Settle(p, o)
    IN  /\ stage = "rest" /\ p \in todo
        /\ todo' = todo \ {p}
        /\ \E o \in MergeTrackedPath(b, l, r) :
              IF job.op = "revert" THEN Reverted(o) ELSE Settle(p, o)
        /\ UNCHANGED <<job, renames, stage, processed>>

RestDone ==
    /\ stage = "rest" /\ todo = {}
    /\ stage' = IF job.op = "merge" THEN "resolve" ELSE "done"
    /\ UNCHANGED <<job, renames, todo, processed, merged, conflicts>>

\* apply_merge_resolutions, with one --resolve per path: what they name must be
\* in conflict, and the side picked must have a file at that path.
Resolve(sides) ==
    /\ stage = "resolve"
    /\ DOMAIN sides \subseteq conflicts
    /\ \A p \in DOMAIN sides : job[sides[p]][p] # NoFile
    /\ merged' = [p \in Path |-> IF p \in DOMAIN sides THEN job[sides[p]][p] ELSE merged[p]]
    /\ conflicts' = conflicts \ DOMAIN sides
    /\ stage' = "done"
    /\ UNCHANGED <<job, renames, todo, processed>>

\* A resolution that names anything else fails the command: nothing was written.
Next ==
    \/ \E upLeft, upRight \in BOOLEAN : FindRenames(upLeft, upRight)
    \/ StartRevert
    \/ \E p \in todo : BasePath(p) \/ RestPath(p)
    \/ BaseDone
    \/ RestDone
    \/ \E picked \in SUBSET conflicts : \E sides \in [picked -> Side] : Resolve(sides)

PlanSpec == Init /\ [][Next]_vars

-----------------------------------------------------------------------------
(* Properties.                                                             *)

\* The stage, the paths and the files are of their types.
MergePlanTypeOK ==
    /\ stage \in {"renames", "base", "rest", "resolve", "done"}
    /\ todo \subseteq Path /\ processed \subseteq Path /\ conflicts \subseteq Path
    /\ \A side \in Side : Range(renames[side]) \subseteq Held(job[side])
    /\ \A p \in Path :
          /\ merged[p].kind \in {"none", "ast", "text", "binary", "symlink"}
          /\ merged[p].mode = "symlink" <=> merged[p].kind = "symlink"

Planned == stage = "rest" /\ todo = {}

Other(side) == IF side = "left" THEN "right" ELSE "left"

\* The other branch has a file of its own where this side renamed p to.
MeetsAdd(side, p) ==
    LET there == job[Other(side)][Target(side, p)] IN
    /\ job.base[Target(side, p)] = NoFile /\ there # NoFile
    /\ ~SemanticEq(there, job[side][Target(side, p)])

(***************************************************************************)
(* A plan without conflicts keeps every content that a side brought, at    *)
(* the path that side gave it or the one the other side renamed it to, and *)
(* keeps no file that one side deleted and the other left alone.  Not so   *)
(* when HEAD renamed a path onto a file the other branch added (see        *)
(* RenameMeetsAdd), nor for the new content of a path that held the same   *)
(* as another one in the base: then both sides may rename to one path.     *)
(***************************************************************************)
ContentKept ==
    Planned /\ conflicts = {} /\ ~(\E p \in DOMAIN renames.left : MeetsAdd("left", p)) =>
        \A side \in Side, p \in Path :
            LET file == job[side][p]
                b    == job.base[p]
                Elsewhere == b # NoFile /\ \E q \in Path \ {p} : SemanticEq(job.base[q], b)
            IN  /\ /\ file.kind = "binary" /\ \A q \in Path : ~SemanticEq(job.base[q], file)
                   /\ ~Elsewhere
                   => SemanticEq(merged[Target(Other(side), p)], file)
                /\ b # NoFile /\ file = NoFile /\ job[Other(side)][p] = b => merged[p] = NoFile

\* A rename onto a path where the other branch added a different file conflicts
\* (the test path_rename_conflicts_with_independent_add_at_destination).
RenameMeetsAdd ==
    Planned => \A side \in Side : \A p \in DOMAIN renames[side] :
        MeetsAdd(side, p) => conflicts \cap {p, Target(side, p)} # {}

-----------------------------------------------------------------------------
(* Contents of one path.                                                   *)

\* All three sides have a file of this kind at the path, each another one, and
\* at most one changed its mode.
Diverged(p, kind) ==
    /\ job.base[p].kind = kind /\ job.left[p].kind = kind /\ job.right[p].kind = kind
    /\ OneSide(job.base[p], job.left[p], job.right[p]) = {}
    /\ MergeModes(job.base[p], job.left[p], job.right[p]) # {}

\* What a side made of line i, when it only replaces lines or only deletes some.
LineAfter(b, s, i) ==
    IF Len(s) = Len(b) THEN <<s[i]>> ELSE IF b[i] \in ToSet(s) THEN <<b[i]>> ELSE <<>>

Touched(b, s) == {i \in DOMAIN b : LineAfter(b, s, i) # <<b[i]>>}

\* No line is repeated from elsewhere, neither one that was touched nor one brought.
InPlace(b, s) ==
    /\ s = FlattenSeq([i \in DOMAIN b |-> LineAfter(b, s, i)])
    /\ \A i \in Touched(b, s) :
          b[i] \notin ToSet(s) /\ ToSet(LineAfter(b, s, i)) \cap ToSet(b) = {}

(***************************************************************************)
(* When each side replaces lines in place or deletes lines, and repeats no *)
(* line in doing so, a line changed by both is a conflict and otherwise    *)
(* the merge has each line as the side that changed it left it.            *)
(***************************************************************************)
LinesMerge ==
    Planned => \A p \in Path :
        LET b == job.base[p].lines
            l == job.left[p].lines
            r == job.right[p].lines
            line(i) == LineAfter(b, IF i \in Touched(b, l) THEN l ELSE r, i)
        IN  Diverged(p, "text") /\ InPlace(b, l) /\ InPlace(b, r) =>
              IF Touched(b, l) \cap Touched(b, r) # {} THEN p \in conflicts
              ELSE p \notin conflicts /\ merged[p].lines = FlattenSeq([i \in DOMAIN b |-> line(i)])

=============================================================================
