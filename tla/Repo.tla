-------------------------------- MODULE Repo --------------------------------
(***************************************************************************)
(* One repository on one machine (store/repo.rs, store/hooks.rs,           *)
(* store/cherry_pick.rs, store/tags.rs, store/integrity.rs): the stores    *)
(* under .astvcs, the working tree, and the processes that run commands.   *)
(*                                                                         *)
(* A command plans in one step, at the moment it takes the lock, and then  *)
(* writes one store per step, in the order of the code, so that it can be  *)
(* stopped between any two of them.  A commit or merge without --no-verify *)
(* gives up the lock for its client hooks, also where no hook is           *)
(* installed, and what it read before them it uses after them.             *)
(***************************************************************************)
EXTENDS History

CONSTANTS
    State, Root,      \* commit ids; the id of the empty root state
    Branch, Tag,      \* ref names
    Path, Content,    \* tracked paths; file contents with their mode (= blobs)
    Proc,             \* processes that run commands
    NoState, Absent, NotStaged, NoProc,
    Commands,         \* the kinds of command that are run
    NoVerify,         \* the values --no-verify takes: with TRUE the lock is kept
    GcModes           \* what gc deletes: "blobs", "history" or "all"

Kinds == {"commit", "merge", "checkout", "soft", "mixed", "hard", "revert", "pick"}

ASSUME RepoAssumption ==
    /\ Root \in State
    /\ NoState \notin State
    /\ Branch \cap State = {} /\ Branch \cap Tag = {}
    /\ NoState \notin Branch
    /\ Absent \notin Content
    /\ NotStaged \notin Content \cup {Absent}
    /\ NoProc \notin Proc
    /\ Commands \subseteq Kinds
    /\ NoVerify \subseteq BOOLEAN
    /\ GcModes \subseteq {"blobs", "history", "all"}

VARIABLES
    commit,    \* what each id stands for; an id is a hash, so this never changes
    timeline,  \* ids with an entry in .astvcs/timeline
    blobs,     \* contents in .astvcs/blobs and .astvcs/packs
    refs,      \* .astvcs/refs/heads and .astvcs/refs/tags
    head,      \* HEAD: a branch, or a state when detached
    index,     \* index.json: the state each tracked path was recorded at
    staging,   \* staging.json: a content, a deletion (Absent) or nothing per path
    work,      \* the working tree
    holder,    \* the process that holds repo.lock
    pc, cmd    \* per process: the next step, and the command being run

stores == <<commit, timeline, blobs, refs, head, index, staging, work>>
vars   == <<stores, holder, pc, cmd>>

Ref      == Branch \cup Tag
Files    == [Path -> Content \cup {Absent}]
NoFiles  == [q \in Path |-> Absent]
Unstaged == [q \in Path |-> NotStaged]
Entry    == [parents : SUBSET State, files : Files]
Step     == {"idle", "hook", "guard", "blobs", "timeline", "tree", "index",
             "staging", "ref"}

(***************************************************************************)
(* A command in flight.  parents is empty unless the command records a new *)
(* state of the given files; target is the state it ends on, known only    *)
(* once that state is recorded; dest is what a checkout makes HEAD, and    *)
(* active is the staging flag that commit read before its hooks.           *)
(***************************************************************************)
Command == [kind : Kinds \cup {"none"}, parents : SUBSET State, files : Files,
            target : State \cup {NoState}, dest : Branch \cup State \cup {NoState},
            force : BOOLEAN, active : BOOLEAN]

NoCmd == [kind |-> "none", parents |-> {}, files |-> NoFiles, target |-> NoState,
          dest |-> NoState, force |-> FALSE, active |-> FALSE]

\* A command that ends on a state that exists, and one that records a new one.
Onto(kind, s, force) ==
    [NoCmd EXCEPT !.kind = kind, !.target = s, !.force = force]
Recording(kind, parents, files, force) ==
    [NoCmd EXCEPT !.kind = kind, !.parents = parents, !.files = files, !.force = force]
Creates(c) == c.parents # {}

TypeOK ==
    /\ DOMAIN commit \subseteq State
    /\ commit \in [DOMAIN commit -> Entry]
    /\ timeline \subseteq DOMAIN commit
    /\ blobs \subseteq Content
    /\ refs \in [Ref -> State \cup {NoState}]
    /\ head \in Branch \cup State
    /\ index \in [Path -> State \cup {NoState}]
    /\ staging \in [active : BOOLEAN, entries : [Path -> Content \cup {Absent, NotStaged}]]
    /\ work \in Files
    /\ holder \in Proc \cup {NoProc}
    /\ pc \in [Proc -> Step]
    /\ cmd \in [Proc -> Command]

-----------------------------------------------------------------------------
(* Reading the stores. *)

HeadState == IF head \in Branch THEN refs[head] ELSE head
FilesOf(s) == commit[s].files
HeadFiles == FilesOf(HeadState)
Contents(f) == {f[q] : q \in Path} \ {Absent}
Parents == [s \in State |-> IF s \in DOMAIN commit THEN commit[s].parents ELSE {}]

\* ref_tips: every branch, every tag and a detached HEAD.
Tips == ({refs[r] : r \in Ref} \ {NoState}) \cup (IF head \in State THEN {head} ELSE {})

\* load_state_files: the timeline entry and every blob its manifest names.
Loadable(s) == s \in timeline /\ Contents(FilesOf(s)) \subseteq blobs

\* resolve_state_ref: an id needs its timeline entry, a ref name does not.
Resolvable == timeline \cup Tips \cup {HeadState}

Staged       == {q \in Path : staging.entries[q] # NotStaged}
StagingInUse == staging.active /\ Staged # {}
StagedReadable == {staging.entries[q] : q \in Staged} \ {Absent} \subseteq blobs

\* status reads HEAD's files and, when staging is active, the staged blobs.
StatusOK == Loadable(HeadState) /\ (staging.active => StagedReadable)

\* The unstaged half of status when nothing is staged: no path differs from HEAD's,
\* none is missing and none is untracked.
TreeClean == work = HeadFiles

\* Mutants of GuardOK: untracked files do not count; staged entries do not count.
GuardIgnoresUntracked(force, allowDirty) ==
    IF StagingInUse
    THEN IF force THEN StatusOK ELSE allowDirty
    ELSE /\ StatusOK
         /\ \/ \A q \in Path : HeadFiles[q] # Absent => work[q] = HeadFiles[q]
            \/ force \/ allowDirty
GuardIgnoresStaging(force, allowDirty) ==
    StatusOK /\ (TreeClean \/ force \/ allowDirty)

(***************************************************************************)
(* working_tree_is_clean and materialize_guard.  Staged entries make the   *)
(* tree dirty before status is computed; --force computes status to list   *)
(* what it clobbers, allow_dirty does not.                                 *)
(***************************************************************************)
GuardOK(force, allowDirty) ==
    IF StagingInUse
    THEN IF force THEN StatusOK ELSE allowDirty
    ELSE StatusOK /\ (TreeClean \/ force \/ allowDirty)

(***************************************************************************)
(* merge_path on one path, and --resolve for the conflicts it can settle:  *)
(* the contents the merged state may hold there.  Three different contents *)
(* may merge structurally into any content.                                *)
(***************************************************************************)
PathMerge(b, l, r) ==
    IF l = r \/ r = b THEN {l}
    ELSE IF l = b \/ l = Absent THEN {r}
    ELSE IF r = Absent THEN {l}
    ELSE IF b = Absent THEN {l, r}
    ELSE Content

PathwiseMerges(b, l, r) ==
    {f \in Files : \A q \in Path : f[q] \in PathMerge(b[q], l[q], r[q])}

\* detect_path_renames may pair a path that went with a path that came.
MayRename(b, side) ==
    /\ \E q \in Path : b[q] # Absent /\ side[q] = Absent
    /\ \E q \in Path : b[q] = Absent /\ side[q] # Absent

(***************************************************************************)
(* plan_three_way: the merged files of the plans that are clean once       *)
(* resolved.  A rename moves and merges contents across paths; the files   *)
(* it leads to are left open here, as nothing below depends on them.       *)
(***************************************************************************)
ThreeWayMerges(b, l, r) ==
    IF MayRename(b, l) \/ MayRename(b, r)
    THEN Files
    ELSE PathwiseMerges(b, l, r)

\* plan_revert also refuses a path the reverted state added and HEAD changed.
RevertMerges(b, l, r) ==
    IF \E q \in Path : b[q] # Absent /\ l[q] = Absent /\ r[q] \notin {b[q], Absent}
    THEN {}
    ELSE PathwiseMerges(b, l, r)

-----------------------------------------------------------------------------
(* Taking the lock and planning.  try_lock fails at once when another      *)
(* process holds the lock, and the command ends without effect: starting   *)
(* one is enabled only when the lock is free.                              *)

Free(p) == pc[p] = "idle" /\ holder = NoProc

\* The hooks run with the lock given up: suspend_repo_lock comes before run_hook has
\* looked for a hook file, so "hook" is a step of every command without --no-verify.
Begin(p, c, first) ==
    /\ c.kind \in Commands
    /\ holder' = IF first = "hook" THEN NoProc ELSE p
    /\ pc' = [pc EXCEPT ![p] = first]
    /\ cmd' = [cmd EXCEPT ![p] = c]
    /\ UNCHANGED stores

\* Mutant of CommitFiles: paths that are not staged are taken as they stand there.
CommitStagingOnly == IF staging.active THEN staging.entries ELSE work

\* The files commit records: HEAD's under the staged entries once add was ever
\* used, else the whole working tree.
CommitFiles ==
    IF staging.active
    THEN [q \in Path |-> IF q \in Staged THEN staging.entries[q] ELSE HeadFiles[q]]
    ELSE work

Commit(p) ==
    /\ Loadable(HeadState)
    /\ staging.active => Staged # {} /\ StagedReadable
    /\ CommitFiles # HeadFiles
    /\ \E noVerify \in NoVerify :
           Begin(p, [Recording("commit", {HeadState}, CommitFiles, FALSE)
                        EXCEPT !.active = staging.active],
                 IF noVerify THEN "blobs" ELSE "hook")

\* Mutant of Merge: the fast-forward test looks at the wrong side.
MergeSwapped(p, other, force) ==
    /\ other # HeadState
    /\ ~force => ~StagingInUse /\ GuardOK(FALSE, FALSE)
    /\ \E base \in MergeBases(Parents, HeadState, other), noVerify \in NoVerify :
           /\ \A s \in {base, HeadState, other} : Loadable(s)
           /\ Begin(p, IF base = other
                       THEN Onto("merge", other, force)
                       ELSE Recording("merge", {HeadState, other}, HeadFiles, force),
                    IF noVerify THEN "guard" ELSE "hook")

\* A merge whose base is HEAD is a fast-forward.
Merge(p, other, force) ==
    /\ other # HeadState
    /\ ~force => ~StagingInUse /\ GuardOK(FALSE, FALSE)
    /\ \E base \in MergeBases(Parents, HeadState, other) :
           /\ \A s \in {base, HeadState, other} : Loadable(s)
           /\ \E noVerify \in NoVerify,
                 merged \in ThreeWayMerges(FilesOf(base), HeadFiles, FilesOf(other)) :
                 Begin(p, IF base = HeadState
                          THEN Onto("merge", other, force)
                          ELSE Recording("merge", {HeadState, other}, merged, force),
                       IF noVerify THEN "guard" ELSE "hook")

Checkout(p, dest, force) ==
    LET s == IF dest \in Branch THEN refs[dest] ELSE dest
        here == dest = head \/ dest = HeadState
    IN  /\ Loadable(s)
        /\ GuardOK(force, here)
        /\ Begin(p, [Onto("checkout", s, force) EXCEPT !.dest = dest], "tree")

ResetSoft(p, s) == Begin(p, Onto("soft", s, FALSE), "ref")

ResetMixed(p, s) == Loadable(s) /\ Begin(p, Onto("mixed", s, FALSE), "index")

ResetHard(p, s, force) ==
    /\ Loadable(s)
    /\ GuardOK(force, s = HeadState)
    /\ Begin(p, Onto("hard", s, force), "tree")

\* Mutant of Revert: the new state hangs off the reverted one.
RevertOffTarget(p, s, force) ==
    /\ s \in timeline /\ IsLinear(Parents, s)
    /\ IsAncestorOf(Parents, s, HeadState)
    /\ GuardOK(force, FALSE)
    /\ \E reverted \in RevertMerges(FilesOf(s), FilesOf(LinearParent(Parents, s)),
                                    HeadFiles) :
          Begin(p, Recording("revert", {s}, reverted, force), "blobs")

\* A revert that arrives at the files of the target's parent goes back to it.
Revert(p, s, force) ==
    LET parent == LinearParent(Parents, s)
    IN  /\ s \in timeline /\ IsLinear(Parents, s)
        /\ IsAncestorOf(Parents, s, HeadState)
        /\ \A t \in {s, parent, HeadState} : Loadable(t)
        /\ GuardOK(force, FALSE)
        /\ \E reverted \in RevertMerges(FilesOf(s), FilesOf(parent), HeadFiles) :
              /\ reverted # HeadFiles
              /\ IF reverted = FilesOf(parent)
                 THEN Begin(p, Onto("revert", parent, force), "tree")
                 ELSE Begin(p, Recording("revert", {HeadState}, reverted, force), "blobs")

\* Mutant of CherryPick: the new state hangs off the picked one.
CherryPickOffTarget(p, s, force) ==
    /\ ~StagingInUse
    /\ s \in timeline /\ IsLinear(Parents, s)
    /\ GuardOK(force, FALSE)
    /\ Begin(p, Recording("pick", {s}, FilesOf(s), force), "blobs")

CherryPick(p, s, force) ==
    LET parent == LinearParent(Parents, s)
    IN  /\ ~StagingInUse
        /\ s \in timeline /\ IsLinear(Parents, s)
        /\ \A t \in {s, parent, HeadState} : Loadable(t)
        /\ GuardOK(force, FALSE)
        /\ \E picked \in ThreeWayMerges(FilesOf(parent), HeadFiles, FilesOf(s)) :
              Begin(p, Recording("pick", {HeadState}, picked, force), "blobs")

-----------------------------------------------------------------------------
(* Running a command.                                                      *)

\* Mutants of Follow: commit leaves the index alone; the blobs of a new state are
\* not written; refs are moved before the index.
Follow0(c, at, created) ==
    CASE at = "hook"     -> IF c.kind = "merge" THEN "guard" ELSE created
      [] at = "guard"    -> IF Creates(c) THEN created ELSE "tree"
      [] at = "blobs"    -> "timeline"
      [] at = "timeline" -> IF c.kind = "commit" THEN "index" ELSE "tree"
      [] at = "tree"     -> "index"
      [] at = "index"    -> "staging"
      [] at = "staging"  -> "ref"
FollowNoIndex(c, at) ==
    IF at = "timeline" /\ c.kind = "commit" THEN "staging" ELSE Follow0(c, at, "blobs")
FollowNoBlobs(c, at) == Follow0(c, at, "timeline")
FollowRefFirst(c, at) == IF at = "tree" THEN "ref" ELSE Follow0(c, at, "blobs")

Follow(c, at) ==
    CASE at = "hook"     -> IF c.kind = "merge" THEN "guard" ELSE "blobs"
      [] at = "guard"    -> IF Creates(c) THEN "blobs" ELSE "tree"
      [] at = "blobs"    -> "timeline"
      [] at = "timeline" -> IF c.kind = "commit" THEN "index" ELSE "tree"
      [] at = "tree"     -> "index"
      [] at = "index"    -> "staging"
      [] at = "staging"  -> "ref"

Advance(p) == pc' = [pc EXCEPT ![p] = Follow(cmd[p], pc[p])]

(***************************************************************************)
(* run_commit_hooks and run_pre_merge_hook end, whether a hook was there   *)
(* or not: resume_repo_lock must find the lock free, and the guard it      *)
(* returns is dropped with the function, so the command goes on without    *)
(* the lock.                                                               *)
(***************************************************************************)
Resume(p) ==
    /\ pc[p] = "hook" /\ holder = NoProc
    /\ Advance(p)
    /\ UNCHANGED <<stores, holder, cmd>>

\* Mutant of FinishGuard: what was clean before the hook is taken to be clean.
FinishUnguarded(p) ==
    /\ pc[p] = "guard"
    /\ Advance(p)
    /\ UNCHANGED <<stores, holder, cmd>>

\* finish_merge looks at the staging index and the working tree again.
FinishGuard(p) ==
    /\ pc[p] = "guard"
    /\ ~StagingInUse /\ GuardOK(cmd[p].force, FALSE)
    /\ Advance(p)
    /\ UNCHANGED <<stores, holder, cmd>>

WriteBlobs(p) ==
    /\ pc[p] = "blobs"
    /\ blobs' = blobs \cup Contents(cmd[p].files)
    /\ Advance(p)
    /\ UNCHANGED <<commit, timeline, refs, head, index, staging, work, holder, cmd>>

\* persist_state: the id is a hash of parents, files, message, author and second,
\* so an equal entry may get the id of an earlier one.
WriteTimeline(p) ==
    LET entry == [parents |-> cmd[p].parents, files |-> cmd[p].files]
    IN  /\ pc[p] = "timeline"
        /\ \E s \in State :
              /\ s \in DOMAIN commit => commit[s] = entry
              /\ commit' = [t \in DOMAIN commit \cup {s} |->
                               IF t = s THEN entry ELSE commit[t]]
              /\ timeline' = timeline \cup {s}
              /\ cmd' = [cmd EXCEPT ![p].target = s]
        /\ Advance(p)
        /\ UNCHANGED <<blobs, refs, head, index, staging, work, holder>>

(***************************************************************************)
(* materialize_state_inner on the working tree: indexed paths the target   *)
(* lacks are removed first, then each of the target's files is written.    *)
(***************************************************************************)
Stale(f) == {q \in Path : f[q] = Absent /\ index[q] # NoState}
Kept(f)  == {q \in Path : f[q] # Absent}

Materialized(f, removed, written) ==
    [q \in Path |-> IF q \in written THEN f[q] ELSE IF q \in removed THEN Absent ELSE work[q]]

\* Where it may stop: a file is removed before its new content is renamed into
\* place, so one path may be missing.
Interrupted(f) ==
    {Materialized(f, removed, {}) : removed \in SUBSET Stale(f)}
    \cup UNION {{Materialized(f, Stale(f) \cup between, written) :
                    between \in {{}} \cup {{q} : q \in Kept(f)}} :
                written \in SUBSET Kept(f)}

WriteTree(p) ==
    /\ pc[p] = "tree"
    /\ Loadable(cmd[p].target)
    /\ LET f == FilesOf(cmd[p].target)
       IN  work' = Materialized(f, Stale(f), Kept(f))
    /\ Advance(p)
    /\ UNCHANGED <<commit, timeline, blobs, refs, head, index, staging, holder, cmd>>

WriteIndex(p) ==
    /\ pc[p] = "index"
    /\ index' = [q \in Path |-> IF FilesOf(cmd[p].target)[q] = Absent
                                THEN NoState ELSE cmd[p].target]
    /\ Advance(p)
    /\ UNCHANGED <<commit, timeline, blobs, refs, head, staging, work, holder, cmd>>

\* commit saves the staging index it loaded before its hooks, entries cleared.
ClearStaging(p) ==
    /\ pc[p] = "staging"
    /\ staging' = [active  |-> IF cmd[p].kind = "commit" THEN cmd[p].active
                               ELSE staging.active,
                   entries |-> Unstaged]
    /\ Advance(p)
    /\ UNCHANGED <<commit, timeline, blobs, refs, head, index, work, holder, cmd>>

\* The last step reads HEAD anew, and the command's guard is dropped.
WriteRef(p) ==
    /\ pc[p] = "ref"
    /\ CASE cmd[p].kind = "checkout" -> head' = cmd[p].dest /\ refs' = refs
         [] cmd[p].kind # "checkout" /\ head \in Branch ->
                refs' = [refs EXCEPT ![head] = cmd[p].target] /\ head' = head
         [] OTHER -> head' = cmd[p].target /\ refs' = refs
    /\ pc' = [pc EXCEPT ![p] = "idle"]
    /\ cmd' = [cmd EXCEPT ![p] = NoCmd]
    /\ holder' = IF holder = p THEN NoProc ELSE holder
    /\ UNCHANGED <<commit, timeline, blobs, index, staging, work>>

(***************************************************************************)
(* A command ends early: it is killed, an operation on the disk fails, a   *)
(* hook fails, the lock is taken when it resumes, or finish_merge refuses. *)
(* What it wrote stays written; the lock goes with the process.            *)
(***************************************************************************)
Stop(p) ==
    /\ pc[p] # "idle"
    /\ IF pc[p] = "tree" /\ Loadable(cmd[p].target)
       THEN work' \in Interrupted(FilesOf(cmd[p].target))
       ELSE work' = work
    /\ pc' = [pc EXCEPT ![p] = "idle"]
    /\ cmd' = [cmd EXCEPT ![p] = NoCmd]
    /\ holder' = IF holder = p THEN NoProc ELSE holder
    /\ UNCHANGED <<commit, timeline, blobs, refs, head, index, staging>>

-----------------------------------------------------------------------------
(* Commands that write one store.  They hold the lock from start to end.   *)

\* add: what is on disk is staged with its blob, what only HEAD has as a deletion.
Add(paths) ==
    /\ holder = NoProc
    /\ Loadable(HeadState)
    /\ paths # {} /\ \A q \in paths : work[q] # Absent \/ HeadFiles[q] # Absent
    /\ blobs' = blobs \cup ({work[q] : q \in paths} \ {Absent})
    /\ staging' = [active  |-> TRUE,
                   entries |-> [q \in Path |-> IF q \in paths THEN work[q]
                                               ELSE staging.entries[q]]]
    /\ UNCHANGED <<commit, timeline, refs, head, index, work, holder, pc, cmd>>

CreateRef(r, s) ==
    /\ holder = NoProc
    /\ refs[r] = NoState
    /\ refs' = [refs EXCEPT ![r] = s]
    /\ UNCHANGED <<commit, timeline, blobs, head, index, staging, work, holder, pc, cmd>>

\* Mutant of RemoveRef: the last branch may go while HEAD is detached.
RemoveLastRef(r) ==
    /\ holder = NoProc
    /\ refs[r] # NoState
    /\ r # head
    /\ refs' = [refs EXCEPT ![r] = NoState]
    /\ UNCHANGED <<commit, timeline, blobs, head, index, staging, work, holder, pc, cmd>>

\* Neither the checked-out branch nor the last one can be removed.
RemoveRef(r) ==
    /\ holder = NoProc
    /\ refs[r] # NoState
    /\ r # head
    /\ r \in Branch => \E b \in Branch \ {r} : refs[b] # NoState
    /\ refs' = [refs EXCEPT ![r] = NoState]
    /\ UNCHANGED <<commit, timeline, blobs, head, index, staging, work, holder, pc, cmd>>

\* Mutants of Gc: a detached HEAD is no root; the walk takes one parent of each state.
GcOf(mode, parents, tips) ==
    LET reach == Reachable(parents, tips) \cup {Root}
    IN  /\ holder = NoProc
        /\ reach \subseteq timeline
        /\ blobs' = IF mode = "history" THEN blobs
                    ELSE blobs \cap UNION {Contents(FilesOf(s)) : s \in reach}
        /\ timeline' = IF mode = "blobs" THEN timeline ELSE timeline \cap reach
        /\ UNCHANGED <<commit, refs, head, index, staging, work, holder, pc, cmd>>
GcForgetsHead(mode) == GcOf(mode, Parents, {refs[r] : r \in Ref} \ {NoState})
GcOneParent(mode) ==
    \E one \in [State -> State \cup {NoState}] :
        /\ \A s \in State : IF Parents[s] = {} THEN one[s] = NoState ELSE one[s] \in Parents[s]
        /\ GcOf(mode, [s \in State |-> {one[s]} \ {NoState}], Tips)

\* gc --prune, --prune-history, or both.  The roots are the refs and a detached
\* HEAD; the root state is always kept.
Gc(mode) ==
    LET reach == Reachable(Parents, Tips) \cup {Root}
    IN  /\ holder = NoProc
        /\ reach \subseteq timeline
        /\ blobs' = IF mode = "history" THEN blobs
                    ELSE blobs \cap UNION {Contents(FilesOf(s)) : s \in reach}
        /\ timeline' = IF mode = "blobs" THEN timeline ELSE timeline \cap reach
        /\ UNCHANGED <<commit, refs, head, index, staging, work, holder, pc, cmd>>

(***************************************************************************)
(* Someone edits a file.  Edits are left out while a command is past its   *)
(* checks and has not ended: the program does not guard against those.     *)
(***************************************************************************)
UserEdit(q, content) ==
    /\ \A p \in Proc : pc[p] \in {"idle", "hook"}
    /\ content # work[q]
    /\ work' = [work EXCEPT ![q] = content]
    /\ UNCHANGED <<commit, timeline, blobs, refs, head, index, staging, holder, pc, cmd>>

-----------------------------------------------------------------------------
\* init: branch b at the empty root state; whatever files were there stay.
Init ==
    /\ commit = [s \in {Root} |-> [parents |-> {}, files |-> NoFiles]]
    /\ timeline = {Root}
    /\ blobs = {}
    /\ \E b \in Branch : /\ head = b
                         /\ refs = [r \in Ref |-> IF r = b THEN Root ELSE NoState]
    /\ index = [q \in Path |-> NoState]
    /\ staging = [active |-> FALSE, entries |-> Unstaged]
    /\ work \in Files
    /\ holder = NoProc
    /\ pc = [p \in Proc |-> "idle"]
    /\ cmd = [p \in Proc |-> NoCmd]

Start(p) ==
    /\ Free(p)
    /\ \/ Commit(p)
       \/ \E s \in Resolvable, force \in BOOLEAN : Merge(p, s, force)
       \/ \E dest \in {b \in Branch : refs[b] # NoState} \cup timeline,
             force \in BOOLEAN : Checkout(p, dest, force)
       \/ \E s \in Resolvable : ResetSoft(p, s)
       \/ \E s \in Resolvable : ResetMixed(p, s)
       \/ \E s \in Resolvable, force \in BOOLEAN : ResetHard(p, s, force)
       \/ \E s \in Resolvable, force \in BOOLEAN : Revert(p, s, force)
       \/ \E s \in Resolvable, force \in BOOLEAN : CherryPick(p, s, force)

Run(p) ==
    \/ Resume(p)
    \/ FinishGuard(p)
    \/ WriteBlobs(p)
    \/ WriteTimeline(p)
    \/ WriteTree(p)
    \/ WriteIndex(p)
    \/ ClearStaging(p)
    \/ WriteRef(p)

Next ==
    \/ \E p \in Proc : Start(p)
    \/ \E p \in Proc : Run(p)
    \/ \E p \in Proc : Stop(p)
    \/ \E paths \in SUBSET Path : Add(paths)
    \/ \E r \in Ref, s \in Resolvable : CreateRef(r, s)
    \/ \E r \in Ref : RemoveRef(r)
    \/ \E mode \in GcModes : Gc(mode)
    \/ \E q \in Path, content \in Content \cup {Absent} : UserEdit(q, content)

Spec == Init /\ [][Next]_vars

-----------------------------------------------------------------------------
(* Safety.                                                                 *)

Writing(p) == pc[p] \notin {"idle", "hook"}

\* What lock.rs says of RepoLockGuard: a command past its hooks holds repo.lock until it
\* ends, so no two of them ever run into each other.  Commits and merges without
\* --no-verify do not keep this (run hooks_exclusion).
WriteExclusion ==
    \A p \in Proc : Writing(p) => /\ holder = p
                                  /\ \A q \in Proc \ {p} : ~Writing(q)

\* Whatever a branch, a tag or a detached HEAD needs can be loaded, at every
\* point where commands may be stopped (persist_state before the ref; gc's roots).
RefsComplete == \A s \in Reachable(Parents, Tips) : Loadable(s)

IndexAt(s) ==
    \A q \in Path : index[q] = IF FilesOf(s)[q] = Absent THEN NoState ELSE s

\* HEAD never comes to stand on a state before index.json is at it, so a command
\* stopped early leaves HEAD on the state it started from; reset --soft alone
\* moves the ref and nothing else (finish_merge, finish_revert, commit, reset; bisect
\* reset, which writes HEAD first, is in Bisect).
RefsAdvanceLast ==
    [][HeadState' # HeadState =>
          \/ IndexAt(HeadState')
          \/ \E p \in Proc : cmd[p].kind = "soft" /\ pc[p] = "ref"]_vars

\* Without --force a command that moves to another state overwrites or removes
\* only files whose content HEAD holds: no edit is lost (materialize_guard).
NoSilentDiscard ==
    [][\A p \in Proc, q \in Path :
          /\ pc[p] = "tree" /\ work'[q] # work[q]
          /\ ~cmd[p].force /\ cmd[p].target # HeadState
          => work[q] \in {HeadFiles[q], Absent}]_vars

\* A staged path leaves the staging index only with the commit that records it,
\* with --force, with reset --mixed, or when the tree is restored to HEAD
\* (clear_staging_entries and its callers).
StagedWorkKept ==
    [][\A q \in Path :
          staging.entries[q] # NotStaged /\ staging'.entries[q] = NotStaged =>
             \E p \in Proc :
                /\ pc[p] = "staging"
                /\ \/ cmd[p].kind = "mixed" \/ cmd[p].force
                   \/ cmd[p].target = HeadState
                   \/ cmd[p].kind = "commit"
                      /\ FilesOf(cmd[p].target)[q] = staging.entries[q]]_vars

\* A branch is moved off a state only to one of its descendants, except by reset
\* and revert: no commit or merge drops a state that was on a branch.
BranchesGoForward ==
    [][\A b \in Branch :
          refs[b] # NoState /\ refs'[b] \notin {NoState, refs[b]} =>
             \/ IsAncestorOf(Parents, refs[b], refs'[b])
             \/ \E p \in Proc : /\ pc[p] = "ref" /\ pc'[p] = "idle"
                                /\ cmd[p].kind \in {"soft", "mixed", "hard", "revert"}]_vars

-----------------------------------------------------------------------------
(* The inductive invariant behind TypeOK and RefsComplete.                 *)

\* A running command holds the lock, except commit and merge without --no-verify.
LockInv ==
    \A p \in Proc :
        /\ pc[p] # "idle"
        /\ NoVerify \subseteq {TRUE} \/ cmd[p].kind \notin {"commit", "merge"}
        => holder = p

\* Every ref names a state of the timeline, and HEAD's branch exists.
TipsInv ==
    /\ \A r \in Ref : refs[r] \in timeline \cup {NoState}
    /\ HeadState \in timeline

\* The timeline holds the root, is closed under parents and its blobs are stored.
TimelineInv ==
    /\ Root \in timeline /\ Parents[Root] = {}
    /\ ParentClosed(Parents, timeline)
    /\ \A s \in timeline : Contents(FilesOf(s)) \subseteq blobs

Planning  == {"hook", "guard", "blobs", "timeline"}
Finishing == {"tree", "index", "staging", "ref"}

\* What a command in flight will record or end on is, or will then be, complete.
FlightInv ==
    \A p \in Proc :
        /\ pc[p] \in Planning => cmd[p].parents \subseteq timeline
        /\ pc[p] \in Planning /\ ~Creates(cmd[p]) => cmd[p].target \in timeline
        /\ pc[p] \in Finishing => cmd[p].target \in timeline
        /\ pc[p] = "timeline" => Contents(cmd[p].files) \subseteq blobs
        /\ pc[p] # "idle" /\ cmd[p].kind = "checkout" =>
              \/ cmd[p].dest \in Branch /\ refs[cmd[p].dest] # NoState
              \/ cmd[p].dest = cmd[p].target /\ pc[p] \in Finishing

\* A repository on which gc never deletes blobs alone, and runs only where no
\* command can have given up the lock (GcKeepsHistory in RepoProofs), stays complete.
RepoInv == TypeOK /\ LockInv /\ TipsInv /\ TimelineInv /\ FlightInv

-----------------------------------------------------------------------------
\* With --no-verify always given, a repository keeps the promises of BranchLog.
Log == INSTANCE BranchLog
         WITH known   <- timeline,
              lineage <- [s \in timeline |-> commit[s].parents],
              tip     <- refs,
              cur     <- head

LogSpec == Log!Spec
=============================================================================
