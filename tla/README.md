# astvcs in TLA+

A formal model of astvcs, a version-control system that stores syntax trees: what its
commands do to the stores under `.astvcs`, to the working tree and to other repositories
when they are interleaved, stopped half way and run beside editors, hooks and each other,
and what its structural merge makes of two programs. The modules are translated from the
Rust source under `src/`; `PROJECT.json` maps every definition to the lines it stands
for. Paths below are relative to `src/` of the repository unless they name a module.

## The system

| part | state it keeps | operations | talks to |
|------|----------------|------------|----------|
| repository commands (`store/repo.rs`, `cherry_pick.rs`, `tags.rs`, `merge_resolve.rs`) | `HEAD`, `refs/heads`, `refs/tags`, `index.json`, the working tree | commit, merge, checkout, reset, revert, cherry-pick, branch, tag, add, status, diff | every store, under the lock |
| staging index (`staging.rs`) | `staging.json`: a flag set by the first `add`, entries | add; cleared by commit and by materializing | commit, the dirty-tree guard |
| repository lock (`lock.rs`) | OS lock on `repo.lock`; per thread a depth and a cached file | acquire (fails at once), suspend, resume, drop | every command; hooks and bisect suspend it |
| client hooks (`hooks.rs`) | `hooks/commit-msg-input` | pre-commit, commit-msg, pre-merge, pre-push | run with the lock given up; may run any command |
| history (`history.rs`, `reachability.rs`, `shallow.rs`) | `timeline/`, shallow boundaries | ancestry walks, merge base, reachability | merge, revert, rebase, gc, sync |
| integrity (`integrity.rs`) | none of its own | gc (two tiers), fsck, repairs | all stores |
| blobs and packs (`blobs.rs`, `pack.rs`, `manifest.rs`) | loose blobs, packs and their index, manifests | write, read, repack, remove | everything that loads a state |
| rebase, bisect, stash (`rebase.rs`, `bisect.rs`, `stash.rs`) | a state file each; `stash/stack.json` and entry files | start, continue, abort; good, bad, skip, run, reset; push, apply, pop, drop, clear | the repository's own commands; bisect runs a script without the lock |
| network (`network/*.rs`) | `remotes.json`, `refs/remotes`, `shallow.json` | fetch, push, pull, clone, the server's handlers | two repositories; HTTP, ssh or file transport |
| scan (`walk.rs`, `scan_cache.rs`) | `scan-cache.json` | scan, verify, invalidate | status, commit |
| syntax graphs (`graph/`) | nodes by content hash, one parent per node, trivia | apply a mutation, re-seal ids, follow changed ids | diff, merge |
| diff and merge (`diff/`, `merge/`, `intent/`) | none | align, diff, detect renames, merge two batches of mutations or of line edits | the merge planner of `repo.rs` |
| front ends, command line, drivers, blame, identity, git import | configuration | parsing, printing | |

### What is hard here, and what correctness means

* **Concurrency.** Local commands exclude each other with one advisory lock. It is given
  up while a hook or a bisect script runs, and what a command read before that it uses
  afterwards. Correct: commands past their checks exclude each other; nobody's staged or
  committed work is dropped.
* **Stops.** A command writes several files and can be killed, or fail, between any two.
  Correct: a ref never names a state that cannot be loaded; HEAD moves last; one can
  always go on or back.
* **Destructive steps.** Checkout, reset, merge and revert overwrite the tree; gc and
  repack delete. Correct: without `--force` nothing is overwritten that HEAD does not
  hold; gc leaves what refs need; a stored blob reads back.
* **History.** Correct: branches move to descendants except where a reset or revert is
  asked for; parents are never missing; merge bases are common ancestors.
* **Replays** (rebase, bisect, stash): a persisted queue or search that must survive a
  stop between its writes and a user who moved HEAD meanwhile. Correct: no commit is lost
  or doubled, abort goes back, stashed work is in the tree or in a listed entry.
* **Sync**: repositories that trust each other's refs, uploads that stop half way,
  fast-forward checks that race. Correct: a ref names a whole history; branches of the
  remote go forward unless forced; a full fetch undoes a shallow one.
* **Merging**: whether two edits conflict is decided pair by pair before either is
  applied, on ids that the first application changes. Correct: a merge without conflict
  holds what both sides brought and nothing either side removed.

`PROJECT.json` lists each hazard at its line, with the property that covers it or the
reason that none does.

## Modules

| module | stands for |
|--------|-----------|
| `History` | the commit graph: reachability, ancestry, breadth-first depth, merge bases. Walks are given by the set or distance they compute, so the module has no recursion and can be reasoned about |
| `Repo` | one repository: all stores, the working tree, and processes that run commands |
| `BranchLog` | the abstract promise: named states, refs and HEAD, without files, locks or crashes |
| `Jobs` | over `Repo`: a command that writes its files one by one and may stop before each |
| `Rebase`, `Stash` | over `Jobs`: the rebase queue, and the stash stack with its entry files |
| `Replay` | the two together with the commands of `Repo` that a user runs in between |
| `Bisect` | `bisect start`, marks, `bisect run` with its script, `bisect reset` |
| `Peers` | several repositories: what each holds, and the local commands that change it |
| `Sync` | over `Peers`: push, fetch, pull and clone, request by request, and the server's handlers |
| `Store` | loose blobs, packs, manifests, timeline: commit, repack and gc, one file at a time |
| `AstGraph` | the syntax graph and the application of mutations |
| `AstDiff` | over `AstGraph`: the diff of two graphs |
| `TextMerge`, `FileMerge`, `TreeMerge` | line edits; overlap and combination of mutations; the merge of three syntax trees |
| `PathMerge` | over `TextMerge`: the merge of one tracked path, whatever merges syntax trees |
| `MergePlan` | over `PathMerge`: the plan of a merge or a revert over all paths, with renames and resolutions; what merged texts hold |
| `MergeContents` | `MergePlan` with `TreeMerge`: what merged programs hold |
| `MCRepo`, `MCBisect`, `MCReplay`, `MCSync`, `MCStore`, `MCMergePlan` | instances for TLC |
| `HistoryProofs` | lemmas about `History` and about least and greatest numbers, for the others |
| `RepoProofs` | theorems of `Repo`: what holds of its states, what its steps may do |
| `ReplayProofs` | the same of `Replay` |
| `BisectProofs`, `StoreProofs`, `MergePlanProofs` | theorems of `Bisect`, `Store` and `MergePlan` |
| `SyncProofs`, `SyncWholeProofs` | theorems of `Sync`: types, blobs, branches and fetches; that refs stay whole |

`AstGraph`, `AstDiff`, `FileMerge`, `TreeMerge` and `MergeContents` use RECURSIVE operators
or reach one, and are only model-checked; the others do not. That is why `PathMerge` takes
the merge of syntax trees (`MergeTrees`), and `MergePlan` the test of an edit-only diff
(`SameShape`), as constants: the runs give them the values of `TreeMerge`, the proofs
assume nothing of them.

### How `Repo` corresponds to the code

A command has two halves. `Start(p)` is everything up to the first write: taking the lock
(`Free`), resolving the reference, planning, and the first guard. It is one step because
the lock is held and nothing has been written. It leaves a `cmd[p]` record, the local
variables the code carries to its second half: the new state's parents and files, or the
state to end on, `--force`, HEAD's new value for a checkout, and the staging flag commit
read. `Run(p)` then writes one store per step in the order of the code; `Follow` is that
order:

    commit                [hook] - blobs - timeline - index - staging - ref
    merge                 [hook] - guard - blobs - timeline - tree - index - staging - ref
    merge, fast-forward   [hook] - guard - tree - index - staging - ref
    revert, cherry-pick   blobs - timeline - tree - index - staging - ref
    checkout, reset --hard, revert to the parent    tree - index - staging - ref
    reset --mixed         index - staging - ref
    reset --soft          ref

`Stop(p)` ends a command at any of these points; during the tree step it leaves any of the
trees `Interrupted` describes, one of whose files may be missing. Every commit and merge
without `--no-verify` passes `"hook"`, whether or not a hook is installed: the lock is
suspended first and `run_hook` then finds no file. While it is there the lock is free and
other processes and editors run; `Resume` goes on only if the lock is free then. The guard
object that `resume_repo_lock` returns is a local of the hook function, so after it `holder`
is not the command any more. `NoVerify` is what the commands of an instance may be given:
`{TRUE}` is `--no-verify` always, where every command keeps its lock; with `FALSE` in it the
default is covered, where commits and merges write without it. `add`, branch and tag
commands and gc write in one step.

`commit` maps ids to entries for ever (an id is a hash), while `timeline` is the set of
ids that have an entry on disk, which gc may shrink. A recreated commit may get an old id
back. `Content` is a file's content with its mode, and stands for its blob. `work` holds
what is on disk for every path, tracked or not.

### How `Bisect` corresponds to the code

`search` is the file `bisect-state.json`, or `NoSearch`. What the search is to find out is
chosen at the start and never changes: `broken`, closed under descendants (a bug stays),
and `untestable`, where the script answers 125. Marks are truthful and the script's verdict
is a function of the state it is run on; without that no search can be right. `Test` is
the top of the loop up to the moment the lock is given up, `ScriptEnds` everything from
the script's return to the save or the report: `TestedGood` (exit 0), `TestedBad` (exit 1),
`Skipped` (exit 125, with the code's repairs of `low` and `high`), or `Fail`. A script killed
by a signal counts as exit 1 in the code, a verdict that is not truthful (see Findings). In between,
the commands in `Nested` may run. `Fail` is any error, and also the panic on an index out
of range that a stale midpoint can cause. Positions count from 1; `(low + high) / 2` names
the same state either way. The candidates are what the first-parent walk collects: it meets
`good` exactly when `good` is an ancestor of `bad` and every state between is linear
(`Bisectable`), and then the states between are a chain, numbered by age (`Line`). HEAD
stands for the whole checkout; its steps are in `Repo`. `home` is the HEAD the user had:
reset removes the file before it writes HEAD, so a reset killed in between (`StopReset`)
loses it, and from then on the user's HEAD is where it was left.

### How `Replay` corresponds to the code

`job` is the rebase or stash command that holds the lock: a step name and the locals it
carries from write to write. A rebase turns its loop as

    start (queue) - [ replay - blobs and entry - branch ref - queue ]* - queue deleted - tree - index - staging

and a conflict leaves it after writing the queue and the tree with the conflict. HEAD is
never written: it stays on the branch, whose ref moves with every commit. `Replayed` is the
queue after a commit; `SaveQueue` writes it after the ref, so a stop in between leaves a
commit replayed that is still listed. `Continue` plans the stopped commit again and takes
its resolutions from `--resolve` or from the tree, `Abort` writes the original tip back.
`queue` is `rebase-state.json` and is read anew by every command, whatever the user did in
between. `stack` and `entry` are `stack.json` and the entry files: `Push` writes an entry,
then the stack, then the tree; `Unstack` the stack, then removes the entry.

### How `Store` corresponds to the code

`loose` are the sharded blob files, `packs` what each pack file holds, `index` the saved
`packs/index.json`; the index a command is building is in its `job`. `DeltaBase` is the
greatest id below a blob's in its shard, if the delta is smaller (`Alike` says for which
pairs). Readers follow bases to any depth (`Unpacks`), while the re-encoding in a removal
does not (`Decodable`), as in the code. gc lists what it will delete once, then deletes
loose copy, packed copy and index entry of each blob, then entries and manifests in any
order; any command may stop before any write. Where the code goes through a list of blobs
in order, the model takes the least id left (`First`). `PointRef` stands for every command that
moves a ref without writing objects.

### How `Sync` corresponds to the code

`timeline`, `blobs`, `heads`, `tags`, `tracking` and `shallow` hold, per repository, what
is on its disk. `job[c]` is the network command that a client has in flight: `list` are
the states still to transfer, `queue` and `seen` the walk of `collect_upload_states`,
`left` the refs still to do. Each step is one request, or one write on the client's side.
The walk of the server's ancestry request is breadth-first: the next state is the first
parent not yet met of the earliest state that has one (`Onward`), and `Ancestry` is the
function of how many turns have been made, cut at the limit. States are finitely many, so
that an unlimited walk ends. At the start each repository holds a part of the history
that is closed under parents and holds its branches (`PeersAssumption`).
The handlers are operators (`Accepts`, `PutHead`, `PutTag`, `PutBlobs`, `PutTimeline`,
`Served`, `Walkable`). Where the remote's lock covers check and write depends on how it is
reached: with `serve` one step, over ssh or a path two (`SetHead`, `WriteChecked`), since
neither `Transport::set_ref` nor the handler behind `remote-serve` holds the lock over
both. A client's own command may run beside its push when the pre-push hook has lost its
lock (`KeepsLock`). `Fail` is a refused request, a dropped connection or a kill;
`CleanUp` is what a failed clone does. Which kinds of command a behaviour runs is chosen
at its start (`uses`), which keeps the instance small without leaving a combination out
within a scenario.

### How the merge modules correspond to the code

In `AstGraph` a node is its own id, so that changing a node changes every ancestor:
`Reseal` is `cascade_id_change`, which walks `parents`, and `Rebuilt` is `rebuild_parents`,
which keeps one parent of a shared node, the last in hash order: every choice is an
outcome. `Apply` gives the outcomes of one mutation and the ids it changed; `ApplyBatch`
follows each later mutation through those changes (`Remap`), as `apply_batch` does.
`AstDiff` goes through the passes of `diff_children` in their order: equal lists, a
reorder, then either the passes of short lists or those of lists above `LcsThreshold`,
then fingerprints, structure, leaves, deletes, inserts. Passes over a hash map take both
orders. `FileMerge` has the overlap test in the order of `overlap_reason`, and
`CombineBatches` the filters and the sort of `combine_mutation_batches`. In `TextMerge`
the alignment is any longest common subsequence, as the crate is free to choose; `InOrder`
sorts by counting what comes before, since the prover cannot expand the library's sorts.
`MergePlan` visits base paths, then the rest, then applies resolutions; a revert skips the
renames and starts from the base's files. `DetectPathRenames` takes the removed paths in
order, each with the first added path that is free and that it may be renamed to
(`TakeTarget`); `BasePath` has the three outcomes of a base path: renamed apart, renamed
onto a file that HEAD has (`DestinationTaken`), or merged where `SidePaths` finds it on
each side. Which base path is next is open, as the code walks a hash map.

### What is abstracted

* In `Repo`, `PathMerge` gives, per path, the results `merge_path` and `--resolve` can
  have; three different contents may merge into any content or conflict. Where
  `detect_path_renames` may fire, the merged files are left open. What really comes out is
  in `MergePlan`. Plans in `Rebase` and `Stash` are per path, without renames.
* The choice between merge bases of equal total depth is open: the code takes the first a
  `HashMap` yields.
* A store file is replaced in one step. In `Repo` a stop inside the loop that writes blobs
  leaves garbage only, and gc and the one-step commands are not stopped half way; `Store`
  takes those apart, and `Jobs` the commands of rebase and stash.
* Edits happen while no command is past its checks: the program does not try to detect
  edits after its guard, so nothing is promised about them.
* `Peers` leaves files, index and working tree to `Repo`, and takes one local command as
  one step, as it holds the lock. All clients have the same remote.
* A commit or merge of `Peers`, `Store` or the run `replay` keeps its lock to the end, which
  the program grants with `--no-verify` only; two that have lost it, side by side, are in
  `Repo` alone. The pushes of `Sync` lose theirs (`"verify"`), as they do by default.
* gc of the server does not run between the upload of a push and its ref (`Quiet`): the
  uploaded states are unreachable until then and gc would delete them. See Findings.
* Ids never collide. Trivia (the layout between tokens), reports, and the language front
  ends are left out of the merge modules; they start from parsed files.
* Remote-tracking refs and shallow boundaries are in `Peers` only; `default_branch`,
  identity, `--paths` of git import and the scan cache are nowhere.

## Runs

| run | bounds | shows |
|-----|--------|-------|
| `core_locked` | 2 new states, 2 branches, 1 path, 2 contents, 2 processes, every command with `--no-verify`, gc of both tiers | `RefsComplete`, `RefsAdvanceLast`, `NoSilentDiscard`, `StagedWorkKept`, `BranchesGoForward`, and that `Repo` implements `BranchLog` (`LogSpec`) |
| `core_history` | 3 new states, 1 branch and a tag, 1 content, gc of history; commit and merge with `--no-verify`, soft reset, revert, cherry-pick | `RefsComplete`, `BranchesGoForward`, `LogSpec` on histories with a merge and a revert of it: gc must follow every parent |
| `core_edits` | 1 process, with and without `--no-verify`, 2 paths, 1 content; commit, merge, hard reset; no gc | `TypeOK`, the inductive invariant `RepoInv`, `RefsAdvanceLast`, `NoSilentDiscard` while files are edited during a hook |
| `bisect` | a line of 6 states and a merge of the last one with the second, 1 branch, every set of untestable states; resets and checkouts beside the script; runs and resets killed anywhere | `TypeOK`, `SearchSound` (the range stays inside the list and keeps the first bad candidate left), `ReportCorrect`, `WayBack`, `SearchEnds` |
| `replay` | a branch of 2 commits and an upstream of 1 over a common base, 2 ids for replayed commits, 1 path, 2 contents, 2 stash ids; 6 scenarios of commands; stops anywhere | `ReplayTypeOK`, `QueueSound`, `EveryCommitReplayed`, `AbortRestores`, `StashKeepsWork`, `PopDelivers`, `ListedHaveEntries`, `JobsEnd` |
| `sync` | 2 clients and a server, 6 states with a fork and a merge, 2 branches, 1 tag, depths 1, 2 and 4; 5 scenarios: work shared, forced pushes, tags over ssh, clones beside gc, limited fetches; pushes without `--no-verify`, whose lock is lost | `SyncTypeOK`, `RefsWhole`, `RemoteForward`, `FullFetchHeals`, `SyncEnds` |
| `store` | 3 states, 3 blobs in a shard each alike to the one below, 1 ref, 2 packs; stops before any write | `StoreTypeOK`, `StoredReads`, `RefsStayWhole`, `GcReclaims` |
| `merge` | 3 opaque paths of up to 4 contents, modes and kinds, texts of 3 lines, programs of up to 4 statements, lists of up to 3 elements, a program renamed and edited; `LcsThreshold` 6 | `MergePlanTypeOK`, `ContentKept`, `LinesMerge`, `EditsBothApplied` |
| `hooks_exclusion`, `sync_partial`, `rename_add`, `merge_reorder` | the instance of their area, cut down | four sentences of the documentation that the code does not keep (see Findings) |

**Why the bounds are enough.** Two new states suffice for a fork (root, and two children of
it), a fast-forward and a merge of a state with its own ancestor; three give a merge commit
of a fork and commands on top of it. Ids run out, so long histories are not reached: what
depends on length is left to the theorems. Two contents let two sides of a path differ
from each other and, with absence, from the base; two processes give every pair of
concurrent commands, and a third would meet the same lock. gc may rerun at any time, so
states are forgotten and their ids reused. Five candidates give a search three tests
deep, with skips below, at and above the midpoint. Two commits to replay give a conflict
at the first, at the last and at none, and a stop before, between and after them; a second
path would only vary a plan that is made path by path. In `sync` the fork and the merge
make a walk meet a state twice, and the depths cut it before, at and past the merge. Three
blobs are the least number with a delta on a delta. The code's threshold of 48 would need
lists of seven elements for the wide passes; 6 sends the same passes lists of three, and
both sides of the comparison are reached. The two violation runs about merges use 48.

**Fairness.** The core makes no liveness promise and assumes none: a command that finds the
lock taken fails and nobody waits. `MCBisect` assumes weak fairness of `Test` and
`ScriptEnds`: the loop never waits, and the script is taken to return (the code sets it no
time limit). `ReplaySpec` has weak fairness of `JobStep`: a command that holds the lock
waits for nothing. `SyncSpec` has it, per client, of the command's step or its failure:
over http a request is answered or times out after 60 seconds (`network/transport.rs:52`);
a read from ssh has no limit (`network/ssh.rs:148`), so there `SyncEnds` rests on the far end
answering or the connection breaking. `Store` and `MergePlan` claim no liveness. Deadlock
is not checked in `sync`, `store` and the merge runs: there every command may be done and
every bounded id used up.

### The refinement

`Repo => BranchLog` maps `timeline` to the states that can be named, the entries' parents
to lineage, `refs` and `head` to themselves. `WriteTimeline` is `Learn`, the last step of
a command `Move` or `Switch`, gc `Forget`; everything else stutters. It says that history
only grows at the current state, refs name states that exist, creating a ref overwrites
none, HEAD always has a branch to stand on, and gc forgets only what no ref needs. It
holds where `--no-verify` is always given; without, a commit can hang off a state that is no
longer current, by the first finding.

## Findings

Four have a run whose counterexample shows them:

1. `hooks_exclusion`, `hooks.rs:206,241`: every commit and merge without `--no-verify` does
   all its writes without `repo.lock`, since the resumed guard is dropped with the hook
   function. It needs no hook: `run_hook` returns for want of a file (`hooks.rs:46`) after
   the lock has been suspended. (`bisect run`, in contrast, keeps it with `mem::forget`.)
   Contradicts `lock.rs:47` and `docs/architecture.md:43`. push loses its own lock the same
   way (`hooks.rs:276`).
2. `sync_partial`, `network/sync.rs:60`: an upload stops at an entry that the remote has,
   and uploads go breadth-first from the tip, so that a child can be there before a parent
   that another path reaches. After a push stopped in between, a push of the child uploads
   nothing more and the branch lacks its history. Contradicts `docs/commands.md:77`.
3. `rename_add`, `repo.rs:1728`: when HEAD renames a path to where the other branch adds a
   file, that file is lost without a conflict. Contradicts the test listed at
   `docs/architecture.md:405`, which has the other direction only.
4. `merge_reorder`, `merge/mod.rs:651`: a reorder is not compared with inserts into the
   same list, and applied last it overwrites HEAD's insert. Contradicts `README.md:34`.

The others were met while modelling. Those marked * were seen as counterexamples of a
property on an instance like the ones here; each property excludes the case named, or
needs the feature that its run leaves out.

* Staging: `repo.rs:2420` saves the staging index that commit loaded before its hooks, so
  what was staged during a hook disappears. `gc --prune` deletes staged blobs, which are no
  roots of it (`integrity.rs:260`, `docs/architecture.md:59`); the commit then refuses.
* Stops: `repo.rs:2618` removes a file before its replacement is renamed into place, so a
  stop can leave neither (`docs/architecture.md:51`).
* gc: `integrity.rs:281`, `gc --prune`, deletes blobs of unreachable states that it keeps
  for a later checkout (`docs/architecture.md:63`); fsck then reports them
  (`docs/architecture.md:67`). gc has no roots for rebase, stash and bisect files. After a `gc --prune-history` stopped half way, a branch pointed at an entry that
  was left makes every later gc fail, and fsck, which does not check parents, finds nothing.
* Packs: `pack.rs:465` does not decode a delta on a delta, so removing a blob that is a
  base and a delta itself makes `gc --prune` fail, again at every try
  (`docs/architecture.md:65`). `Reencode` is then not enabled, and `GcReclaims`, which is
  about a gc that gets through the blobs, says nothing of it.
* Bisect: `bisect.rs:282` applies the verdict at the midpoint computed before the script,
  to the file loaded after it. A mark made meanwhile renumbers the candidates, and a wrong
  state is reported (`docs/commands.md:175`, `:181`). `bisect.rs:314` keeps in `skipped`
  only what is still a candidate, so it stays empty, and a later mark makes a skipped state
  a candidate again. `bisect.rs:388` reports a script that a signal killed as exit 1, so a
  script that runs out of memory marks its state bad (`docs/commands.md:181` names only codes).
  `bisect.rs:347` writes HEAD before the tree; `RefsAdvanceLast`, which is about `Repo`, does
  not look at bisect.
* Rebase: commits that a user makes on the branch while a conflict waits are dropped by
  `--continue` and `--abort`, which go by the queue. The base is the common ancestor of least
  total depth (`history.rs:149`), which need not be a lowest one (`history.rs:119`)*: with
  `topic` two commits above `b`, `b` a child of the root, and an upstream that merges the
  root with a commit two above `b`, the root is nearest, and `b`, which the upstream has,
  is queued and replayed again.
* Stash: a tracked file that is deleted counts as a change, but no entry records it
  (`stash.rs:341`, `docs/commands.md:140`); `push -u` leaves untracked files where they
  are; after `reset --soft`, a file that `index.json` lists and HEAD lacks is removed by
  push unrecorded (`StashKeepsWork` excludes it).
* Tags: a push of a branch that is up to date returns before it pushes tags
  (`docs/commands.md:77`, `:90`).
* Remote branches: `clone` records all of them and downloads one, so gc fails in a new
  clone until a fetch or `fsck --prune-refs` (`RefsWhole` looks at a clone's own refs).
* ssh and paths: check and write of a pushed ref are not under one lock (`api.rs:199`,
  `transport.rs:351`, `docs/architecture.md:45`), so of two clients pushing at once over
  ssh one can be lost without `--force`; a branch that cannot be read, because the remote's
  user holds the lock, is overwritten without a check (`docs/commands.md:224`).
  `RemoteForward` is checked with several clients over `serve`, with one over ssh.
* gc of a server between an upload and its ref deletes what was uploaded.
* Shallow: past a boundary the merge base of what is left need not be one of the whole
  history (`history.rs:123,153`, `docs/commands.md:220`). A walk records one boundary, the
  last state of the walk, although its limit may cut several paths; a limited fetch into a
  complete repository marks a state there as boundary; an interrupted deeper fetch leaves a
  stale one; a full fetch of one branch clears those of all. gc fails in a shallow clone,
  and a push from one to an existing branch needs `--force`.
* Equal contents: let two paths `a` and `b` hold the same in the base. HEAD renames `a` to
  `c` and deletes `b`, the other branch edits `a` and renames `b` to `c`. Both base paths have
  `c` as their result (`repo.rs:1697`), and each finds there what the other side put
  (`repo.rs:1702`); whichever the hash map yields last wins, and the edit of `a` may be lost
  without a conflict. `ContentKept` leaves out what was brought to such paths.
* Text merge: edits numbered in different texts are applied in one pass
  (`merge/mod.rs:618`, `diff/text_diff.rs:24`). From `1 2 3`, with `p q 1 2 3` on the left
  and `1 2` on the right, lines come out of order (`docs/architecture.md:188`).
  `LinesMerge` is about edits in place and deletions. Nor does it hold when a line is
  brought from elsewhere in the text: from `1 2 3`, with `1 3 3` on the left, the diff may
  keep either `3`, and then an edit of line 3 on the right does or does not conflict.
* Repeated and moved subtrees: beside a reorder a delete leaves a list that names nodes
  which are gone; deleting one of two equal statements deletes both; two moves in one list
  garble it. `EditsBothApplied` is about programs where nothing repeats or moves.
* Lists: appending on one side and prepending on the other to a short list misplaces
  commas. `docs/architecture.md:155` says of alignment that it is heuristic.
* Kinds: a symlink on one side and no file on the other always conflicts
  (`merge/mod.rs:388`); a deletion wins over a change of mode alone; a path that both
  sides rename differently conflicts at its base path, where `--resolve` finds no file.

## Proofs

Each theorem below is about every execution and every value of the constants that
satisfies the assumptions named in the modules (`RepoAssumption` and the like: ids differ
from the marks for none, the given history is a graph over states that has a root). Where
one needs more, it is said. None of the properties is inductive; the argument is the
invariant that makes it so.

### `RepoProofs`

* `Invariance`, `TypeCorrect` and `RefsStayComplete`: `[]RepoInv`, `[]TypeOK` and
  `[]RefsComplete` under `GcKeepsHistory`: gc is not asked to delete blobs alone, and does
  not run beside commands that lose the lock, which leaves the default configuration without
  gc and `--no-verify` with it (`AlwaysNoVerify`). `RepoInv` says that a running command holds
  the lock unless it gave it up to its hooks (`LockInv`), that refs and HEAD name timeline entries (`TipsInv`),
  that the timeline contains the root, is closed under parents and has its blobs
  (`TimelineInv`), and that what each command in flight will record or end on is, or will by
  then be, complete (`FlightInv`). The lock matters to gc: it may only delete when no
  command is between its plan and its ref. `RefsComplete` follows because reachability is
  the least parent-closed set (`ReachableLeast`). Both assumptions are needed: without the
  first `gc --prune` breaks states that are kept; beside a lost lock a commit's state may be
  deleted before its ref is written.
* `HeadMovesLast`, `BranchesMoveForward`, `EditsSurvive`, `StagingSurvives`: the action
  properties `RefsAdvanceLast`, `BranchesGoForward`, `NoSilentDiscard` and `StagedWorkKept`,
  where `--no-verify` is always given and gc does not delete blobs alone (`Guarded`). A step is judged by
  what the command read when it started, so `HeldInv` carries along what the lock keeps
  true until the ref: the recorded state is a child of HEAD's, a fast-forward goes to a
  descendant, `index.json` is at the target before `staging.json` and the ref are written,
  and unless the command is forced the tree is still clean and nothing is staged that it
  does not hold (`Flight`, one conjunct for each of these facts).
* `KeepsBranchLog`: `Spec => LogSpec` under the same assumptions, the refinement of
  `BranchLog`. Initial states map to initial states, and each action of `Repo` to the step
  of the abstract log named under [The refinement](#the-refinement) or to a stutter.
* `EditsStayStored`: `Spec => EditsStored`, the part of `NoSilentDiscard` that survives the lost
  lock, for any number of commands that write side by side: whatever an unforced merge, revert
  or cherry-pick overwrites or removes is in the blob store. The check of such a command may be
  out of date when it writes: another command may have moved HEAD, written the tree or half of
  it since. `TreeStored` is what stays true: at its check every file was HEAD's, hence stored;
  files get into the tree only from the store, whoever writes them; and an editor waits for
  commands past their checks (see What is abstracted). The HEAD that had the file may be gone
  from every branch by then, so that the blob is all there is left of it. gc may
  prune history beside it, but no blobs.

### `BisectProofs`

* `WayBackKept`: `Spec => []WayBack` for every history, every set of
  commands beside the script (marks and starts included) and every kill. `WayInv` says that
  the file and a reset under way never exist together, that each holds `home`, and that
  without them HEAD is there. It needs no fact about the candidates.
* `TypesKept`, `SearchStaysSound` and `ReportsFirstBad`: `[]TypeOK`, `[]SearchSound` and
  `ReportCorrect`, where beside the script only resets and checkouts run (`Unmarked`; with
  marks there the statement is false, see Findings). `SearchInv` says that the candidates
  are the states between the boundaries but for untestable ones, each an ancestor of the
  next, all good below the range, and bad at its upper end if any is; and that the script
  is asked about the middle of the range in the file (`Asked`). That a first-parent walk
  gives such a list is `LineSound`: a state between two others that are `Bisectable`
  is the only one of its depth, and depths follow each other without a gap. It needs that
  states are finitely many. A descendant of a bad state being bad (`Bugs`) then makes one
  verdict decide a side.

### `StoreProofs`

* `StoreTyped`, `StoredAreRead`, `GcReclaimsAll` and `RefsKeptWhole`: `[]StoreTypeOK`,
  `[]StoredReads`, `[]GcReclaims` and `RefsStayWhole`, for any manifests, any relation of
  blobs that compress against each other, any number of refs and packs, and stops before
  any write. `Sound` is the heart: each indexed blob is in its pack with its base, and the
  base has an entry and a lesser id. Delta chains therefore end, and that every blob of an
  index can be unpacked follows from the least one that could not (`LeastNumber`), without
  recursion. A removal re-encodes what hangs on the blob before the index drops it. `GcInv`
  says that what is stored is kept or still to be removed; `CommitInv` that a commit has
  its blobs before its entry and its entry before its ref.

### `ReplayProofs`

* `ReplayTyped`: `[]ReplayTypeOK`, by `ReplayInv`, which is `RepoInv` with what the job in
  flight adds: it holds the lock and its process runs nothing else (`JobInv`), the queue
  names entries (`QueueInv`), the stack lists ids (`StackInv`), and each step finds the
  queue, target or stack position that it writes from (`StepInv`). `RepoProofs`' lemmas
  apply as they are to the steps of the repository's commands.
* `AbortGoesBack`: `AbortRestores`. Between its writes `rebase --abort` knows that the ref,
  then the files, then `index.json` are those of the original tip (`AbortHeld`).
* `PushKeepsWork`: `StashKeepsWork`. The entry has every change that push takes, from
  before the stack lists it until the tree is overwritten, in whole or in part (`PushHeld`).
* `PopGivesBack`: `PopDelivers`. What the plan of an entry gives each recorded path is
  what the tree step writes or removes (`PopHeld`).
* `ListedStay`: `ListedHaveEntries`. The stack lists no id twice, ids that are
  going to be removed are not listed (`ListHeld`), and a new id is past all that are
  (`NextFresh`).
* `QueueLosesNothing` and `NoCommitLost`: the commits replayed are a line on top of `onto`,
  those left are the newest of the original branch, together they are never fewer than the
  branch had that `onto` lacked, and a rebase that ends without `--abort` leaves its branch
  on all of them.
* `QueueStaysSound` and `RebaseReplaysAll`: `QueueSound` and `EveryCommitReplayed`, where
  the counts are equal, from a history without merge commits (`Unmerged(Lineage)`, as that of
  the run is). `SingleInv` says that no command run here adds one. With merges equality is
  false: `merge_base_checked` takes a common ancestor of least total depth, and a branch that
  was reached through a merge may then queue commits that `onto` has (see Findings). That
  only adds to the queue, which is what the two theorems before say.

The argument for the four: a history never has cycles, as an id names earlier states
(`GraphInv`, from what is assumed of `Lineage`), so the walk of
`collect_linear_commits` meets no state twice (`WalkDistinct`, `WalkCount`) and what is
recorded later does not change a walk (`WalkKept`). At the start, what the branch has and
`onto` lacks is met before the base (`LackingIsMet`), and without merges nothing else is
(`LackingIs`: the walk meets every ancestor in turn, so the base of least total depth is
the first that is common). From then on a commit moves from the queue to the line on top of
`onto` in one step, for `MovedInv` knows that the state replayed hangs off the last one, and
that the branch names it before the queue file does (`TallyKept`); a queue that goes without
`--abort` is empty, and the branch is at the end of that line (`QueueEnds`).

All nine are for any history with entries and files that commits can have made, any
processes, users and scenarios, and any stops. `Course` gives the steps a job of each kind
goes through, in common to all but the first.

### `SyncProofs` and `SyncWholeProofs`

Each for any number of clients, branches, tags and depths, any history that satisfies
`PeersAssumption`, and whatever stops where:

* `SyncTypeCorrect`: `SyncSpec => []SyncTypeOK`. `Underway` is what makes it inductive: a
  job in the walk has something to look at, one that transfers has a state to transfer, and
  one that is past picking has an item. That a walk is a sequence of states comes from
  `AncestryType` and `WithoutIs`, which say what the two recursive functions of the module
  return. Where these would take an induction, `StepsExist` and `LeastNumber` stand in for
  it: the least step that could go wrong does not exist.
* `EntriesHaveBlobsAlways`: `SyncSpec => []EntriesHaveBlobs`, the first part of
  `RefsWhole`. `BlobsFirst` adds that a transfer between the blobs of a state and its entry
  has those blobs where the entry will arrive (`Preceded`). gc is what could break it, and
  may not run there: a client's gc waits for its transfers, and the server's is kept from
  pushes by `Quiet`.
* `FetchesHeal`: `SyncSpec => FullFetchHeals`, in every history. `Healing` says that what a
  full fetch has still to fetch, with what its client has, holds the whole past of the tip,
  from the request for the ancestry on. At that request it is `AncestryWhole`: an unlimited
  walk meets every ancestor, since it grows by a state with each turn while any has a parent
  that it has not met, and no state comes twice. Then entries only move from the list to the
  repository (`EntriesStay`, `BusyStay`: nothing else that runs meanwhile removes one).
* `PushesMoveForward`: `SyncSpec => RemoteForward` where every start has a server that is
  reached over http (`OverHttp`). `HeadsChange` says that a step leaves the server's branches
  alone, is a command of the server's own, or writes the ref of a push; `BlobsFirst` has that
  over http no ref is written by a request of its own, after the check. Over ssh and paths the
  statement is false (see Findings).
* `SolePushesMoveForward`: the same for any kind of remote, where one client pushes and
  nobody commits or sets branches on the server (`SolePusher`). There the check that the
  client made at the start of its push still holds when the ref is written, however long
  after: `PushesCompared` says of a push that has a branch in hand that the server's branch
  is one of the states below its tip, and only the push itself moves it.
* `RefsStayWhole`: `SyncSpec => []RefsWhole` where the history is even (`EvenHistory`): each
  state can be given a rank that is one above that of each of its parents, so that all ways
  from a state to another are of one length. The history of the run `sync` is, with ranks 0,
  1, 2, 2, 3, 4. The assumption is needed for the statement, not for its proof: the run
  `sync_partial` has an uneven history and shows a push that is stopped, and a second that
  trusts what it left (the second finding). The invariant has three parts. `EntriesWhole`:
  the entries of a repository that never limits a fetch are closed under parents and hold its
  refs. `Carrying`: each transfer under way keeps that so. Its list ascends by rank, so a
  parent arrives before its child (`Closing`); the walk of a push goes down the ranks one at a
  time, so no state that it will still add is above one that it has listed (`Searching`, and
  `OnwardDescends` for a fetch); and a push has its tip in hand until it writes the ref
  (`Delivers`). `Healing`, for the ref that a clone or fetch writes.
* `ClientsStayWhole`: `SyncSpec => []ClientRefsWhole`, in every history: uneven ones may cost
  the server a ref, but no client that is `Steady`, one that never limits a fetch and, if it
  clones, neither merges nor sets branches. Its entries may have gaps, which a stopped fetch
  leaves, so the invariant speaks of refs: no ref is written above a gap (`Healing`), what a
  command of its own writes is above refs that had none, and gc, which is what could open
  one, keeps all that refs reach. A clone records branches that it has not fetched, hence the
  exception.

### `MergePlanProofs`

For any number of paths in any order of names, any trees of files (`FilesAssumption`: only
a symlink has the mode of one, a text is a sequence of lines and nothing else), any renames
the detection can find, and any `MergeTrees` and `SameShape`:

* `PlanTypesHold`: `PlanSpec => []MergePlanTypeOK`. `PlanTyped` has every path of the plan
  hold a file that can be held, and the renames of each side be a one-to-one map from paths
  that it removed to paths that it added, equal in content or both syntax trees
  (`RenamesFound`, by least counterexample over the recursive function).
* `PlansKeepContents`: `PlanSpec => []ContentKept`. The hash map may yield base paths in any
  order, and a later one may settle the path where an earlier one put its result. `PlanKept`
  says of every prefix of the walk what `ContentKept` says of the end, per origin of a content:
  at a base path that is settled (`BaseKept`), at a path that the other side renamed onto
  (`TargetsKept`), at a path that no base path leads to (`AddedKept`); deletions
  (`DeletedKept`); and the same for a revert (`RevertKept`). `PlanCourse` keeps the two
  stages apart: the rest of the paths are none that a base path leads to. A result is not
  overwritten because two base paths lead to one place only when each side renamed one of
  them there (`TargetsMeet`), and then the contents brought there are equal, or the plan
  conflicts, but for the exceptions that `ContentKept` makes. The proof found the second of
  these: base paths with equal contents (see Findings).
* `PlansMergeLines`: `PlanSpec => []LinesMerge`, for texts of any length and whatever longest
  common subsequence the diff settles on. A text whose equal lines are all at places that
  were kept has only one alignment, of those places (`AlignedPairs`: a longer or another
  chain would pair a touched line). So the diff deletes the touched lines and inserts what
  replaced them at the same gaps (`DiffIsScript`), and a number in the new text is one of
  the old (`SideIs`; for deletions `LinesLeft` finds the pairs). Scripts without a line in
  common make one script (`BothScripts`), which is why the overlap test by number is enough.
  Applied from the last line up, `Reached` says after each edit that the lines above are
  still those of the base and the lines below are the result; `WalkMakes` takes the least
  edit after which it fails. In the plan, `TextsPlanned` keeps such a path free of conflicts
  until its visit and as decided from then on: no other path is merged into it
  (`BaseText`), and the second stage does not come back to it.

### Model-checked, not proved

* `SearchEnds`, `JobsEnd` and `SyncEnds` are liveness, which the prover does not do.
* `EditsBothApplied`: what the merges of programs hold. It is about what recursive
  definitions over trees compute.
* `RefsWhole` of a server whose history is not even: it is then false (`sync_partial`).

## Not modelled

* The scan cache: its keys are file times and sizes, which no state of the program
  determines; a model could only restate its comparison.
* Temp files and their clean-up (`atomic.rs`), format migrations, the nesting depth of the
  lock within one thread.
* fsck's reports; of its repairs only the pruning of refs.
* Trivia and the separators that a merge adds for layout; the wording of reports; intents
  beyond what decides an overlap.
* Tokens, TLS, request parsing, framing of ssh; several remotes.
* Identity, errors, blame, git import, the command line, the drivers, the language front
  ends: configuration, printing and parsing.

## What is left

1. A refinement of `Repo`'s one-step gc and commit by `Store`.
2. fsck's findings against `Store`: what it calls whole and what is.
3. `EditsBothApplied` for every program: needs a graph whose order of nodes is not recursive.
