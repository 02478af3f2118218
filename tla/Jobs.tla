-------------------------------- MODULE Jobs --------------------------------
(***************************************************************************)
(* The part rebase (store/rebase.rs) and stash (store/stash.rs) share: a   *)
(* command that keeps a file of its own beside the stores of Repo and      *)
(* writes the working tree, index.json and staging.json itself.  It holds  *)
(* the lock from its first step to its last and runs no hook, so there is  *)
(* at most one, and no command of Repo runs beside it.                     *)
(***************************************************************************)
EXTENDS Repo, Sequences

CONSTANTS Conflict, NoJob

ASSUME JobsAssumption == Conflict \notin Content \cup {Absent}

VARIABLE job   \* the rebase or stash command in flight

(***************************************************************************)
(* files is what the job puts into the tree: the paths in gone are removed *)
(* first, then those in put are written.  index.json then says that target *)
(* holds files, and last is the step that follows staging.json.  pos is    *)
(* the place in the stash stack, doomed the entry files still to remove.   *)
(***************************************************************************)
Job == [proc : Proc, kind : {"rebase", "continue", "abort", "push", "apply", "pop",
                             "drop", "clear"},
        step : {"replay", "persist", "ref", "queue", "tree", "index", "staging",
                "unqueue", "stack", "unstack", "remove", "done"},
        files : Files, target : State, gone : SUBSET Path, put : SUBSET Path,
        unstage : BOOLEAN, last : {"done", "unqueue", "unstack"}, force : BOOLEAN,
        pos : Nat, doomed : Seq(Nat)]

NewJob(p, kind, step, force) ==
    [proc |-> p, kind |-> kind, step |-> step, files |-> NoFiles, target |-> Root,
     gone |-> {}, put |-> {}, unstage |-> FALSE, last |-> "done", force |-> force,
     pos |-> 0, doomed |-> <<>>]

\* materialize_state_inner onto state s: what the index knows and s lacks goes.
Materializing(j, s, last) ==
    [j EXCEPT !.step = "tree", !.files = FilesOf(s), !.target = s, !.put = Kept(FilesOf(s)),
              !.gone = Stale(FilesOf(s)), !.unstage = FALSE, !.last = last]

CanTake(p) == Free(p) /\ job = NoJob

\* The command ends, with or without success, and its lock guard is dropped.
End == job' = NoJob /\ holder' = NoProc

Goto(step) == job' = [job EXCEPT !.step = step] /\ UNCHANGED holder

\* merge_path on contents that are opaque, as binary files are (merge_binary): two
\* sides that both changed a file, and both kept it, conflict.
Merged(b, l, r) ==
    IF l = r \/ r = b THEN l
    ELSE IF l = b \/ l = Absent THEN r
    ELSE IF r = Absent THEN l
    ELSE Conflict

Outcome(b, l, r) == [q \in Path |-> Merged(b[q], l[q], r[q])]

\* Mutant of Working: what the tree shows is the plan, its conflicts included.
WorkingAsPlanned(plan, left) == plan

\* build_replay_working_files: a path in conflict shows our side.
Working(plan, left) == [q \in Path |-> IF plan[q] = Conflict THEN left[q] ELSE plan[q]]

-----------------------------------------------------------------------------
TreeStep ==
    /\ job # NoJob /\ job.step = "tree"
    /\ work' = Materialized(job.files, job.gone, job.put)
    /\ IF job.kind \in {"apply", "pop"} THEN Goto(job.last) ELSE Goto("index")
    /\ UNCHANGED <<commit, timeline, blobs, refs, head, index, staging, pc, cmd>>

IndexStep ==
    /\ job # NoJob /\ job.step = "index"
    /\ index' = [q \in Path |-> IF job.files[q] = Absent THEN NoState ELSE job.target]
    /\ Goto("staging")
    /\ UNCHANGED <<commit, timeline, blobs, refs, head, staging, work, pc, cmd>>

\* A conflict saves a new, inactive staging index; materialize clears entries.
StagingStep ==
    /\ job # NoJob /\ job.step = "staging"
    /\ staging' = [active |-> staging.active /\ ~job.unstage, entries |-> Unstaged]
    /\ Goto(job.last)
    /\ UNCHANGED <<commit, timeline, blobs, refs, head, index, work, pc, cmd>>

DoneStep ==
    /\ job # NoJob /\ job.step = "done"
    /\ End
    /\ UNCHANGED <<stores, pc, cmd>>

\* The tree of a job stopped while it writes: see Interrupted in Repo.
HalfWritten ==
    {Materialized(job.files, removed, {}) : removed \in SUBSET job.gone}
    \cup UNION {{Materialized(job.files, job.gone \cup between, written) :
                    between \in {{}} \cup {{q} : q \in job.put}} :
                written \in SUBSET job.put}

\* The process is killed, or an operation on the disk fails.
StopJob ==
    /\ job # NoJob
    /\ IF job.step = "tree" THEN work' \in HalfWritten ELSE work' = work
    /\ End
    /\ UNCHANGED <<commit, timeline, blobs, refs, head, index, staging, pc, cmd>>

Quiet == UNCHANGED <<stores, pc, cmd>>
=============================================================================
