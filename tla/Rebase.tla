------------------------------- MODULE Rebase -------------------------------
(***************************************************************************)
(* rebase, --continue and --abort (store/rebase.rs).  rebase-state.json    *)
(* holds the queue of commits still to replay; each write of it, of the    *)
(* branch ref and of the working tree is a step of its own.                *)
(*                                                                         *)
(* Plans are made path by path: instances have one path, so that no rename *)
(* can be detected.                                                        *)
(***************************************************************************)
EXTENDS Jobs

CONSTANTS NoQueue,
          Upstream   \* bound on the states that are named as upstream

VARIABLE queue   \* rebase-state.json

rebaseVars == <<stores, holder, pc, cmd, job, queue>>

Queue == [branch : Branch, onto : State, original : State, current : State,
          remaining : Seq(State), conflicted : State \cup {NoState}]

\* The states are files of one directory: finitely many.
ASSUME RebaseAssumption == IsFiniteSet(State) /\ NoQueue \notin Queue

\* The walk of collect_linear_commits: the first n ancestors of tip, or NoState
\* past a merge commit or the root state.
Walk(par, tip) ==
    LET at[n \in 0 .. Cardinality(DOMAIN par)] ==
            IF n = 0 THEN tip
            ELSE IF at[n - 1] = NoState \/ ~IsLinear(par, at[n - 1]) THEN NoState
            ELSE LinearParent(par, at[n - 1])
    IN  at

\* collect_linear_commits succeeds: the walk meets base.
LinearTo(par, tip, base) == \E n \in DOMAIN Walk(par, tip) : Walk(par, tip)[n] = base

\* How many commits lie between a state and an ancestor on its linear history.
Distance(par, tip, base) == CHOOSE n \in DOMAIN Walk(par, tip) : Walk(par, tip)[n] = base

\* The commits after base up to tip, oldest first.
Commits(par, tip, base) ==
    [i \in 1 .. Distance(par, tip, base) |-> Walk(par, tip)[Distance(par, tip, base) - i]]

ParentFiles(c) == FilesOf(LinearParent(Parents, c))

\* The three states a replay of c merges can be loaded.
CanReplay(c) ==
    /\ c \in timeline /\ IsLinear(Parents, c)
    /\ \A s \in {c, LinearParent(Parents, c), queue.current} : Loadable(s)

Plan(c) == Outcome(ParentFiles(c), FilesOf(queue.current), FilesOf(c))

\* all_replay_paths: what any of the three states merged holds.
ReplayPaths(c) ==
    {q \in Path : \E f \in {ParentFiles(c), FilesOf(queue.current), FilesOf(c)} : f[q] # Absent}

Clean(plan) == \A q \in Path : plan[q] # Conflict

-----------------------------------------------------------------------------
RebaseStart(p, upstream, force) ==
    LET tip == HeadState
    IN  /\ CanTake(p)
        /\ head \in Branch /\ queue = NoQueue
        /\ ~StagingInUse /\ StatusOK
        /\ TreeClean \/ force
        /\ upstream # tip
        /\ \E base \in MergeBases(Parents, tip, upstream) :
              /\ LinearTo(Parents, tip, base) /\ base # tip
              /\ queue' = [branch |-> head, onto |-> upstream, original |-> tip,
                           current |-> upstream, remaining |-> Commits(Parents, tip, base),
                           conflicted |-> NoState]
        /\ job' = NewJob(p, "rebase", "replay", force)
        /\ holder' = p
        /\ Quiet

\* rebase_advance: one turn of its loop, up to the first write.
ReplayClean ==
    /\ job # NoJob /\ job.step = "replay" /\ queue.remaining # <<>>
    /\ LET c == Head(queue.remaining)
       IN  /\ CanReplay(c) /\ Clean(Plan(c))
           /\ job' = [job EXCEPT !.step = "persist", !.files = Plan(c)]
    /\ UNCHANGED <<holder, queue>> /\ Quiet

\* The queue says where it stopped before the tree shows the conflict; staged
\* entries that --force let through are cleared with it.
ReplayConflict ==
    /\ job # NoJob /\ job.step = "replay" /\ queue.remaining # <<>>
    /\ LET c     == Head(queue.remaining)
           plan  == Plan(c)
           shown == Working(plan, FilesOf(queue.current))
       IN  /\ CanReplay(c) /\ ~Clean(plan)
           /\ queue' = [queue EXCEPT !.conflicted = c]
           /\ IF StagingInUse /\ ~job.force
              THEN End
              ELSE /\ job' = [job EXCEPT !.step = "tree", !.files = shown,
                                         !.target = queue.current, !.unstage = TRUE,
                                         !.put = Kept(shown), !.gone = ReplayPaths(c) \ Kept(shown),
                                         !.last = "done"]
                   /\ UNCHANGED holder
    /\ Quiet

\* Mutant of Replayed: the commit stays in the queue.
ReplayedStays(q, s) == [q EXCEPT !.current = s, !.conflicted = NoState]

\* What rebase-state.json becomes once its first commit is replayed as s.
Replayed(q, s) == [q EXCEPT !.current = s, !.conflicted = NoState,
                            !.remaining = Tail(q.remaining)]

\* The ids that an entry may get: a hash, so an equal entry may get its id again.
IdsFor(e) == {s \in State : s \in DOMAIN commit => commit[s] = e}

\* persist_replay_commit: blobs, then the timeline entry.
Persist ==
    LET e == [parents |-> {queue.current}, files |-> job.files]
    IN  /\ job # NoJob /\ job.step = "persist"
        /\ blobs' = blobs \cup Contents(job.files)
        /\ \E s \in IdsFor(e) :
              /\ commit' = [t \in DOMAIN commit \cup {s} |->
                               IF t = s THEN e ELSE commit[t]]
              /\ timeline' = timeline \cup {s}
              /\ job' = [job EXCEPT !.step = "ref", !.target = s]
        /\ UNCHANGED <<refs, head, index, staging, work, holder, pc, cmd, queue>>

\* A replay ends with an error when a state it needs cannot be loaded, and, as State
\* is finite here, when there is no id left for the new commit.
ReplayFails ==
    /\ job # NoJob
    /\ \/ job.step = "replay" /\ queue.remaining # <<>> /\ ~CanReplay(Head(queue.remaining))
       \/ job.step = "persist" /\ IdsFor([parents |-> {queue.current}, files |-> job.files]) = {}
    /\ End
    /\ UNCHANGED queue /\ Quiet

\* write_branch_ref: of the branch the queue names, wherever HEAD is by now.
\* --abort has moved it when it finds that the original tip cannot be loaded.
MoveBranch ==
    /\ job # NoJob /\ job.step = "ref"
    /\ refs' = [refs EXCEPT ![queue.branch] = job.target]
    /\ IF job.kind # "abort" THEN Goto("queue")
       ELSE IF ~Loadable(job.target) THEN End
       ELSE job' = Materializing(job, job.target, "unqueue") /\ UNCHANGED holder
    /\ UNCHANGED <<commit, timeline, blobs, head, index, staging, work, pc, cmd, queue>>

\* Mutants of SaveQueue: the queue is saved as it was loaded; --continue takes the
\* last commit but one for the last.
SaveQueueStale ==
    /\ job # NoJob /\ job.step = "queue"
    /\ job' = [job EXCEPT !.step = "replay"]
    /\ UNCHANGED <<holder, queue>> /\ Quiet
SaveQueueShort ==
    /\ job # NoJob /\ job.step = "queue"
    /\ IF job.kind = "continue" /\ Len(queue.remaining) <= 2
       THEN queue' = NoQueue /\ job' = Materializing(job, job.target, "done")
       ELSE /\ queue' = Replayed(queue, job.target)
            /\ job' = [job EXCEPT !.step = "replay", !.kind = "rebase"]
    /\ UNCHANGED holder /\ Quiet

\* --continue deletes a queue that it emptied without saving it first.
SaveQueue ==
    /\ job # NoJob /\ job.step = "queue"
    /\ LET next == Replayed(queue, job.target)
       IN  IF job.kind = "continue" /\ next.remaining = <<>>
           THEN queue' = NoQueue /\ job' = Materializing(job, job.target, "done")
           ELSE queue' = next /\ job' = [job EXCEPT !.step = "replay", !.kind = "rebase"]
    /\ UNCHANGED holder /\ Quiet

\* An empty queue is deleted before the tree is brought to the new tip.
FinishRebase ==
    /\ job # NoJob /\ job.step = "replay" /\ queue.remaining = <<>>
    /\ queue' = NoQueue
    /\ job' = Materializing(job, queue.current, "done")
    /\ UNCHANGED holder /\ Quiet

(***************************************************************************)
(* --continue plans again.  A path in conflict is settled by a --resolve   *)
(* flag, or by a file that is neither side's; a path left over fails.      *)
(***************************************************************************)
Resolutions(c) ==
    LET plan == Plan(c)
    IN  {f \in Files : \A q \in Path :
            IF plan[q] # Conflict THEN f[q] = plan[q]
            ELSE \/ f[q] \in {FilesOf(queue.current)[q], FilesOf(c)[q]}
                 \/ f[q] = work[q] /\ work[q] # Absent}

Continue(p, force) ==
    /\ CanTake(p)
    /\ queue # NoQueue /\ queue.conflicted # NoState
    /\ CanReplay(queue.conflicted)
    /\ \E f \in Resolutions(queue.conflicted) :
          job' = [NewJob(p, "continue", "persist", force) EXCEPT !.files = f]
    /\ holder' = p /\ UNCHANGED queue /\ Quiet

\* Mutant of Abort: it goes back to the state rebased onto.
AbortToOnto(p) ==
    /\ CanTake(p)
    /\ queue # NoQueue
    /\ job' = [NewJob(p, "abort", "ref", TRUE) EXCEPT !.target = queue.onto]
    /\ holder' = p /\ UNCHANGED queue /\ Quiet

Abort(p) ==
    /\ CanTake(p)
    /\ queue # NoQueue
    /\ job' = [NewJob(p, "abort", "ref", TRUE) EXCEPT !.target = queue.original]
    /\ holder' = p /\ UNCHANGED queue /\ Quiet

\* The last write of --abort.
Unqueue ==
    /\ job # NoJob /\ job.step = "unqueue"
    /\ queue' = NoQueue
    /\ End /\ Quiet

RebaseCommand ==
    \E p \in Proc, force \in BOOLEAN :
        \/ \E s \in Upstream \cap Resolvable : RebaseStart(p, s, force)
        \/ Continue(p, force)
        \/ Abort(p)

RebaseStep ==
    \/ ReplayClean \/ ReplayConflict \/ ReplayFails \/ Persist \/ MoveBranch
    \/ SaveQueue \/ FinishRebase \/ Unqueue
=============================================================================
