------------------------------- MODULE Replay -------------------------------
(***************************************************************************)
(* Rebase and Stash on one repository, between the commands of Repo that   *)
(* a user runs while a rebase waits for a conflict to be settled: those    *)
(* commands know nothing of rebase-state.json, and nothing of the stash.   *)
(***************************************************************************)
EXTENDS Rebase, Stash

CONSTANTS Lineage,     \* the history to start from: the parents of each state
          At,          \* the state each branch starts at
          Scenarios    \* what the states hold, and the commands that are run

ASSUME ReplayAssumption ==
    /\ DOMAIN Lineage \subseteq State
    /\ Root \in DOMAIN Lineage /\ Lineage[Root] = {}
    /\ Lineage \in [DOMAIN Lineage -> SUBSET DOMAIN Lineage]
    /\ \A s \in DOMAIN Lineage : \A t \in Lineage[s] : ~IsAncestorOf(Lineage, s, t)
    /\ At \in [Ref -> DOMAIN Lineage \cup {NoState}]
    /\ \A c \in Scenarios : c.files \in [DOMAIN Lineage -> Files]

VARIABLE uses   \* the kinds of command that this behaviour runs

replayVars == <<rebaseVars, stashVars, uses>>

\* A history that commits and branches have made, files of any content; HEAD's
\* branch is checked out and clean.
ReplayInit ==
    /\ \E c \in Scenarios :
          /\ commit = [s \in DOMAIN Lineage |-> [parents |-> Lineage[s], files |-> c.files[s]]]
          /\ uses = c.uses
    /\ timeline = DOMAIN Lineage
    /\ blobs = UNION {Contents(FilesOf(s)) : s \in timeline}
    /\ refs = [r \in Ref |-> At[r]]
    /\ head \in Branch /\ refs[head] # NoState
    /\ index = [q \in Path |-> IF HeadFiles[q] = Absent THEN NoState ELSE HeadState]
    /\ staging = [active |-> FALSE, entries |-> Unstaged]
    /\ work = HeadFiles
    /\ holder = NoProc
    /\ pc = [p \in Proc |-> "idle"]
    /\ cmd = [p \in Proc |-> NoCmd]
    /\ job = NoJob /\ queue = NoQueue /\ stack = <<>> /\ entry = <<>>

WriteStep == TreeStep \/ IndexStep \/ StagingStep \/ DoneStep

JobStep ==
    \/ RebaseStep /\ UNCHANGED stashVars
    \/ StashStep /\ UNCHANGED queue
    \/ WriteStep /\ UNCHANGED <<queue, stashVars>>

\* What else a user does: the refs change only through these commands.
UserNext ==
    \/ \E p \in Proc : Run(p) \/ Stop(p)
    \/ \E p \in Proc :
          Free(p) /\ \/ "commit" \in uses /\ Commit(p)
                     \/ "checkout" \in uses /\ \E b \in Branch : Checkout(p, b, FALSE)
    \/ "edit" \in uses /\ \E q \in Path, content \in Content \cup {Absent} : UserEdit(q, content)
    \/ "add" \in uses /\ \E q \in Path : Add({q})

ReplayNext ==
    /\ \/ "rebase" \in uses /\ RebaseCommand /\ UNCHANGED stashVars
       \/ StashCommand(uses) /\ UNCHANGED queue
       \/ JobStep
       \/ StopJob /\ UNCHANGED <<queue, stashVars>>
       \/ job = NoJob /\ UserNext /\ UNCHANGED <<job, queue, stashVars>>
    /\ UNCHANGED uses

\* A job that is not killed goes on to its end.
ReplaySpec == ReplayInit /\ [][ReplayNext]_replayVars /\ WF_replayVars(JobStep /\ UNCHANGED uses)

-----------------------------------------------------------------------------
ReplayTypeOK ==
    /\ TypeOK
    /\ job = NoJob \/ job \in Job
    /\ queue = NoQueue \/ queue \in Queue
    /\ stack \in Seq(StashId)
    /\ DOMAIN entry \subseteq StashId /\ entry \in [DOMAIN entry -> Stashed]
    /\ job # NoJob => holder = job.proc

\* The states of one history that the other lacks.
Lacking(par, tip, other) == Reachable(par, {tip}) \ Reachable(par, {other})

\* The commits not yet replayed are the newest ones of the original branch, and current
\* is a line of commits on top of onto.
QueueFollows ==
    queue # NoQueue =>
        LET left == Len(queue.remaining)
        IN  /\ \A i \in 1 .. left : queue.remaining[i] = Walk(Parents, queue.original)[left - i]
            /\ LinearTo(Parents, queue.current, queue.onto)

\* As many are replayed and left to replay as the branch had that onto lacked.
QueueCounts ==
    queue # NoQueue =>
        Len(queue.remaining) + Distance(Parents, queue.current, queue.onto)
            = Cardinality(Lacking(Parents, queue.original, queue.onto))

\* What a queue stands for stays true through conflicts, stops and whatever is
\* run between (rebase_advance_unlocked, rebase_continue_unlocked).
QueueSound == QueueFollows /\ QueueCounts

\* A rebase that ends without --abort leaves its branch on exactly as many commits
\* over onto as the branch had that onto lacked (MoveBranch before SaveQueue).
EveryCommitReplayed ==
    [][queue # NoQueue /\ queue' = NoQueue /\ job.kind # "abort" =>
          LET tip == refs[queue.branch]
          IN  /\ LinearTo(Parents, tip, queue.onto)
              /\ Distance(Parents, tip, queue.onto)
                    = Cardinality(Lacking(Parents, queue.original, queue.onto))]_replayVars

\* Once --abort forgets the queue, the branch, index.json and the tracked files are
\* those from before the rebase (docs/commands.md:55), wherever it was stopped before.
AbortRestores ==
    [][queue # NoQueue /\ queue' = NoQueue /\ job.kind = "abort" =>
          /\ refs[queue.branch] = queue.original
          /\ IndexAt(queue.original)
          /\ \A q \in Kept(FilesOf(queue.original)) :
                work[q] = FilesOf(queue.original)[q]]_replayVars

\* What push takes off the disk is in the stash by then: an edit it reverts, or an
\* untracked file it removes, is in the newest entry.  A file that index.json
\* lists and HEAD lacks is the exception (see the README).
StashKeepsWork ==
    [][\A q \in Path :
          /\ job # NoJob /\ job.kind = "push" /\ job.step = "tree"
          /\ work[q] \notin {HeadFiles[q], Absent} /\ work'[q] # work[q]
          => \/ entry[Head(stack)].files[q] = work[q]
             \/ HeadFiles[q] = Absent /\ index[q] # NoState]_replayVars

\* pop forgets a stash only when every path it recorded is on disk as merged onto
\* HEAD, so that being killed loses nothing (stash_apply_unlocked).
PopDelivers ==
    [][job # NoJob /\ job.kind = "pop" /\ job.step = "unstack" /\ stack' # stack =>
          LET i == stack[job.pos]
          IN  \A q \in Recorded(i) : work[q] = StashPlan(i)[q]]_replayVars

\* The entry file of a listed stash goes only with clear; ids are never reused
\* while they are listed (remove_stash_at, next_stash_id).
ListedHaveEntries ==
    [][\A i \in Listed' :
          i \in DOMAIN entry => i \in DOMAIN entry' \/ job.kind = "clear"]_replayVars

\* Every rebase and stash command ends and gives the lock back (rebase_advance's loop).
JobsEnd == job # NoJob ~> job = NoJob
=============================================================================
