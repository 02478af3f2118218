------------------------------- MODULE Stash --------------------------------
(***************************************************************************)
(* stash push, apply, pop, drop and clear (store/stash.rs).  stack.json    *)
(* lists stash ids, newest first; each id has an entry file of its own.    *)
(* An entry records the changed paths only, and never a deletion.          *)
(***************************************************************************)
EXTENDS Jobs, SequencesExt

CONSTANT MaxStash   \* bound on stash ids

ASSUME StashAssumption == MaxStash \in Nat

VARIABLES stack,   \* stack.json
          entry    \* the entry files: what each id holds

stashVars == <<stack, entry>>

StashId == 0 .. MaxStash
Stashed == [base : State, files : Files]

Listed == {stack[i] : i \in DOMAIN stack}

\* next_stash_id
NextId == IF stack = <<>> THEN 0
          ELSE 1 + CHOOSE i \in Listed : \A k \in Listed : k <= i

\* Mutant of Changed: the entry is built from the other side of the comparison.
ChangedFromHead(untracked) ==
    [q \in Path |-> IF work[q] # HeadFiles[q] /\ HeadFiles[q] # Absent THEN HeadFiles[q]
                    ELSE Absent]

\* collect_stash_manifest: what is on disk and differs from HEAD; untracked paths
\* only with -u.  A tracked file that is gone is a change that records nothing.
Changed(untracked) ==
    [q \in Path |-> IF work[q] # HeadFiles[q] /\ (HeadFiles[q] # Absent \/ untracked)
                    THEN work[q] ELSE Absent]

HasChanges(untracked) ==
    \E q \in Path : work[q] # HeadFiles[q] /\ (HeadFiles[q] # Absent \/ untracked)

(***************************************************************************)
(* push writes the blobs and the entry file, then the stack, then brings   *)
(* the tree back to HEAD.  What is staged is cleared with it.              *)
(***************************************************************************)
Push(p, untracked) ==
    /\ CanTake(p)
    /\ Loadable(HeadState) /\ HasChanges(untracked)
    /\ NextId \in StashId
    /\ LET saved == Changed(untracked)
       IN  /\ blobs' = blobs \cup Contents(saved)
           /\ entry' = [i \in DOMAIN entry \cup {NextId} |->
                           IF i = NextId THEN [base |-> HeadState, files |-> saved]
                           ELSE entry[i]]
    /\ job' = NewJob(p, "push", "stack", FALSE)
    /\ holder' = p
    /\ UNCHANGED <<commit, timeline, refs, head, index, staging, work, pc, cmd, stack>>

PushStack ==
    /\ job # NoJob /\ job.step = "stack"
    /\ stack' = <<NextId>> \o stack
    /\ job' = Materializing(job, HeadState, "done")
    /\ UNCHANGED <<holder, entry>> /\ Quiet

Recorded(i) == Kept(entry[i].files)

StashLoadable(i) ==
    /\ i \in DOMAIN entry
    /\ Loadable(entry[i].base) /\ Contents(entry[i].files) \subseteq blobs

StashPlan(i) == Outcome(FilesOf(entry[i].base), HeadFiles, entry[i].files)

\* Mutant of Apply: the entry goes, and then the tree is written.
ApplyPopFirst(p, kind, pos) ==
    /\ CanTake(p)
    /\ ~StagingInUse /\ StatusOK /\ TreeClean
    /\ StashLoadable(stack[pos])
    /\ job' = [NewJob(p, kind, "unstack", FALSE) EXCEPT !.pos = pos]
    /\ holder' = p
    /\ UNCHANGED stashVars /\ Quiet

(***************************************************************************)
(* apply and pop ask for a clean tree, merge the recorded paths onto HEAD  *)
(* and write the tree alone.                                               *)
(***************************************************************************)
Apply(p, kind, pos) ==
    LET i    == stack[pos]
        plan == StashPlan(i)
    IN  /\ CanTake(p)
        /\ ~StagingInUse /\ StatusOK /\ TreeClean
        /\ StashLoadable(i)
        /\ \A q \in Recorded(i) : plan[q] # Conflict
        /\ job' = [NewJob(p, kind, "tree", FALSE) EXCEPT
                      !.files = [q \in Path |-> IF q \in Recorded(i) THEN plan[q] ELSE Absent],
                      !.gone = {q \in Recorded(i) : plan[q] = Absent},
                      !.put = {q \in Recorded(i) : plan[q] # Absent},
                      !.last = IF kind = "pop" THEN "unstack" ELSE "done",
                      !.pos = pos]
        /\ holder' = p
        /\ UNCHANGED stashVars /\ Quiet

Drop(p, pos) ==
    /\ CanTake(p)
    /\ job' = [NewJob(p, "drop", "unstack", FALSE) EXCEPT !.pos = pos]
    /\ holder' = p
    /\ UNCHANGED stashVars /\ Quiet

Clear(p) ==
    /\ CanTake(p)
    /\ job' = [NewJob(p, "clear", "remove", FALSE) EXCEPT !.doomed = stack]
    /\ holder' = p
    /\ UNCHANGED stashVars /\ Quiet

\* Mutant of Unstack: the entry file is removed before the stack is saved.
UnstackLast ==
    /\ job # NoJob /\ job.step = "unstack"
    /\ entry' = [i \in DOMAIN entry \ {stack[job.pos]} |-> entry[i]]
    /\ job' = [job EXCEPT !.step = "remove", !.doomed = <<>>]
    /\ UNCHANGED <<holder, stack>> /\ Quiet

\* remove_stash_at: the stack is saved, then the entry file goes.
Unstack ==
    /\ job # NoJob /\ job.step = "unstack"
    /\ stack' = RemoveAt(stack, job.pos)
    /\ job' = [job EXCEPT !.step = "remove", !.doomed = <<stack[job.pos]>>]
    /\ UNCHANGED <<holder, entry>> /\ Quiet

RemoveEntry ==
    /\ job # NoJob /\ job.step = "remove" /\ job.doomed # <<>>
    /\ entry' = [i \in DOMAIN entry \ {Head(job.doomed)} |-> entry[i]]
    /\ job' = [job EXCEPT !.doomed = Tail(job.doomed)]
    /\ UNCHANGED <<holder, stack>> /\ Quiet

\* clear saves the empty stack when every entry file is gone.
Removed ==
    /\ job # NoJob /\ job.step = "remove" /\ job.doomed = <<>>
    /\ stack' = IF job.kind = "clear" THEN <<>> ELSE stack
    /\ End
    /\ UNCHANGED entry /\ Quiet

StashCommand(kinds) ==
    \E p \in Proc :
        \/ "push" \in kinds /\ \E untracked \in BOOLEAN : Push(p, untracked)
        \/ \E pos \in DOMAIN stack, kind \in {"apply", "pop"} \cap kinds : Apply(p, kind, pos)
        \/ "drop" \in kinds /\ \E pos \in DOMAIN stack : Drop(p, pos)
        \/ "clear" \in kinds /\ Clear(p)

StashStep == PushStack \/ Unstack \/ RemoveEntry \/ Removed
=============================================================================
