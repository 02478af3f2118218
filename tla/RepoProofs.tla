----------------------------- MODULE RepoProofs -----------------------------
(***************************************************************************)
(* Proofs about Repo.  For commands that may lose the lock: type           *)
(* correctness, that everything a ref needs stays loadable, and that no    *)
(* merge overwrites what is stored nowhere.  For commands that all keep    *)
(* it, which takes --no-verify: HEAD moves last, branches go forward,      *)
(* neither an edit nor a staged path is lost, and Repo implements          *)
(* BranchLog.                                                              *)
(***************************************************************************)
EXTENDS Repo, HistoryProofs, TLAPS

\* Every commit and merge is given --no-verify.  That no hook is installed is not enough:
\* the lock is given up all the same (run_commit_hooks, run_pre_merge_hook).
AlwaysNoVerify == NoVerify \subseteq {TRUE}

\* gc never deletes blobs alone, and where it is used every command keeps the lock.
GcKeepsHistory == /\ "blobs" \notin GcModes
                  /\ GcModes = {} \/ AlwaysNoVerify

\* The parent function of a well-typed repository.
LEMMA ParentsType ==
    ASSUME TypeOK
    PROVE  Parents \in [State -> SUBSET State]
BY DEF TypeOK, Parents, Entry

-----------------------------------------------------------------------------
(* Planning. *)

\* What every command knows when it takes the lock.
Planned(c, first) ==
    /\ c \in Command
    /\ first \in {"hook", "guard", "blobs", "tree", "index", "ref"}
    /\ first = "hook" => c.kind \in {"commit", "merge"} /\ ~AlwaysNoVerify
    /\ c.parents \subseteq timeline
    /\ ~Creates(c) \/ first \in Finishing => c.target \in timeline
    /\ c.kind = "checkout" =>
          \/ c.dest \in Branch /\ refs[c.dest] # NoState
          \/ c.dest = c.target /\ first \in Finishing

LEMMA NoCmdType == NoCmd \in Command
BY DEF NoCmd, Command, NoFiles, Files

\* A command that ends on a state of the timeline is well planned.
LEMMA OntoPlanned ==
    ASSUME TypeOK, NEW kind \in Kinds \ {"checkout"}, NEW s \in timeline,
           NEW force \in BOOLEAN,
           NEW first \in {"hook", "guard", "tree", "index", "ref"},
           first = "hook" => kind \in {"commit", "merge"} /\ ~AlwaysNoVerify
    PROVE  Planned(Onto(kind, s, force), first)
<1>1. s \in State
      BY DEF TypeOK
<1>2. Onto(kind, s, force) \in Command
      BY <1>1, NoCmdType DEF Onto, Command, NoCmd
<1>3. Onto(kind, s, force).kind = kind /\ Onto(kind, s, force).parents = {}
      /\ Onto(kind, s, force).target = s
      BY DEF Onto, NoCmd
<1>4. QED
      BY <1>2, <1>3 DEF Planned

\* A command that records a new state over states of the timeline is well planned.
LEMMA RecordingPlanned ==
    ASSUME TypeOK, NEW kind \in {"commit", "merge", "revert", "pick"},
           NEW P \in SUBSET timeline, P # {}, NEW f \in Files,
           NEW force \in BOOLEAN, NEW active \in BOOLEAN,
           NEW first \in {"hook", "guard", "blobs"},
           first = "hook" => kind \in {"commit", "merge"} /\ ~AlwaysNoVerify
    PROVE  /\ Planned(Recording(kind, P, f, force), first)
           /\ Planned([Recording(kind, P, f, force) EXCEPT !.active = active], first)
<1>1. P \in SUBSET State
      BY DEF TypeOK
<1>. DEFINE c == Recording(kind, P, f, force)
            d == [c EXCEPT !.active = active]
<1>2. c \in Command /\ d \in Command
      BY <1>1, NoCmdType DEF Recording, Command, NoCmd, Kinds
<1>3. /\ c.kind = kind /\ c.parents = P
      /\ d.kind = kind /\ d.parents = P
      BY DEF Recording, NoCmd
<1>4. QED
      BY <1>2, <1>3 DEF Planned, Finishing, Creates

\* The lock is given up only where --no-verify may be absent.
LEMMA HookWithoutNoVerify ==
    ASSUME NEW noVerify \in NoVerify, ~noVerify
    PROVE  ~AlwaysNoVerify
BY RepoAssumption DEF AlwaysNoVerify

LEMMA ResolvableKnown ==
    ASSUME TypeOK, TipsInv
    PROVE  Resolvable \subseteq timeline
BY RepoAssumption DEF Resolvable, Tips, TipsInv, HeadState, TypeOK

LEMMA FilesType ==
    ASSUME TypeOK, NEW s \in timeline
    PROVE  FilesOf(s) \in Files
BY DEF TypeOK, FilesOf, Entry

\* A command that starts begins a well-planned command.
LEMMA StartPlanned ==
    ASSUME TypeOK, TipsInv, NEW p \in Proc, Start(p)
    PROVE  \E c, first : Planned(c, first) /\ Begin(p, c, first)
<1>. USE ResolvableKnown
<1>1. HeadState \in timeline
      BY DEF TipsInv
<1>2. HeadFiles \in Files
      BY <1>1, FilesType DEF HeadFiles
<1>3. ASSUME Commit(p)
      PROVE  \E c, first : Planned(c, first) /\ Begin(p, c, first)
      <2>1. CommitFiles \in Files
            BY <1>2 DEF CommitFiles, Staged, TypeOK, Files
      <2>2. PICK noVerify \in NoVerify :
               Begin(p, [Recording("commit", {HeadState}, CommitFiles, FALSE)
                            EXCEPT !.active = staging.active],
                     IF noVerify THEN "blobs" ELSE "hook")
            BY <1>3 DEF Commit
      <2>. DEFINE first == IF noVerify THEN "blobs" ELSE "hook"
      <2>3. first = "hook" => ~AlwaysNoVerify
            BY HookWithoutNoVerify
      <2>4. staging.active \in BOOLEAN
            BY DEF TypeOK
      <2>5. Planned([Recording("commit", {HeadState}, CommitFiles, FALSE)
                        EXCEPT !.active = staging.active], first)
            <3>1. first \in {"hook", "guard", "blobs"}
                  OBVIOUS
            <3>2. {HeadState} \in SUBSET timeline /\ {HeadState} # {}
                  BY <1>1
            <3>. HIDE DEF first
            <3>3. QED
                  BY <2>1, <2>3, <2>4, <3>1, <3>2, RecordingPlanned
      <2>6. QED
            BY <2>2, <2>5
<1>4. ASSUME NEW s \in Resolvable, NEW force \in BOOLEAN, Merge(p, s, force)
      PROVE  \E c, first : Planned(c, first) /\ Begin(p, c, first)
      <2>0. PICK base : \E noVerify \in NoVerify,
                 merged \in ThreeWayMerges(FilesOf(base), HeadFiles, FilesOf(s)) :
               Begin(p, IF base = HeadState
                        THEN Onto("merge", s, force)
                        ELSE Recording("merge", {HeadState, s}, merged, force),
                     IF noVerify THEN "guard" ELSE "hook")
            BY <1>4 DEF Merge
      <2>1. PICK noVerify \in NoVerify,
                 merged \in ThreeWayMerges(FilesOf(base), HeadFiles, FilesOf(s)) :
               Begin(p, IF base = HeadState
                        THEN Onto("merge", s, force)
                        ELSE Recording("merge", {HeadState, s}, merged, force),
                     IF noVerify THEN "guard" ELSE "hook")
            BY <2>0
      <2>. DEFINE first == IF noVerify THEN "guard" ELSE "hook"
      <2>2. first = "hook" => ~AlwaysNoVerify
            BY HookWithoutNoVerify
      <2>3. merged \in Files
            BY DEF ThreeWayMerges, PathwiseMerges
      <2>4. first \in {"hook", "guard"}
            OBVIOUS
      <2>5. s \in timeline /\ {HeadState, s} \in SUBSET timeline /\ {HeadState, s} # {}
            BY <1>1
      <2>. HIDE DEF first
      <2>6. Planned(Onto("merge", s, force), first)
            BY <2>2, <2>4, <2>5, OntoPlanned DEF Kinds
      <2>7. Planned(Recording("merge", {HeadState, s}, merged, force), first)
            BY <2>2, <2>3, <2>4, <2>5, RecordingPlanned
      <2>8. QED
            BY <2>1, <2>6, <2>7 DEF first
<1>5. ASSUME NEW dest \in {b \in Branch : refs[b] # NoState} \cup timeline,
             NEW force \in BOOLEAN, Checkout(p, dest, force)
      PROVE  \E c, first : Planned(c, first) /\ Begin(p, c, first)
      <2>. DEFINE s == IF dest \in Branch THEN refs[dest] ELSE dest
                  c == [Onto("checkout", s, force) EXCEPT !.dest = dest]
      <2>1. Begin(p, c, "tree")
            BY <1>5 DEF Checkout
      <2>a. dest \in Branch => refs[dest] # NoState
            BY RepoAssumption DEF TypeOK
      <2>2. s \in timeline
            BY <2>a DEF TipsInv, Ref
      <2>3. s \in State /\ dest \in Branch \cup State
            BY <2>2 DEF TypeOK
      <2>4. c \in Command
            BY <2>3, NoCmdType DEF Onto, Command, NoCmd, Kinds
      <2>5. c.parents = {} /\ c.target = s /\ c.dest = dest /\ c.kind = "checkout"
            BY DEF Onto, NoCmd
      <2>6. Planned(c, "tree")
            <3>1. (dest \in Branch /\ refs[dest] # NoState) \/ dest = s
                  BY <2>a
            <3>. HIDE DEF c
            <3>2. QED
                  BY <2>2, <2>4, <2>5, <3>1 DEF Planned, Finishing
      <2>7. QED
            BY <2>1, <2>6
<1>6. ASSUME NEW s \in Resolvable, ResetSoft(p, s)
      PROVE  \E c, first : Planned(c, first) /\ Begin(p, c, first)
      BY <1>6, OntoPlanned DEF ResetSoft, Kinds
<1>7. ASSUME NEW s \in Resolvable, ResetMixed(p, s)
      PROVE  \E c, first : Planned(c, first) /\ Begin(p, c, first)
      BY <1>7, OntoPlanned DEF ResetMixed, Kinds
<1>8. ASSUME NEW s \in Resolvable, NEW force \in BOOLEAN, ResetHard(p, s, force)
      PROVE  \E c, first : Planned(c, first) /\ Begin(p, c, first)
      BY <1>8, OntoPlanned DEF ResetHard, Kinds
<1>9. ASSUME NEW s \in Resolvable, NEW force \in BOOLEAN, Revert(p, s, force)
      PROVE  \E c, first : Planned(c, first) /\ Begin(p, c, first)
      <2>. DEFINE parent == LinearParent(Parents, s)
      <2>1. PICK reverted \in RevertMerges(FilesOf(s), FilesOf(parent), HeadFiles) :
               IF reverted = FilesOf(parent)
               THEN Begin(p, Onto("revert", parent, force), "tree")
               ELSE Begin(p, Recording("revert", {HeadState}, reverted, force), "blobs")
            BY <1>9 DEF Revert
      <2>2. reverted \in Files
            BY DEF RevertMerges, PathwiseMerges
      <2>3. parent \in timeline
            BY <1>9 DEF Revert, Loadable
      <2>4. Planned(Onto("revert", parent, force), "tree")
            BY <2>3, OntoPlanned DEF Kinds
      <2>5. Planned(Recording("revert", {HeadState}, reverted, force), "blobs")
            BY <1>1, <2>2, RecordingPlanned
      <2>6. QED
            BY <2>1, <2>4, <2>5
<1>10. ASSUME NEW s \in Resolvable, NEW force \in BOOLEAN, CherryPick(p, s, force)
       PROVE  \E c, first : Planned(c, first) /\ Begin(p, c, first)
       <2>1. PICK picked \in ThreeWayMerges(FilesOf(LinearParent(Parents, s)),
                                            HeadFiles, FilesOf(s)) :
                Begin(p, Recording("pick", {HeadState}, picked, force), "blobs")
             BY <1>10 DEF CherryPick
       <2>2. picked \in Files
             BY DEF ThreeWayMerges, PathwiseMerges
       <2>3. Planned(Recording("pick", {HeadState}, picked, force), "blobs")
             BY <1>1, <2>2, RecordingPlanned
       <2>4. QED
             BY <2>1, <2>3
<1>11. QED
       BY <1>3, <1>4, <1>5, <1>6, <1>7, <1>8, <1>9, <1>10 DEF Start

-----------------------------------------------------------------------------
(* Each action preserves RepoInv. *)

\* A command that does not begin at its hooks keeps the lock.
LEMMA BeginInv ==
    ASSUME RepoInv, NEW p \in Proc, Free(p), NEW c, NEW first,
           Planned(c, first), Begin(p, c, first)
    PROVE  RepoInv'
<1>. USE DEF RepoInv
<1>1. /\ pc' = [pc EXCEPT ![p] = first] /\ cmd' = [cmd EXCEPT ![p] = c]
      /\ holder' = IF first = "hook" THEN NoProc ELSE p
      /\ UNCHANGED stores
      BY DEF Begin
<1>2. TypeOK'
      BY <1>1 DEF TypeOK, Planned, stores, Step
<1>3. /\ pc'[p] = first /\ cmd'[p] = c
      /\ \A q \in Proc \ {p} : pc'[q] = pc[q] /\ cmd'[q] = cmd[q]
      BY <1>1 DEF TypeOK
<1>4. LockInv'
      BY <1>1, <1>3, RepoAssumption DEF LockInv, Planned, AlwaysNoVerify, Free
<1>5. TipsInv' /\ TimelineInv'
      BY <1>1 DEF TipsInv, TimelineInv, HeadState, Parents, FilesOf, Contents, stores
<1>6. FlightInv'
      BY <1>1, <1>3 DEF FlightInv, Planned, Planning, Finishing, Creates, stores, Contents
<1>7. QED
      BY <1>2, <1>4, <1>5, <1>6

\* What Advance does to pc.
LEMMA FollowType ==
    ASSUME NEW c, NEW at \in Step \ {"idle", "ref"}
    PROVE  Follow(c, at) \in Step \ {"idle", "hook"}
BY DEF Follow, Step

LEMMA AdvancePc ==
    ASSUME TypeOK, NEW p \in Proc, pc[p] \notin {"idle", "ref"}, Advance(p)
    PROVE  /\ pc' \in [Proc -> Step]
           /\ pc'[p] = Follow(cmd[p], pc[p])
           /\ \A q \in Proc \ {p} : pc'[q] = pc[q]
<1>1. Follow(cmd[p], pc[p]) \in Step
      BY FollowType DEF TypeOK
<1>2. QED
      BY <1>1 DEF Advance, TypeOK

\* A step that only moves on within the command, or writes what no invariant reads.
LEMMA QuietInv ==
    ASSUME RepoInv, NEW p \in Proc, pc[p] \notin {"idle", "ref", "timeline", "blobs"},
           Advance(p), TypeOK',
           UNCHANGED <<commit, timeline, blobs, refs, head, holder, cmd>>
    PROVE  RepoInv'
<1>. USE DEF RepoInv
<1>1. /\ pc'[p] = Follow(cmd[p], pc[p])
      /\ \A q \in Proc \ {p} : pc'[q] = pc[q]
      BY AdvancePc
<1>2. LockInv'
      BY <1>1 DEF LockInv
<1>3. TipsInv' /\ TimelineInv'
      BY DEF TipsInv, TimelineInv, HeadState, Parents, FilesOf, Contents
<1>4. FlightInv'
      BY <1>1 DEF FlightInv, Planning, Finishing, Creates, Contents, Follow, TypeOK, Step
<1>5. QED
      BY <1>2, <1>3, <1>4

LEMMA WriteBlobsInv ==
    ASSUME RepoInv, NEW p \in Proc, WriteBlobs(p)
    PROVE  RepoInv'
<1>. USE DEF RepoInv
<1>1. /\ pc' \in [Proc -> Step] /\ pc'[p] = "timeline"
      /\ \A q \in Proc \ {p} : pc'[q] = pc[q]
      BY AdvancePc DEF WriteBlobs, Follow
<1>2. blobs \subseteq blobs' /\ Contents(cmd[p].files) \subseteq blobs'
      BY DEF WriteBlobs
<1>3. Contents(cmd[p].files) \subseteq Content
      BY DEF Contents, TypeOK, Command, Files
<1>4. TypeOK'
      BY <1>1, <1>3 DEF TypeOK, WriteBlobs
<1>5. LockInv'
      BY <1>1 DEF LockInv, WriteBlobs
<1>6. TipsInv' /\ TimelineInv'
      BY <1>2 DEF TipsInv, TimelineInv, HeadState, Parents, FilesOf, Contents, WriteBlobs
<1>7. FlightInv'
      BY <1>1, <1>2 DEF FlightInv, Planning, Finishing, Creates, Contents, WriteBlobs
<1>8. QED
      BY <1>4, <1>5, <1>6, <1>7

LEMMA WriteTimelineInv ==
    ASSUME RepoInv, NEW p \in Proc, WriteTimeline(p)
    PROVE  RepoInv'
<1>. USE DEF RepoInv
<1>. DEFINE entry == [parents |-> cmd[p].parents, files |-> cmd[p].files]
<1>0. pc[p] = "timeline" /\ Advance(p)
      BY DEF WriteTimeline
<1>1. PICK s \in State :
            /\ s \in DOMAIN commit => commit[s] = entry
            /\ commit' = [t \in DOMAIN commit \cup {s} |->
                             IF t = s THEN entry ELSE commit[t]]
            /\ timeline' = timeline \cup {s}
            /\ cmd' = [cmd EXCEPT ![p].target = s]
      BY DEF WriteTimeline
<1>2. UNCHANGED <<blobs, refs, head, index, staging, work, holder>>
      BY DEF WriteTimeline
<1>3. /\ pc' \in [Proc -> Step]
      /\ pc'[p] = IF cmd[p].kind = "commit" THEN "index" ELSE "tree"
      /\ \A q \in Proc \ {p} : pc'[q] = pc[q]
      BY <1>0, AdvancePc DEF Follow
<1>4. entry \in Entry
      BY DEF TypeOK, Command, Entry
<1>5. cmd' \in [Proc -> Command]
      /\ cmd'[p] = [cmd[p] EXCEPT !.target = s]
      /\ \A q \in Proc \ {p} : cmd'[q] = cmd[q]
  <2>1. cmd \in [Proc -> Command]
    BY DEF TypeOK
  <2>2. [cmd[p] EXCEPT !.target = s] \in Command
    BY <2>1 DEF Command
  <2> HIDE DEF RepoInv
  <2> QED
    BY <1>1, <2>1, <2>2
<1>6. /\ commit'[s] = entry
      /\ \A t \in timeline : t \in DOMAIN commit /\ commit'[t] = commit[t]
      /\ DOMAIN commit' = DOMAIN commit \cup {s}
      BY <1>1 DEF TypeOK
<1>7. TypeOK'
      <2>1. commit' \in [DOMAIN commit' -> Entry]
            BY <1>1, <1>4 DEF TypeOK
      <2>2. DOMAIN commit' \subseteq State
            BY <1>6 DEF TypeOK
      <2>3. timeline' \subseteq DOMAIN commit'
            BY <1>1, <1>6 DEF TypeOK
      <2>4. QED
            BY <1>2, <1>3, <1>5, <2>1, <2>2, <2>3 DEF TypeOK
<1>8. LockInv'
      <2>1. \A q \in Proc : cmd'[q].kind = cmd[q].kind
            BY <1>5 DEF TypeOK, Command
      <2>2. \A q \in Proc : pc'[q] # "idle" => pc[q] # "idle"
            BY <1>0, <1>3
      <2>3. QED
            BY <1>2, <2>1, <2>2 DEF LockInv
<1>9. TipsInv'
      BY <1>1, <1>2 DEF TipsInv, HeadState
<1>10. TimelineInv'
      <2>1. cmd[p].parents \subseteq timeline /\ Contents(cmd[p].files) \subseteq blobs
            BY <1>0 DEF FlightInv, Planning
      <2>2. Parents'[s] = cmd[p].parents
            BY <1>6 DEF Parents
      <2>3. \A t \in timeline : Parents'[t] = Parents[t]
            BY <1>6 DEF Parents, TypeOK
      <2>4. ParentClosed(Parents', timeline')
            BY <1>1, <2>1, <2>2, <2>3 DEF ParentClosed, TimelineInv
      <2>5. FilesOf(s)' = cmd[p].files
            BY <1>6 DEF FilesOf
      <2>6. \A t \in timeline : FilesOf(t)' = FilesOf(t)
            BY <1>6 DEF FilesOf
      <2>7. \A t \in timeline' : Contents(FilesOf(t)') \subseteq blobs'
            BY <1>1, <1>2, <2>1, <2>5, <2>6 DEF TimelineInv
      <2>8. Root \in timeline' /\ Parents'[Root] = {}
            BY <1>1, <2>3 DEF TimelineInv
      <2>9. QED
            BY <2>4, <2>7, <2>8 DEF TimelineInv, Contents
<1>11. FlightInv'
      BY <1>0, <1>1, <1>2, <1>3, <1>5
      DEF FlightInv, Planning, Finishing, Creates, Contents, TypeOK, Command
<1>12. QED
      BY <1>7, <1>8, <1>9, <1>10, <1>11

LEMMA WriteRefInv ==
    ASSUME RepoInv, NEW p \in Proc, WriteRef(p)
    PROVE  RepoInv'
<1>. USE DEF RepoInv
<1>1. /\ pc' \in [Proc -> Step] /\ pc'[p] = "idle"
      /\ cmd' \in [Proc -> Command]
      /\ \A q \in Proc \ {p} : pc'[q] = pc[q] /\ cmd'[q] = cmd[q]
      BY NoCmdType DEF WriteRef, TypeOK, Step
<1>2. cmd[p].target \in timeline /\ cmd[p].target \in State
      BY DEF FlightInv, Finishing, WriteRef, TypeOK
<1>3. cmd[p].kind = "checkout" =>
          \/ cmd[p].dest \in Branch /\ refs[cmd[p].dest] \in timeline
          \/ cmd[p].dest \in timeline
      BY <1>2 DEF FlightInv, WriteRef, TipsInv, Ref
<1>4. /\ refs' \in [Ref -> timeline \cup {NoState}]
      /\ head' \in Branch \cup State
      /\ \A b \in Branch : refs[b] # NoState => refs'[b] # NoState
      BY <1>2, <1>3, RepoAssumption DEF WriteRef, TypeOK, TipsInv, Ref
<1>5. UNCHANGED <<commit, timeline, blobs, index, staging, work>>
      BY DEF WriteRef
<1>6. TypeOK'
      <2>1. refs' \in [Ref -> State \cup {NoState}]
            BY <1>4 DEF TypeOK
      <2>2. holder' \in Proc \cup {NoProc}
            BY DEF WriteRef, TypeOK
      <2>3. QED
            BY <1>1, <1>4, <1>5, <2>1, <2>2 DEF TypeOK
<1>7. LockInv'
      BY <1>1 DEF LockInv, WriteRef
<1>8. HeadState' \in timeline
      BY <1>2, <1>3, RepoAssumption DEF WriteRef, HeadState, TypeOK, TipsInv, Ref
<1>9. TipsInv' /\ TimelineInv'
      BY <1>4, <1>5, <1>8 DEF TipsInv, TimelineInv, Parents, FilesOf, Contents
<1>10. FlightInv'
      BY <1>1, <1>4, <1>5 DEF FlightInv, Planning, Finishing, Creates, Contents
<1>11. QED
      BY <1>6, <1>7, <1>9, <1>10

LEMMA StopInv ==
    ASSUME RepoInv, NEW p \in Proc, Stop(p)
    PROVE  RepoInv'
<1>. USE DEF RepoInv
<1>1. /\ pc' \in [Proc -> Step] /\ pc'[p] = "idle"
      /\ cmd' \in [Proc -> Command]
      /\ \A q \in Proc \ {p} : pc'[q] = pc[q] /\ cmd'[q] = cmd[q]
      BY NoCmdType DEF Stop, TypeOK, Step
<1>2. UNCHANGED <<commit, timeline, blobs, refs, head, index, staging>>
      BY DEF Stop
<1>3. work' \in Files
      <2>1. CASE pc[p] = "tree"
            <3>1. FilesOf(cmd[p].target) \in Files
                  BY <2>1, FilesType DEF FlightInv, Finishing
            <3>2. Interrupted(FilesOf(cmd[p].target)) \subseteq Files
                  BY <3>1 DEF Interrupted, Materialized, Files, TypeOK, Kept
            <3>3. QED
                  BY <3>2 DEF Stop, TypeOK
      <2>2. CASE pc[p] # "tree"
            BY <2>2 DEF Stop, TypeOK
      <2>3. QED
            BY <2>1, <2>2
<1>4. TypeOK'
      BY <1>1, <1>2, <1>3 DEF TypeOK, Stop
<1>5. LockInv'
      BY <1>1 DEF LockInv, Stop
<1>6. TipsInv' /\ TimelineInv'
      BY <1>2 DEF TipsInv, TimelineInv, HeadState, Parents, FilesOf, Contents
<1>7. FlightInv'
      BY <1>1, <1>2 DEF FlightInv, Planning, Finishing, Creates, Contents
<1>8. QED
      BY <1>4, <1>5, <1>6, <1>7

\* The commands that write one store.
LEMMA AddInv ==
    ASSUME RepoInv, NEW paths \in SUBSET Path, Add(paths)
    PROVE  RepoInv'
<1>. USE DEF RepoInv
<1>1. blobs \subseteq blobs' /\ blobs' \subseteq Content
      BY DEF Add, TypeOK, Files
<1>2. staging' \in [active : BOOLEAN, entries : [Path -> Content \cup {Absent, NotStaged}]]
      BY DEF Add, TypeOK, Files
<1>3. UNCHANGED <<commit, timeline, refs, head, index, work, holder, pc, cmd>>
      BY DEF Add
<1>4. TypeOK' /\ LockInv'
      BY <1>1, <1>2, <1>3 DEF TypeOK, LockInv
<1>5. TipsInv' /\ TimelineInv'
      BY <1>1, <1>3 DEF TipsInv, TimelineInv, HeadState, Parents, FilesOf, Contents
<1>6. FlightInv'
      BY <1>1, <1>3 DEF FlightInv, Contents, Creates
<1>7. QED
      BY <1>4, <1>5, <1>6

LEMMA CreateRefInv ==
    ASSUME RepoInv, NEW r \in Ref, NEW s \in Resolvable, CreateRef(r, s)
    PROVE  RepoInv'
<1>. USE DEF RepoInv
<1>1. s \in timeline /\ s \in State
      BY ResolvableKnown DEF TypeOK
<1>2. UNCHANGED <<commit, timeline, blobs, head, index, staging, work, holder, pc, cmd>>
      BY DEF CreateRef
<1>3. /\ refs' \in [Ref -> State \cup {NoState}]
      /\ \A t \in Ref : refs'[t] = IF t = r THEN s ELSE refs[t]
      BY <1>1 DEF CreateRef, TypeOK
<1>4. TypeOK' /\ LockInv'
      BY <1>2, <1>3 DEF TypeOK, LockInv
<1>5. TipsInv' /\ TimelineInv'
      BY <1>1, <1>2, <1>3 DEF TipsInv, TimelineInv, HeadState, Parents, FilesOf, Contents, Ref
<1>6. FlightInv'
      BY <1>1, <1>2, <1>3, RepoAssumption DEF FlightInv, Contents, Creates, Ref
<1>7. QED
      BY <1>4, <1>5, <1>6

LEMMA RemoveRefInv ==
    ASSUME RepoInv, NEW r \in Ref, RemoveRef(r)
    PROVE  RepoInv'
<1>. USE DEF RepoInv
<1>1. UNCHANGED <<commit, timeline, blobs, head, index, staging, work, holder, pc, cmd>>
      BY DEF RemoveRef
<1>2. /\ refs' \in [Ref -> State \cup {NoState}]
      /\ \A t \in Ref : refs'[t] = IF t = r THEN NoState ELSE refs[t]
      BY DEF RemoveRef, TypeOK
<1>3. TypeOK' /\ LockInv'
      BY <1>1, <1>2 DEF TypeOK, LockInv
<1>4. TipsInv' /\ TimelineInv'
      BY <1>1, <1>2 DEF TipsInv, TimelineInv, HeadState, Parents, FilesOf, Contents, Ref,
                        RemoveRef
<1>5. ASSUME NEW p \in Proc, pc[p] # "idle" PROVE cmd[p].kind # "checkout"
      BY <1>5, RepoAssumption DEF LockInv, RemoveRef
<1>6. FlightInv'
      BY <1>1, <1>5 DEF FlightInv, Contents, Creates
<1>7. QED
      BY <1>3, <1>4, <1>6

\* Deleting what no ref reaches leaves a complete repository, if no command is
\* between its plan and its ref.
LEMMA GcInv ==
    ASSUME GcKeepsHistory, RepoInv, NEW mode \in GcModes, Gc(mode)
    PROVE  RepoInv'
<1>. USE DEF RepoInv
<1>. DEFINE reach == Reachable(Parents, Tips) \cup {Root}
<1>1. UNCHANGED <<commit, refs, head, index, staging, work, holder, pc, cmd>>
      BY DEF Gc
<1>2. mode # "blobs" /\ AlwaysNoVerify
      BY DEF GcKeepsHistory
<1>3. timeline' = timeline \cap reach
      BY <1>2 DEF Gc
<1>4. /\ blobs' \subseteq blobs
      /\ \A s \in reach : Contents(FilesOf(s)) \cap blobs \subseteq blobs'
      BY DEF Gc
<1>5. \A p \in Proc : pc[p] = "idle"
      BY <1>2, RepoAssumption DEF Gc, LockInv, AlwaysNoVerify
<1>6. TypeOK' /\ LockInv'
      BY <1>1, <1>3, <1>4 DEF TypeOK, LockInv
<1>7. Tips \subseteq reach
      <2>1. Tips \in SUBSET DOMAIN Parents
            BY RepoAssumption DEF Tips, TipsInv, TypeOK, HeadState, Parents
      <2>2. QED
            BY <2>1, ReachableTips
<1>8. TipsInv'
      <2>1. \A r \in Ref : refs[r] # NoState => refs[r] \in Tips
            BY DEF Tips
      <2>2. HeadState # NoState
            BY RepoAssumption DEF TipsInv, TypeOK
      <2>3. HeadState \in Tips
            BY <2>1, <2>2, RepoAssumption DEF Tips, HeadState, TypeOK, Ref
      <2>4. QED
            BY <1>1, <1>3, <1>7, <2>1, <2>3 DEF TipsInv, HeadState
<1>9. ParentClosed(Parents, timeline')
      <2>1. ParentClosed(Parents, Reachable(Parents, Tips))
            BY ParentsType, ReachableClosed
      <2>2. ParentClosed(Parents, reach)
            BY <2>1 DEF ParentClosed, TimelineInv
      <2>3. QED
            BY <1>3, <2>2 DEF ParentClosed, TimelineInv
<1>10. \A s \in timeline' : Contents(FilesOf(s)) \subseteq blobs'
      BY <1>3, <1>4 DEF TimelineInv
<1>11. TimelineInv'
      <2>1. /\ Parents' = Parents
            /\ \A s : Contents(FilesOf(s))' = Contents(FilesOf(s))
            BY <1>1 DEF Parents, FilesOf, Contents
      <2>2. Root \in timeline' /\ Parents[Root] = {}
            BY <1>3 DEF TimelineInv
      <2>3. QED
            BY <1>9, <1>10, <2>1, <2>2 DEF TimelineInv
<1>12. FlightInv'
      BY <1>1, <1>5 DEF FlightInv, Planning, Finishing
<1>13. QED
      BY <1>6, <1>8, <1>11, <1>12

LEMMA UserEditInv ==
    ASSUME RepoInv, NEW q \in Path, NEW content \in Content \cup {Absent},
           UserEdit(q, content)
    PROVE  RepoInv'
<1>1. UNCHANGED <<commit, timeline, blobs, refs, head, index, staging, holder, pc, cmd>>
      BY DEF UserEdit
<1>2. work' \in Files
      BY DEF UserEdit, RepoInv, TypeOK, Files
<1>3. TypeOK' /\ LockInv'
      BY <1>1, <1>2 DEF RepoInv, TypeOK, LockInv
<1>4. TipsInv' /\ TimelineInv' /\ FlightInv'
      BY <1>1 DEF RepoInv, TipsInv, TimelineInv, FlightInv, HeadState, Parents, FilesOf,
                  Contents, Creates
<1>5. QED
      BY <1>3, <1>4 DEF RepoInv

LEMMA InitInv ==
    ASSUME Init
    PROVE  RepoInv
<1>1. TypeOK
      <2>1. NoFiles \in Files /\ Unstaged \in [Path -> Content \cup {Absent, NotStaged}]
            BY DEF NoFiles, Files, Unstaged
      <2>2. refs \in [Ref -> State \cup {NoState}] /\ head \in Branch \cup State
            BY RepoAssumption DEF Init
      <2>3. commit \in [DOMAIN commit -> Entry] /\ DOMAIN commit = {Root}
            BY <2>1, RepoAssumption DEF Init, Entry
      <2>4. QED
            BY <2>1, <2>2, <2>3, NoCmdType, RepoAssumption DEF Init, TypeOK, Step
<1>2. LockInv /\ FlightInv
      BY DEF Init, LockInv, FlightInv, Planning, Finishing
<1>3. TipsInv
      BY RepoAssumption DEF Init, TipsInv, HeadState, Ref
<1>4. TimelineInv
      <2>1. Parents[Root] = {} /\ timeline = {Root}
            BY RepoAssumption DEF Init, Parents
      <2>2. Contents(FilesOf(Root)) = {}
            BY DEF Init, Contents, FilesOf, NoFiles
      <2>3. QED
            BY <2>1, <2>2 DEF TimelineInv, ParentClosed
<1>5. QED
      BY <1>1, <1>2, <1>3, <1>4 DEF RepoInv

\* Taking the lock and planning preserves the invariant.
LEMMA StartInv ==
    ASSUME RepoInv, NEW p \in Proc, Start(p)
    PROVE  RepoInv'
<1>1. PICK c, first : Planned(c, first) /\ Begin(p, c, first)
      BY StartPlanned DEF RepoInv
<1>2. Free(p)
      BY DEF Start
<1>3. QED
      BY <1>1, <1>2, BeginInv

\* Running a command preserves it.
LEMMA RunInv ==
    ASSUME RepoInv, NEW p \in Proc, Run(p)
    PROVE  RepoInv'
<1>1. CASE WriteBlobs(p)
      BY <1>1, WriteBlobsInv
<1>2. CASE WriteTimeline(p)
      BY <1>2, WriteTimelineInv
<1>3. CASE WriteRef(p)
      BY <1>3, WriteRefInv
<1>4. CASE Resume(p) \/ FinishGuard(p)
      <2>1. pc' \in [Proc -> Step]
            BY <1>4, AdvancePc DEF RepoInv, Resume, FinishGuard
      <2>2. TypeOK'
            BY <1>4, <2>1 DEF RepoInv, TypeOK, Resume, FinishGuard, stores
      <2>3. QED
            BY <1>4, <2>2, QuietInv DEF Resume, FinishGuard, stores
<1>5. CASE WriteTree(p)
      <2>1. pc' \in [Proc -> Step]
            BY <1>5, AdvancePc DEF RepoInv, WriteTree
      <2>2. FilesOf(cmd[p].target) \in Files
            BY <1>5, FilesType DEF RepoInv, FlightInv, Finishing, WriteTree
      <2>3. work' \in Files
            BY <1>5, <2>2 DEF RepoInv, WriteTree, Materialized, Files, Kept, TypeOK
      <2>4. TypeOK'
            BY <1>5, <2>1, <2>3 DEF RepoInv, TypeOK, WriteTree
      <2>5. QED
            BY <1>5, <2>4, QuietInv DEF WriteTree
<1>6. CASE WriteIndex(p)
      <2>1. pc' \in [Proc -> Step]
            BY <1>6, AdvancePc DEF RepoInv, WriteIndex
      <2>2. cmd[p].target \in State \cup {NoState}
            BY DEF RepoInv, TypeOK, Command
      <2>3. TypeOK'
            BY <1>6, <2>1, <2>2 DEF RepoInv, TypeOK, WriteIndex
      <2>4. QED
            BY <1>6, <2>3, QuietInv DEF WriteIndex
<1>7. CASE ClearStaging(p)
      <2>1. pc' \in [Proc -> Step]
            BY <1>7, AdvancePc DEF RepoInv, ClearStaging
      <2>2. cmd[p].active \in BOOLEAN
            BY DEF RepoInv, TypeOK, Command
      <2>3. TypeOK'
            BY <1>7, <2>1, <2>2 DEF RepoInv, TypeOK, ClearStaging, Unstaged
      <2>4. QED
            BY <1>7, <2>3, QuietInv DEF ClearStaging
<1>8. QED
      BY <1>1, <1>2, <1>3, <1>4, <1>5, <1>6, <1>7 DEF Run

\* Every step preserves the invariant.
LEMMA NextInv ==
    ASSUME GcKeepsHistory, RepoInv, [Next]_vars
    PROVE  RepoInv'
<1>1. CASE UNCHANGED vars
      <2>1. UNCHANGED <<commit, timeline, blobs, refs, head, index, staging, work,
                        holder, pc, cmd>>
            BY <1>1 DEF vars, stores
      <2>2. TypeOK' /\ LockInv'
            BY <2>1 DEF RepoInv, TypeOK, LockInv
      <2>3. TipsInv' /\ TimelineInv' /\ FlightInv'
            BY <2>1 DEF RepoInv, TipsInv, TimelineInv, FlightInv, HeadState, Parents,
                        FilesOf, Contents, Creates
      <2>4. QED
            BY <2>2, <2>3 DEF RepoInv
<1>2. QED
      BY <1>1, StartInv, RunInv, StopInv, AddInv, CreateRefInv, RemoveRefInv, GcInv, UserEditInv
      DEF Next

-----------------------------------------------------------------------------
(* Theorems. *)

\* What type correctness and completeness rest on together: every id has one meaning, the
\* timeline holds the parents and the blobs of its entries, and each command under way is
\* planned from states the timeline holds until it has stored its own.
THEOREM Invariance ==
    ASSUME GcKeepsHistory
    PROVE  Spec => []RepoInv
<1>1. Init => RepoInv
      BY InitInv
<1>2. RepoInv /\ [Next]_vars => RepoInv'
      BY NextInv
<1>3. QED
      BY <1>1, <1>2, PTL DEF Spec

\* Every variable keeps its type: a command's target is known by the time it is
\* used, HEAD never comes to stand on no state, and ids keep their meaning.
THEOREM TypeCorrect ==
    ASSUME GcKeepsHistory
    PROVE  Spec => []TypeOK
<1>1. RepoInv => TypeOK
      BY DEF RepoInv
<1>2. QED
      BY <1>1, Invariance, PTL

\* In a repository on which gc is not asked to delete blobs alone and does not run
\* beside hooks, everything that a branch, a tag or a detached HEAD needs can be
\* loaded at every moment, wherever commands were stopped: persist_state stores
\* blobs before the timeline entry and the entry before the ref, and gc keeps what
\* the refs reach.
THEOREM RefsStayComplete ==
    ASSUME GcKeepsHistory
    PROVE  Spec => []RefsComplete
<1>1. RepoInv => RefsComplete
      <2>1. SUFFICES ASSUME RepoInv PROVE RefsComplete
            OBVIOUS
      <2>2. Tips \subseteq timeline
            BY <2>1, ResolvableKnown DEF RepoInv, Resolvable
      <2>3. timeline \in SUBSET DOMAIN Parents
            BY <2>1 DEF RepoInv, TypeOK, Parents
      <2>4. ParentClosed(Parents, timeline)
            BY <2>1 DEF RepoInv, TimelineInv
      <2>5. Reachable(Parents, Tips) \subseteq timeline
            BY <2>2, <2>3, <2>4, ReachableLeast
      <2>6. QED
            BY <2>1, <2>5 DEF RefsComplete, Loadable, RepoInv, TimelineInv
<1>2. QED
      BY <1>1, Invariance, PTL

-----------------------------------------------------------------------------
(* What the steps may do while every command keeps the lock. *)

\* Every command keeps the lock and gc never deletes blobs alone.
Guarded == AlwaysNoVerify /\ "blobs" \notin GcModes

\* Entries are staged only once add was used.
ActiveInv == Staged # {} => staging.active

-----------------------------------------------------------------------------
(* What a command c that is at step `at` still knows of the stores: nobody *)
(* else changed them since it took the lock.                               *)

\* It is past no hook, and what it records is a child of HEAD's state.
ChildOfHead(c, at) ==
    /\ at # "hook" /\ c.kind \in Kinds
    /\ Creates(c) => HeadState \in c.parents
    /\ at \in {"blobs", "timeline"} => Creates(c)
    /\ c.kind \in {"commit", "pick"} => Creates(c)

\* The state it records, once it has an id.
HasEntry(c, at) ==
    Creates(c) /\ at \in Finishing =>
        commit[c.target] = [parents |-> c.parents, files |-> c.files]

\* index.json is at its target before the staging index and the ref are written.
Indexed(c, at) ==
    at \in {"staging", "ref"} /\ c.kind # "soft" => IndexAt(c.target)

\* A branch that is checked out still names the target.
Aimed(c, at) ==
    c.kind = "checkout" =>
        /\ at \in Finishing
        /\ c.target = IF c.dest \in Branch THEN refs[c.dest] ELSE c.dest

\* A fast-forward goes to a descendant of HEAD's state.
Forward(c) ==
    c.kind = "merge" /\ ~Creates(c) => IsAncestorOf(Parents, HeadState, c.target)

Onward(c, at) == at \in Finishing /\ c.target = HeadState

\* Unless it is forced or stays where it is, the tree it will overwrite is HEAD's.
CleanTree(c, at) ==
    /\ at = "tree" => c.kind # "commit"
    /\ at \in {"blobs", "timeline", "tree"} /\ c.kind # "commit" /\ ~c.force =>
          TreeClean \/ Onward(c, at)

\* And the staging index it will clear is empty, or recorded by it.
StagingSpared(c, at) ==
    at \in {"blobs", "timeline", "tree", "index", "staging"}
    /\ c.kind # "mixed" /\ ~c.force =>
        \/ Staged = {}
        \/ c.kind # "commit" /\ Onward(c, at)
        \/ c.kind = "commit" /\ \A q \in Staged : c.files[q] = staging.entries[q]

Flight(c, at) ==
    /\ ChildOfHead(c, at) /\ HasEntry(c, at) /\ Indexed(c, at) /\ Aimed(c, at)
    /\ Forward(c) /\ CleanTree(c, at) /\ StagingSpared(c, at)

HeldInv ==
    /\ RepoInv
    /\ ActiveInv
    /\ \A p \in Proc : pc[p] # "idle" => Flight(cmd[p], pc[p])

-----------------------------------------------------------------------------
(* A command that starts knows all that. *)

LEMMA OntoFields ==
    ASSUME NEW kind, NEW s, NEW force
    PROVE  LET c == Onto(kind, s, force)
           IN  /\ c.kind = kind /\ c.target = s /\ c.force = force
               /\ c.parents = {} /\ ~Creates(c)
BY DEF Onto, NoCmd, Creates

LEMMA RecordingFields ==
    ASSUME NEW kind, NEW P, P # {}, NEW f, NEW force
    PROVE  LET c == Recording(kind, P, f, force)
           IN  /\ c.kind = kind /\ c.parents = P /\ c.files = f /\ c.force = force
               /\ Creates(c)
BY DEF Recording, NoCmd, Creates

\* A guard that is not forced passes only over nothing staged and a clean tree,
\* unless the command stays where it is.
LEMMA GuardClean ==
    ASSUME ActiveInv, NEW allowDirty, GuardOK(FALSE, allowDirty), ~allowDirty
    PROVE  Staged = {} /\ TreeClean
BY DEF GuardOK, ActiveInv, StagingInUse

\* A command that records a child of HEAD and was held to a clean tree.
LEMMA RecordingFlight ==
    ASSUME ActiveInv, NEW kind \in {"revert", "pick", "merge"}, NEW P, HeadState \in P,
           NEW f, NEW force \in BOOLEAN, NEW first \in {"guard", "blobs"},
           first = "blobs" => GuardOK(force, FALSE)
    PROVE  Flight(Recording(kind, P, f, force), first)
<1>. DEFINE c == Recording(kind, P, f, force)
<1>1. /\ c.kind = kind /\ c.parents = P /\ c.files = f /\ c.force = force
      /\ Creates(c)
      BY RecordingFields
<1>2. first = "blobs" /\ ~force => Staged = {} /\ TreeClean
      BY GuardClean
<1>. HIDE DEF c
<1>3. Flight(c, first)
      BY <1>1, <1>2 DEF Flight, Kinds, ChildOfHead, HasEntry, Indexed, Aimed, Forward, CleanTree,
                        StagingSpared, Finishing
<1>4. QED
      BY <1>3 DEF c

\* A command that moves the tree to a state that exists.
LEMMA OntoFlight ==
    ASSUME ActiveInv, NEW kind \in {"hard", "revert"}, NEW s, NEW force \in BOOLEAN,
           GuardOK(force, s = HeadState)
    PROVE  Flight(Onto(kind, s, force), "tree")
<1>. DEFINE c == Onto(kind, s, force)
<1>1. c.kind = kind /\ c.target = s /\ c.force = force /\ ~Creates(c)
      BY OntoFields
<1>2. ~force => s = HeadState \/ (Staged = {} /\ TreeClean)
      BY GuardClean
<1>. HIDE DEF c
<1>3. Flight(c, "tree")
      BY <1>1, <1>2 DEF Flight, Kinds, ChildOfHead, HasEntry, Indexed, Aimed, Forward, CleanTree,
                        StagingSpared, Onward, Finishing
<1>4. QED
      BY <1>3 DEF c

LEMMA StartFlight ==
    ASSUME AlwaysNoVerify, RepoInv, ActiveInv, NEW p \in Proc, Start(p)
    PROVE  \E c, first : Flight(c, first) /\ Begin(p, c, first)
<1>. DEFINE Goal == \E c, first : Flight(c, first) /\ Begin(p, c, first)
<1>0. \A noVerify \in NoVerify : noVerify
      BY RepoAssumption DEF AlwaysNoVerify
<1>1. ASSUME Commit(p) PROVE Goal
      <2>. DEFINE r == Recording("commit", {HeadState}, CommitFiles, FALSE)
                  c == [r EXCEPT !.active = staging.active]
      <2>1. Begin(p, c, "blobs")
            BY <1>0, <1>1 DEF Commit
      <2>2. /\ r.kind = "commit" /\ r.parents = {HeadState} /\ r.files = CommitFiles
            /\ Creates(r)
            BY DEF Recording, NoCmd, Creates
      <2>3. c.kind = r.kind /\ c.parents = r.parents /\ c.files = r.files
            OBVIOUS
      <2>4. \A q \in Staged : CommitFiles[q] = staging.entries[q]
            BY DEF CommitFiles, ActiveInv, Staged
      <2>. HIDE DEF r, c
      <2>5. Flight(c, "blobs")
            BY <2>2, <2>3, <2>4
            DEF Flight, Kinds, ChildOfHead, HasEntry, Indexed, Aimed, Forward, CleanTree,
                StagingSpared, Finishing, Creates
      <2>6. QED
            BY <2>1, <2>5
<1>2. ASSUME NEW s \in Resolvable, NEW force \in BOOLEAN, Merge(p, s, force) PROVE Goal
      <2>1. PICK base \in MergeBases(Parents, HeadState, s) :
                \E noVerify \in NoVerify,
                   merged \in ThreeWayMerges(FilesOf(base), HeadFiles, FilesOf(s)) :
                   Begin(p, IF base = HeadState
                            THEN Onto("merge", s, force)
                            ELSE Recording("merge", {HeadState, s}, merged, force),
                         IF noVerify THEN "guard" ELSE "hook")
            BY <1>2 DEF Merge
      <2>2. PICK merged : Begin(p, IF base = HeadState
                                   THEN Onto("merge", s, force)
                                   ELSE Recording("merge", {HeadState, s}, merged, force),
                                "guard")
            BY <1>0, <2>1
      <2>3. base = HeadState => Flight(Onto("merge", s, force), "guard")
            <3>. DEFINE c == Onto("merge", s, force)
            <3>1. c.kind = "merge" /\ c.target = s /\ c.force = force /\ ~Creates(c)
                  BY OntoFields
            <3>2. IsAncestorOf(Parents, base, s)
                  BY BaseIsAncestor
            <3>. HIDE DEF c
            <3>3. base = HeadState => Flight(c, "guard")
                  BY <3>1, <3>2 DEF Flight, Kinds, ChildOfHead, HasEntry, Indexed, Aimed, Forward,
                                    CleanTree, StagingSpared, Finishing
            <3>4. QED
                  BY <3>3 DEF c
      <2>4. Flight(Recording("merge", {HeadState, s}, merged, force), "guard")
            BY RecordingFlight
      <2>5. QED
            BY <2>2, <2>3, <2>4
<1>3. ASSUME NEW dest \in {b \in Branch : refs[b] # NoState} \cup timeline,
             NEW force \in BOOLEAN, Checkout(p, dest, force)
      PROVE  Goal
      <2>. DEFINE s == IF dest \in Branch THEN refs[dest] ELSE dest
                  o == Onto("checkout", s, force)
                  c == [o EXCEPT !.dest = dest]
      <2>1. Begin(p, c, "tree") /\ GuardOK(force, dest = head \/ dest = HeadState)
            BY <1>3 DEF Checkout
      <2>2. o.kind = "checkout" /\ o.target = s /\ o.force = force /\ ~Creates(o)
            BY OntoFields
      <2>3. /\ c.kind = o.kind /\ c.target = o.target /\ c.force = o.force
            /\ c.parents = o.parents /\ c.dest = dest
            BY DEF Onto, NoCmd
      <2>4. dest = head \/ dest = HeadState => s = HeadState
            BY RepoAssumption DEF HeadState, RepoInv, TypeOK, TipsInv
      <2>5. ~force => s = HeadState \/ (Staged = {} /\ TreeClean)
            BY <2>1, <2>4, GuardClean
      <2>. HIDE DEF c, o
      <2>6. Flight(c, "tree")
            BY <2>2, <2>3, <2>5
            DEF Flight, Kinds, ChildOfHead, HasEntry, Indexed, Aimed, Forward, CleanTree,
                StagingSpared, Onward, Finishing, Creates
      <2>7. QED
            BY <2>1, <2>6
<1>4. ASSUME NEW s \in Resolvable, ResetSoft(p, s) \/ ResetMixed(p, s) PROVE Goal
      <2>1. PICK kind \in {"soft", "mixed"}, first \in {"ref", "index"} :
                /\ Begin(p, Onto(kind, s, FALSE), first)
                /\ first = "ref" => kind = "soft"
                /\ first = "index" => kind = "mixed"
            BY <1>4 DEF ResetSoft, ResetMixed
      <2>. DEFINE c == Onto(kind, s, FALSE)
      <2>2. c.kind = kind /\ ~Creates(c)
            BY DEF Onto, NoCmd, Creates
      <2>. HIDE DEF c
      <2>3. Flight(c, first)
            BY <2>1, <2>2 DEF Flight, Kinds, ChildOfHead, HasEntry, Indexed, Aimed, Forward,
                              CleanTree, StagingSpared
      <2>4. QED
            BY <2>1, <2>3 DEF c
<1>5. ASSUME NEW s \in Resolvable, NEW force \in BOOLEAN, ResetHard(p, s, force) PROVE Goal
      BY <1>5, OntoFlight DEF ResetHard
<1>6. ASSUME NEW s \in Resolvable, NEW force \in BOOLEAN, Revert(p, s, force) PROVE Goal
      <2>. DEFINE parent == LinearParent(Parents, s)
      <2>1. PICK reverted :
               IF reverted = FilesOf(parent)
               THEN Begin(p, Onto("revert", parent, force), "tree")
               ELSE Begin(p, Recording("revert", {HeadState}, reverted, force), "blobs")
            BY <1>6 DEF Revert
      <2>2. GuardOK(force, FALSE)
            BY <1>6 DEF Revert
      <2>3. GuardOK(force, parent = HeadState)
            BY <2>2 DEF GuardOK
      <2>. HIDE DEF parent
      <2>4. Flight(Onto("revert", parent, force), "tree")
            BY <2>3, OntoFlight
      <2>5. Flight(Recording("revert", {HeadState}, reverted, force), "blobs")
            BY <2>2, RecordingFlight
      <2>6. QED
            BY <2>1, <2>4, <2>5
<1>7. ASSUME NEW s \in Resolvable, NEW force \in BOOLEAN, CherryPick(p, s, force) PROVE Goal
      <2>1. PICK picked : Begin(p, Recording("pick", {HeadState}, picked, force), "blobs")
            BY <1>7 DEF CherryPick
      <2>2. Flight(Recording("pick", {HeadState}, picked, force), "blobs")
            BY <1>7, RecordingFlight DEF CherryPick
      <2>3. QED
            BY <2>1, <2>2
<1>8. QED
      BY <1>1, <1>2, <1>3, <1>4, <1>5, <1>6, <1>7 DEF Start

-----------------------------------------------------------------------------
(* Each step keeps what the command in flight knows. *)

\* Where every command keeps the lock, the one in flight is the only one and has it.
LEMMA Alone ==
    ASSUME AlwaysNoVerify, RepoInv, NEW p \in Proc, pc[p] # "idle"
    PROVE  holder = p /\ \A q \in Proc \ {p} : pc[q] = "idle"
BY DEF AlwaysNoVerify, RepoInv, LockInv

\* What is read off the stores stays as long as they do.
LEMMA SameHead ==
    ASSUME UNCHANGED <<commit, refs, head>>
    PROVE  /\ HeadState' = HeadState /\ HeadFiles' = HeadFiles /\ Parents' = Parents
           /\ \A s : FilesOf(s)' = FilesOf(s)
BY DEF HeadState, HeadFiles, Parents, FilesOf

LEMMA FinishGuardFlight ==
    ASSUME HeldInv, NEW p \in Proc, FinishGuard(p)
    PROVE  Flight(cmd[p], pc[p])'
<1>1. Flight(cmd[p], "guard") /\ ActiveInv
      BY DEF HeldInv, FinishGuard
<1>2. /\ pc'[p] = IF Creates(cmd[p]) THEN "blobs" ELSE "tree"
      /\ cmd' = cmd
      BY AdvancePc DEF HeldInv, RepoInv, FinishGuard, Follow
<1>3. /\ HeadState' = HeadState /\ HeadFiles' = HeadFiles /\ Parents' = Parents
      /\ work' = work /\ staging' = staging
      BY SameHead DEF FinishGuard, stores
<1>4. Staged = {} /\ (~cmd[p].force => TreeClean)
      <2>1. cmd[p].force \in BOOLEAN
            BY DEF HeldInv, RepoInv, TypeOK, Command
      <2>2. GuardOK(cmd[p].force, FALSE) /\ ~StagingInUse
            BY DEF FinishGuard
      <2>3. QED
            BY <1>1, <2>1, <2>2 DEF GuardOK, StagingInUse, ActiveInv
<1>5. Staged' = {} /\ (~cmd[p].force => TreeClean')
      BY <1>3, <1>4 DEF Staged, TreeClean
<1>6. QED
      BY <1>1, <1>2, <1>3, <1>5
      DEF Flight, ChildOfHead, HasEntry, Indexed, Aimed, Forward, CleanTree,
          StagingSpared, Finishing, Creates

LEMMA WriteBlobsFlight ==
    ASSUME HeldInv, NEW p \in Proc, WriteBlobs(p)
    PROVE  Flight(cmd[p], pc[p])'
<1>1. Flight(cmd[p], "blobs")
      BY DEF HeldInv, WriteBlobs
<1>2. pc'[p] = "timeline" /\ cmd' = cmd
      BY AdvancePc DEF HeldInv, RepoInv, WriteBlobs, Follow
<1>3. /\ HeadState' = HeadState /\ HeadFiles' = HeadFiles /\ Parents' = Parents
      /\ work' = work /\ staging' = staging
      BY SameHead DEF WriteBlobs
<1>4. Staged' = Staged /\ TreeClean' = TreeClean
      BY <1>3 DEF Staged, TreeClean
<1>5. QED
      BY <1>1, <1>2, <1>3, <1>4
      DEF Flight, ChildOfHead, HasEntry, Indexed, Aimed, Forward, CleanTree, Onward,
          StagingSpared, Finishing, Creates

LEMMA WriteTimelineFlight ==
    ASSUME HeldInv, NEW p \in Proc, WriteTimeline(p)
    PROVE  Flight(cmd[p], pc[p])'
<1>. DEFINE entry == [parents |-> cmd[p].parents, files |-> cmd[p].files]
<1>1. Flight(cmd[p], "timeline")
      BY DEF HeldInv, WriteTimeline
<1>2. PICK s \in State :
            /\ s \in DOMAIN commit => commit[s] = entry
            /\ commit' = [t \in DOMAIN commit \cup {s} |->
                             IF t = s THEN entry ELSE commit[t]]
            /\ cmd' = [cmd EXCEPT ![p].target = s]
      BY DEF WriteTimeline
<1>3. pc'[p] = IF cmd[p].kind = "commit" THEN "index" ELSE "tree"
      BY AdvancePc DEF HeldInv, RepoInv, WriteTimeline, Follow
<1>4. /\ cmd'[p].kind = cmd[p].kind /\ cmd'[p].parents = cmd[p].parents
      /\ cmd'[p].files = cmd[p].files /\ cmd'[p].force = cmd[p].force
      /\ cmd'[p].target = s
      BY <1>2 DEF HeldInv, RepoInv, TypeOK, Command
<1>5. commit'[s] = entry
      BY <1>2
<1>6. /\ HeadState' = HeadState /\ HeadFiles' = HeadFiles
      /\ work' = work /\ staging' = staging
      <2>1. UNCHANGED <<refs, head, work, staging>>
            BY DEF WriteTimeline
      <2>2. HeadState' = HeadState
            BY <2>1 DEF HeadState
      <2>3. HeadState \in DOMAIN commit
            BY DEF HeldInv, RepoInv, TypeOK, TipsInv
      <2>4. commit'[HeadState] = commit[HeadState]
            BY <1>2, <2>3
      <2>5. QED
            BY <2>1, <2>2, <2>4 DEF HeadFiles, FilesOf
<1>7. Staged' = Staged /\ TreeClean' = TreeClean
      BY <1>6 DEF Staged, TreeClean
<1>8. QED
      BY <1>1, <1>3, <1>4, <1>5, <1>6, <1>7
      DEF Flight, ChildOfHead, HasEntry, Indexed, Aimed, Forward, CleanTree, Onward,
          StagingSpared, Finishing, Creates

LEMMA WriteTreeFlight ==
    ASSUME HeldInv, NEW p \in Proc, WriteTree(p)
    PROVE  Flight(cmd[p], pc[p])'
<1>1. Flight(cmd[p], "tree")
      BY DEF HeldInv, WriteTree
<1>2. pc'[p] = "index" /\ cmd' = cmd
      BY AdvancePc DEF HeldInv, RepoInv, WriteTree, Follow
<1>3. /\ HeadState' = HeadState /\ Parents' = Parents /\ commit' = commit
      /\ refs' = refs /\ staging' = staging
      BY SameHead DEF WriteTree
<1>4. Staged' = Staged
      BY <1>3 DEF Staged
<1>5. QED
      BY <1>1, <1>2, <1>3, <1>4
      DEF Flight, ChildOfHead, HasEntry, Indexed, Aimed, Forward, CleanTree, Onward,
          StagingSpared, Finishing, Creates

LEMMA WriteIndexFlight ==
    ASSUME HeldInv, NEW p \in Proc, WriteIndex(p)
    PROVE  Flight(cmd[p], pc[p])'
<1>1. Flight(cmd[p], "index")
      BY DEF HeldInv, WriteIndex
<1>2. pc'[p] = "staging" /\ cmd' = cmd
      BY AdvancePc DEF HeldInv, RepoInv, WriteIndex, Follow
<1>3. /\ HeadState' = HeadState /\ Parents' = Parents /\ commit' = commit
      /\ refs' = refs /\ staging' = staging
      BY SameHead DEF WriteIndex
<1>4. Staged' = Staged
      BY <1>3 DEF Staged
<1>5. IndexAt(cmd[p].target)'
      BY <1>2, <1>3 DEF WriteIndex, IndexAt, FilesOf
<1>6. QED
      BY <1>1, <1>2, <1>3, <1>4, <1>5
      DEF Flight, ChildOfHead, HasEntry, Indexed, Aimed, Forward, CleanTree, Onward,
          StagingSpared, Finishing, Creates

LEMMA ClearStagingFlight ==
    ASSUME HeldInv, NEW p \in Proc, ClearStaging(p)
    PROVE  Flight(cmd[p], pc[p])' /\ Staged' = {}
<1>1. Flight(cmd[p], "staging")
      BY DEF HeldInv, ClearStaging
<1>2. pc'[p] = "ref" /\ cmd' = cmd
      BY AdvancePc DEF HeldInv, RepoInv, ClearStaging, Follow
<1>3. /\ HeadState' = HeadState /\ Parents' = Parents /\ commit' = commit
      /\ refs' = refs /\ index' = index
      BY SameHead DEF ClearStaging
<1>4. Staged' = {}
      BY DEF Staged, ClearStaging, Unstaged
<1>5. IndexAt(cmd[p].target) => IndexAt(cmd[p].target)'
      BY <1>2, <1>3 DEF IndexAt, FilesOf
<1>6. QED
      BY <1>1, <1>2, <1>3, <1>4, <1>5
      DEF Flight, ChildOfHead, HasEntry, Indexed, Aimed, Forward, CleanTree, Onward,
          StagingSpared, Finishing, Creates

\* A command that starts takes what it found along.
LEMMA BeginFlight ==
    ASSUME RepoInv, NEW p \in Proc, NEW c, NEW first, Flight(c, first), Begin(p, c, first)
    PROVE  Flight(cmd[p], pc[p])'
<1>1. cmd'[p] = c /\ pc'[p] = first
      BY DEF Begin, RepoInv, TypeOK
<1>2. /\ HeadState' = HeadState /\ HeadFiles' = HeadFiles /\ Parents' = Parents
      /\ UNCHANGED <<commit, refs, index, work, staging>>
      BY SameHead DEF Begin, stores
<1>3. Staged' = Staged /\ TreeClean' = TreeClean
      BY <1>2 DEF Staged, TreeClean
<1>4. IndexAt(c.target)' = IndexAt(c.target)
      BY <1>2 DEF IndexAt, FilesOf
<1>5. QED
      BY <1>1, <1>2, <1>3, <1>4
      DEF Flight, ChildOfHead, HasEntry, Indexed, Aimed, Forward, CleanTree, Onward,
          StagingSpared, Finishing, Creates

LEMMA NoneInFlight ==
    ASSUME AlwaysNoVerify, RepoInv, holder = NoProc
    PROVE  \A p \in Proc : pc[p] = "idle"
BY Alone, RepoAssumption

\* The step of a command, its last one aside.
LEMMA RunFlight ==
    ASSUME HeldInv, NEW p \in Proc, Run(p), ~WriteRef(p)
    PROVE  /\ Flight(cmd[p], pc[p])' /\ ActiveInv'
           /\ pc[p] # "idle" /\ \A q \in Proc \ {p} : pc'[q] = pc[q]
<1>1. ~Resume(p)
      BY DEF Resume, HeldInv, Flight, ChildOfHead
<1>2. Flight(cmd[p], pc[p])'
      BY <1>1, FinishGuardFlight, WriteBlobsFlight, WriteTimelineFlight, WriteTreeFlight,
         WriteIndexFlight, ClearStagingFlight DEF Run
<1>3. Advance(p) /\ pc[p] \notin {"idle", "ref"}
      BY <1>1 DEF Run, FinishGuard, WriteBlobs, WriteTimeline, WriteTree, WriteIndex,
                  ClearStaging
<1>4. \A q \in Proc \ {p} : pc'[q] = pc[q]
      BY <1>3, AdvancePc DEF HeldInv, RepoInv
<1>5. ActiveInv'
      <2>1. CASE ClearStaging(p)
            BY <2>1, ClearStagingFlight DEF ActiveInv
      <2>2. CASE ~ClearStaging(p)
            <3>1. staging' = staging
                  BY <1>1, <2>2 DEF Run, FinishGuard, WriteBlobs, WriteTimeline, WriteTree,
                                    WriteIndex, stores
            <3>2. QED
                  BY <3>1 DEF HeldInv, ActiveInv, Staged
      <2>3. QED
            BY <2>1, <2>2
<1>6. QED
      BY <1>2, <1>3, <1>4, <1>5

\* A step after which no command is in flight.
LEMMA RestInv ==
    ASSUME ActiveInv, staging' = staging
    PROVE  ActiveInv'
BY DEF ActiveInv, Staged

LEMMA HeldInit ==
    ASSUME Init
    PROVE  HeldInv
<1>1. ActiveInv
      BY DEF Init, ActiveInv, Staged, Unstaged
<1>2. \A p \in Proc : pc[p] = "idle"
      BY DEF Init
<1>3. QED
      BY <1>1, <1>2, InitInv DEF HeldInv

LEMMA HeldNext ==
    ASSUME Guarded, HeldInv, [Next]_vars
    PROVE  HeldInv'
<1>. DEFINE Flights == \A p \in Proc : pc[p] # "idle" => Flight(cmd[p], pc[p])
<1>0. /\ AlwaysNoVerify /\ GcKeepsHistory
      /\ RepoInv /\ ActiveInv /\ Flights
      BY DEF Guarded, GcKeepsHistory, HeldInv
<1>1. RepoInv'
      BY <1>0, NextInv
<1>2. ASSUME NEW p \in Proc, Start(p) PROVE ActiveInv' /\ Flights'
      <2>1. PICK c, first : Flight(c, first) /\ Begin(p, c, first)
            BY <1>0, <1>2, StartFlight
      <2>2. Flight(cmd[p], pc[p])'
            BY <1>0, <2>1, BeginFlight
      <2>3. \A q \in Proc \ {p} : pc'[q] = "idle"
            BY <1>0, <1>2, <2>1, NoneInFlight DEF Start, Free, Begin, RepoInv, TypeOK
      <2>4. staging' = staging
            BY <2>1 DEF Begin, stores
      <2>5. Flights'
            BY <2>2, <2>3
      <2>6. QED
            BY <1>0, <2>4, <2>5, RestInv
<1>3. ASSUME NEW p \in Proc, Run(p), ~WriteRef(p) PROVE ActiveInv' /\ Flights'
      <2>1. /\ Flight(cmd[p], pc[p])' /\ ActiveInv' /\ pc[p] # "idle"
            /\ \A q \in Proc \ {p} : pc'[q] = pc[q]
            BY <1>3, RunFlight
      <2>2. \A q \in Proc \ {p} : pc'[q] = "idle"
            BY <1>0, <2>1, Alone
      <2>3. QED
            BY <2>1, <2>2
<1>4. ASSUME NEW p \in Proc, WriteRef(p) \/ Stop(p) PROVE ActiveInv' /\ Flights'
      <2>1. pc[p] # "idle" /\ pc' = [pc EXCEPT ![p] = "idle"] /\ staging' = staging
            BY <1>4 DEF WriteRef, Stop
      <2>2. \A q \in Proc : pc'[q] = "idle"
            BY <1>0, <2>1, Alone DEF RepoInv, TypeOK
      <2>3. QED
            BY <1>0, <2>1, <2>2, RestInv
<1>5. ASSUME NEW paths \in SUBSET Path, Add(paths) PROVE ActiveInv' /\ Flights'
      <2>1. \A p \in Proc : pc'[p] = "idle"
            BY <1>0, <1>5, NoneInFlight DEF Add
      <2>2. staging'.active
            BY <1>5 DEF Add
      <2>3. QED
            BY <2>1, <2>2 DEF ActiveInv
<1>6. ASSUME \/ \E r \in Ref, s \in Resolvable : CreateRef(r, s)
             \/ \E r \in Ref : RemoveRef(r)
             \/ \E mode \in GcModes : Gc(mode)
      PROVE  ActiveInv' /\ Flights'
      <2>1. holder = NoProc /\ pc' = pc /\ staging' = staging
            BY <1>6 DEF CreateRef, RemoveRef, Gc
      <2>2. \A p \in Proc : pc'[p] = "idle"
            BY <1>0, <2>1, NoneInFlight
      <2>3. QED
            BY <1>0, <2>1, <2>2, RestInv
<1>7. ASSUME NEW q \in Path, NEW content \in Content \cup {Absent}, UserEdit(q, content)
      PROVE  ActiveInv' /\ Flights'
      <2>1. \A p \in Proc : pc[p] = "idle"
            BY <1>0, <1>7 DEF UserEdit, Flight, ChildOfHead
      <2>2. QED
            BY <1>0, <1>7, <2>1, RestInv DEF UserEdit
<1>8. ASSUME UNCHANGED vars PROVE ActiveInv' /\ Flights'
      <2>1. UNCHANGED <<commit, refs, head, index, staging, work, pc, cmd>>
            BY <1>8 DEF vars, stores
      <2>2. /\ HeadState' = HeadState /\ Parents' = Parents /\ Staged' = Staged
            /\ TreeClean' = TreeClean
            BY <2>1, SameHead DEF Staged, TreeClean
      <2>3. \A s : IndexAt(s)' = IndexAt(s)
            BY <2>1 DEF IndexAt, FilesOf
      <2>4. Flights'
            BY <1>0, <2>1, <2>2, <2>3
            DEF Flight, ChildOfHead, HasEntry, Indexed, Aimed, Forward, CleanTree, Onward,
                StagingSpared, Finishing, Creates
      <2>5. QED
            BY <1>0, <2>1, <2>4, RestInv
<1>9. ActiveInv' /\ Flights'
      BY <1>2, <1>3, <1>4, <1>5, <1>6, <1>7, <1>8 DEF Next, Run
<1>10. QED
      BY <1>1, <1>9 DEF HeldInv

LEMMA HeldAlways ==
    ASSUME Guarded
    PROVE  Spec => []HeldInv
<1>1. Init => HeldInv
      BY HeldInit
<1>2. HeldInv /\ [Next]_vars => HeldInv'
      BY HeldNext
<1>3. QED
      BY <1>1, <1>2, PTL DEF Spec

-----------------------------------------------------------------------------
(* What a step may do. *)

\* The only step of a command that moves HEAD or a ref.
LEMMA TargetOfRef ==
    ASSUME Guarded, HeldInv, NEW p \in Proc, WriteRef(p)
    PROVE  /\ HeadState' = cmd[p].target
           /\ Indexed(cmd[p], "ref") /\ HasEntry(cmd[p], "ref") /\ Forward(cmd[p])
           /\ \A b \in Branch : refs'[b] # refs[b] =>
                 /\ cmd[p].kind # "checkout"
                 /\ b = head /\ refs'[b] = cmd[p].target
<1>1. pc[p] = "ref" /\ Flight(cmd[p], "ref")
      BY DEF HeldInv, WriteRef
<1>2. cmd[p].target \in State /\ cmd[p].target \notin Branch
      BY <1>1, RepoAssumption DEF HeldInv, RepoInv, FlightInv, Finishing, TypeOK
<1>3. CASE cmd[p].kind = "checkout"
      <2>1. head' = cmd[p].dest /\ refs' = refs
            BY <1>3 DEF WriteRef
      <2>2. cmd[p].target = IF cmd[p].dest \in Branch THEN refs[cmd[p].dest] ELSE cmd[p].dest
            BY <1>1, <1>3 DEF Flight, Aimed
      <2>3. QED
            BY <1>1, <2>1, <2>2 DEF HeadState, Flight
<1>4. CASE cmd[p].kind # "checkout" /\ head \in Branch
      <2>1. refs' = [refs EXCEPT ![head] = cmd[p].target] /\ head' = head
            BY <1>4 DEF WriteRef
      <2>2. DOMAIN refs = Ref /\ head \in Ref /\ Branch \subseteq Ref
            BY <1>4 DEF HeldInv, RepoInv, TypeOK, Ref
      <2>3. QED
            BY <1>1, <1>4, <2>1, <2>2 DEF HeadState, Flight
<1>5. CASE cmd[p].kind # "checkout" /\ head \notin Branch
      <2>1. head' = cmd[p].target /\ refs' = refs
            BY <1>5 DEF WriteRef
      <2>2. QED
            BY <1>1, <1>2, <2>1 DEF HeadState, Flight
<1>6. QED
      BY <1>3, <1>4, <1>5

\* The steps that write a ref are few, and those of one-step commands leave HEAD alone.
LEMMA WhoMovesRefs ==
    ASSUME Guarded, HeldInv, [Next]_vars
    PROVE  \/ \E p \in Proc : WriteRef(p)
           \/ \E r \in Ref, s \in timeline : CreateRef(r, s) /\ HeadState' = HeadState
           \/ \E r \in Ref : RemoveRef(r) /\ HeadState' = HeadState
           \/ refs' = refs /\ head' = head /\ HeadState' = HeadState
<1>1. CASE refs' = refs /\ head' = head
      BY <1>1 DEF HeadState
<1>2. ASSUME NEW r \in Ref, NEW s \in Resolvable, CreateRef(r, s)
      PROVE  s \in timeline /\ HeadState' = HeadState
      <2>1. HeadState \in timeline /\ head \in Branch => refs[head] # NoState
            BY RepoAssumption DEF HeldInv, RepoInv, TipsInv, HeadState, TypeOK
      <2>2. HeadState # NoState
            BY RepoAssumption DEF HeldInv, RepoInv, TipsInv, TypeOK
      <2>3. QED
            BY <1>2, <2>2, ResolvableKnown DEF CreateRef, HeadState, HeldInv, RepoInv, TypeOK
<1>3. ASSUME NEW r \in Ref, RemoveRef(r)
      PROVE  HeadState' = HeadState
      BY <1>3 DEF RemoveRef, HeadState, HeldInv, RepoInv, TypeOK
<1>4. ASSUME NEW p \in Proc, Start(p) PROVE refs' = refs /\ head' = head
      <2>1. \E c, first : Begin(p, c, first)
            BY <1>4, StartPlanned DEF HeldInv, RepoInv
      <2>2. QED
            BY <2>1 DEF Begin, stores
<1>5. ASSUME NEW p \in Proc, Run(p), ~WriteRef(p) PROVE refs' = refs /\ head' = head
      BY <1>5 DEF Run, Resume, FinishGuard, WriteBlobs, WriteTimeline, WriteTree, WriteIndex,
                  ClearStaging, stores
<1>6. ASSUME \/ \E p \in Proc : Stop(p)
             \/ \E paths \in SUBSET Path : Add(paths)
             \/ \E mode \in GcModes : Gc(mode)
             \/ \E q \in Path, content \in Content \cup {Absent} : UserEdit(q, content)
             \/ UNCHANGED vars
      PROVE  refs' = refs /\ head' = head
      BY <1>6 DEF Stop, Add, Gc, UserEdit, vars, stores
<1>7. QED
      BY <1>1, <1>2, <1>3, <1>4, <1>5, <1>6 DEF Next

\* HEAD comes to stand on a state only when index.json is at it, so that stopping a
\* command early leaves HEAD on the state it started from; reset --soft excepted.
THEOREM HeadMovesLast ==
    ASSUME Guarded
    PROVE  Spec => RefsAdvanceLast
<1>1. HeldInv /\ [Next]_vars =>
         (HeadState' # HeadState =>
             \/ IndexAt(HeadState')
             \/ \E p \in Proc : cmd[p].kind = "soft" /\ pc[p] = "ref")
      <2>1. SUFFICES ASSUME HeldInv, [Next]_vars, HeadState' # HeadState
                     PROVE  \/ IndexAt(HeadState')
                            \/ \E p \in Proc : cmd[p].kind = "soft" /\ pc[p] = "ref"
            OBVIOUS
      <2>2. PICK p \in Proc : WriteRef(p)
            BY <2>1, WhoMovesRefs
      <2>3. HeadState' = cmd[p].target /\ Indexed(cmd[p], "ref")
            BY <2>1, <2>2, TargetOfRef
      <2>4. QED
            BY <2>2, <2>3 DEF Indexed, WriteRef
<1>2. QED
      BY <1>1, HeldAlways, PTL DEF Spec, RefsAdvanceLast

\* No commit, merge or cherry-pick drops a state from a branch: what it moves the branch
\* to is a child of the state it stood on, or a descendant the merge found.
THEOREM BranchesMoveForward ==
    ASSUME Guarded
    PROVE  Spec => BranchesGoForward
<1>. DEFINE Step1 == \A b \in Branch :
               refs[b] # NoState /\ refs'[b] \notin {NoState, refs[b]} =>
                  \/ IsAncestorOf(Parents, refs[b], refs'[b])
                  \/ \E p \in Proc : /\ pc[p] = "ref" /\ pc'[p] = "idle"
                                     /\ cmd[p].kind \in {"soft", "mixed", "hard", "revert"}
<1>1. HeldInv /\ [Next]_vars => Step1
      <2>1. SUFFICES ASSUME HeldInv, [Next]_vars, NEW b \in Branch,
                            refs[b] # NoState, refs'[b] \notin {NoState, refs[b]}
                     PROVE  \/ IsAncestorOf(Parents, refs[b], refs'[b])
                            \/ \E p \in Proc :
                                  /\ pc[p] = "ref" /\ pc'[p] = "idle"
                                  /\ cmd[p].kind \in {"soft", "mixed", "hard", "revert"}
            OBVIOUS
      <2>2. PICK p \in Proc : WriteRef(p)
            BY <2>1, WhoMovesRefs DEF CreateRef, RemoveRef, HeldInv, RepoInv, TypeOK, Ref
      <2>. DEFINE c == cmd[p]
      <2>3. /\ c.kind # "checkout" /\ b = head /\ refs'[b] = c.target
            /\ HasEntry(c, "ref") /\ Forward(c)
            BY <2>1, <2>2, TargetOfRef
      <2>4. pc[p] = "ref" /\ pc'[p] = "idle"
            BY <2>1, <2>2 DEF WriteRef, HeldInv, RepoInv, TypeOK
      <2>5. ChildOfHead(c, "ref")
            BY <2>1, <2>4 DEF HeldInv, Flight
      <2>6. refs[b] = HeadState
            BY <2>3 DEF HeadState
      <2>7. c.target \in State /\ c.target \in DOMAIN commit
            BY <2>1, <2>4 DEF HeldInv, RepoInv, FlightInv, Finishing, TypeOK
      <2>8. CASE Creates(c)
            <3>1. commit[c.target].parents = c.parents /\ HeadState \in c.parents
                  BY <2>3, <2>5, <2>8 DEF HasEntry, ChildOfHead, Finishing
            <3>2. HeadState \in Parents[c.target]
                  BY <2>7, <3>1 DEF Parents
            <3>3. IsAncestorOf(Parents, HeadState, c.target)
                  BY <2>1, <2>7, <3>2, ParentsType, ParentIsAncestor DEF HeldInv, RepoInv
            <3>4. QED
                  BY <2>3, <2>6, <3>3
      <2>9. CASE ~Creates(c)
            <3>1. c.kind \notin {"commit", "pick"}
                  BY <2>5, <2>9 DEF ChildOfHead
            <3>2. c.kind \in Kinds
                  BY <2>5 DEF ChildOfHead
            <3>3. QED
                  BY <2>3, <2>4, <2>6, <2>9, <3>1, <3>2 DEF Forward, Kinds
      <2>10. QED
            BY <2>8, <2>9
<1>2. QED
      BY <1>1, HeldAlways, PTL DEF Spec, BranchesGoForward

\* Without --force no command writes over or removes a file that HEAD does not hold: the
\* tree it found clean is still the same tree when it gets there (materialize_guard).
THEOREM EditsSurvive ==
    ASSUME Guarded
    PROVE  Spec => NoSilentDiscard
<1>1. HeldInv =>
         \A p \in Proc, q \in Path :
            /\ pc[p] = "tree" /\ work'[q] # work[q]
            /\ ~cmd[p].force /\ cmd[p].target # HeadState
            => work[q] \in {HeadFiles[q], Absent}
      BY DEF HeldInv, Flight, CleanTree, Onward, TreeClean
<1>2. QED
      BY <1>1, HeldAlways, PTL DEF Spec, NoSilentDiscard

\* A staged path leaves the staging index with the commit that records it, with --force or
\* reset --mixed, or where the tree goes back to HEAD: what a command clears, it checked,
\* or recorded, and nobody staged anything since (clear_staging_entries).
THEOREM StagingSurvives ==
    ASSUME Guarded
    PROVE  Spec => StagedWorkKept
<1>. DEFINE Leaves(q) == staging.entries[q] # NotStaged /\ staging'.entries[q] = NotStaged
            By(p, q) == /\ pc[p] = "staging"
                        /\ \/ cmd[p].kind = "mixed" \/ cmd[p].force
                           \/ cmd[p].target = HeadState
                           \/ cmd[p].kind = "commit"
                              /\ FilesOf(cmd[p].target)[q] = staging.entries[q]
<1>1. HeldInv /\ [Next]_vars =>
         \A q \in Path : Leaves(q) => \E p \in Proc : By(p, q)
      <2>1. SUFFICES ASSUME HeldInv, [Next]_vars, NEW q \in Path, Leaves(q)
                     PROVE  \E p \in Proc : By(p, q)
            OBVIOUS
      <2>2. ~ \E paths \in SUBSET Path : Add(paths)
            BY <2>1, RepoAssumption DEF Add, HeldInv, RepoInv, TypeOK, Files
      <2>3. ASSUME NEW p \in Proc, Start(p) PROVE staging' = staging
            <3>1. \E c, first : Begin(p, c, first)
                  BY <2>1, <2>3, StartPlanned DEF HeldInv, RepoInv
            <3>2. QED
                  BY <3>1 DEF Begin, stores
      <2>4. ASSUME NEW p \in Proc, Run(p), ~ClearStaging(p) PROVE staging' = staging
            BY <2>4 DEF Run, Resume, FinishGuard, WriteBlobs, WriteTimeline, WriteTree,
                        WriteIndex, WriteRef, stores
      <2>5. ASSUME \/ \E p \in Proc : Stop(p)
                   \/ \E r \in Ref, s \in Resolvable : CreateRef(r, s)
                   \/ \E r \in Ref : RemoveRef(r)
                   \/ \E mode \in GcModes : Gc(mode)
                   \/ \E r \in Path, content \in Content \cup {Absent} : UserEdit(r, content)
                   \/ UNCHANGED vars
            PROVE  staging' = staging
            BY <2>5 DEF Stop, CreateRef, RemoveRef, Gc, UserEdit, vars, stores
      <2>6. PICK p \in Proc : ClearStaging(p)
            BY <2>1, <2>2, <2>3, <2>4, <2>5 DEF Next
      <2>7. pc[p] = "staging" /\ Flight(cmd[p], "staging") /\ q \in Staged
            BY <2>1, <2>6 DEF HeldInv, ClearStaging, Staged
      <2>8. CASE /\ cmd[p].kind = "commit"
                 /\ \A r \in Staged : cmd[p].files[r] = staging.entries[r]
            <3>1. commit[cmd[p].target].files = cmd[p].files
                  BY <2>7, <2>8 DEF Flight, ChildOfHead, HasEntry, Finishing
            <3>2. QED
                  BY <2>7, <2>8, <3>1 DEF FilesOf
      <2>9. QED
            BY <2>7, <2>8 DEF Flight, StagingSpared, Onward
<1>2. QED
      BY <1>1, HeldAlways, PTL DEF Spec, StagedWorkKept

-----------------------------------------------------------------------------
(* Repo implements BranchLog. *)

\* The history, as BranchLog sees it.
LogHistory == [s \in timeline |-> commit[s].parents]

LEMMA LogStutter ==
    ASSUME UNCHANGED <<timeline, refs, head>>, \A s \in timeline : commit'[s] = commit[s]
    PROVE  UNCHANGED Log!logVars
BY DEF Log!logVars

LEMMA LogInit ==
    ASSUME Init
    PROVE  Log!Init
BY RepoAssumption DEF Init, Log!Init, Ref

LEMMA LogCurTip == Log!CurTip = HeadState
BY DEF Log!CurTip, HeadState

\* persist_state records a child of HEAD, or a state that is there already.
LEMMA LogWriteTimeline ==
    ASSUME HeldInv, NEW p \in Proc, WriteTimeline(p)
    PROVE  [Log!Next]_(Log!logVars)
<1>. DEFINE entry == [parents |-> cmd[p].parents, files |-> cmd[p].files]
<1>1. PICK s \in State :
            /\ s \in DOMAIN commit => commit[s] = entry
            /\ commit' = [t \in DOMAIN commit \cup {s} |->
                             IF t = s THEN entry ELSE commit[t]]
            /\ timeline' = timeline \cup {s}
      BY DEF WriteTimeline
<1>2. UNCHANGED <<refs, head>>
      BY DEF WriteTimeline
<1>3. timeline \subseteq DOMAIN commit
      BY DEF HeldInv, RepoInv, TypeOK
<1>4. \A t \in timeline : commit'[t] = commit[t]
      BY <1>1, <1>3
<1>5. CASE s \in timeline
      BY <1>1, <1>2, <1>4, <1>5, LogStutter
<1>6. CASE s \notin timeline
      <2>1. pc[p] = "timeline" /\ Flight(cmd[p], "timeline")
            BY DEF HeldInv, WriteTimeline
      <2>2. PICK P \in SUBSET timeline : P = cmd[p].parents /\ HeadState \in P
            BY <2>1 DEF Flight, ChildOfHead, HeldInv, RepoInv, FlightInv, Planning
      <2>3. LogHistory' = [t \in timeline' |-> IF t = s THEN P ELSE LogHistory[t]]
            BY <1>1, <1>3, <1>4, <2>2 DEF LogHistory
      <2>4. Log!Learn(s, P)
            BY <1>1, <1>2, <1>6, <2>2, <2>3, LogCurTip DEF Log!Learn, LogHistory
      <2>5. QED
            BY <2>2, <2>4 DEF Log!Next
<1>7. QED
      BY <1>5, <1>6

\* The last step of a command moves HEAD's branch, or HEAD.
LEMMA LogWriteRef ==
    ASSUME HeldInv, NEW p \in Proc, WriteRef(p)
    PROVE  Log!Next
<1>. DEFINE c == cmd[p]
<1>1. pc[p] = "ref" /\ Flight(c, "ref") /\ UNCHANGED <<commit, timeline>>
      BY DEF HeldInv, WriteRef
<1>2. c.target \in timeline
      BY <1>1 DEF HeldInv, RepoInv, FlightInv, Finishing
<1>3. CASE c.kind = "checkout"
      <2>1. head' = c.dest /\ refs' = refs
            BY <1>3 DEF WriteRef
      <2>2. \/ c.dest \in Branch /\ refs[c.dest] # NoState
            \/ c.dest \in timeline
            BY <1>1, <1>2, <1>3 DEF HeldInv, RepoInv, FlightInv
      <2>3. Log!Switch(c.dest)
            BY <1>1, <2>1, <2>2 DEF Log!Switch
      <2>4. QED
            BY <2>2, <2>3 DEF Log!Next
<1>4. CASE c.kind # "checkout"
      <2>1. Log!Move(c.target)
            BY <1>1, <1>2, <1>4 DEF WriteRef, Log!Move
      <2>2. QED
            BY <1>2, <2>1 DEF Log!Next
<1>5. QED
      BY <1>3, <1>4

\* gc forgets what neither a ref nor a state that stays needs.
LEMMA LogGc ==
    ASSUME Guarded, HeldInv, NEW mode \in GcModes, Gc(mode)
    PROVE  Log!Next
<1>. DEFINE reach == Reachable(Parents, Tips) \cup {Root}
<1>1. RepoInv /\ RepoInv' /\ UNCHANGED <<commit, refs, head>> /\ timeline' \subseteq timeline
      BY GcInv DEF Guarded, GcKeepsHistory, HeldInv, Gc
<1>2. \A s \in timeline' : s \in DOMAIN commit /\ LogHistory[s] \subseteq timeline'
      BY <1>1 DEF RepoInv, TypeOK, TimelineInv, ParentClosed, Parents, LogHistory
<1>3. Log!Tips \subseteq timeline'
      <2>1. HeadState' = HeadState
            BY <1>1 DEF HeadState
      <2>2. \A r \in Branch \cup Tag : refs[r] = NoState \/ refs[r] \in timeline'
            BY <1>1 DEF RepoInv, TipsInv, Ref
      <2>3. HeadState \in timeline'
            BY <1>1, <2>1 DEF RepoInv, TipsInv
      <2>4. QED
            BY <2>2, <2>3, LogCurTip DEF Log!Tips
<1>4. LogHistory' = [s \in timeline' |-> LogHistory[s]]
      BY <1>1 DEF LogHistory
<1>5. PICK kept \in SUBSET timeline : kept = timeline'
      BY <1>1
<1>6. Log!Forget(kept)
      BY <1>1, <1>2, <1>3, <1>4, <1>5 DEF Log!Forget, LogHistory
<1>7. QED
      BY <1>6 DEF Log!Next

LEMMA LogNext ==
    ASSUME Guarded, HeldInv, [Next]_vars
    PROVE  [Log!Next]_(Log!logVars)
<1>. DEFINE Quiet == UNCHANGED <<commit, timeline, refs, head>>
<1>1. ASSUME Quiet PROVE [Log!Next]_(Log!logVars)
      BY <1>1, LogStutter
<1>2. ASSUME NEW p \in Proc, Start(p) PROVE Quiet
      <2>1. \E c, first : Begin(p, c, first)
            BY <1>2, StartPlanned DEF HeldInv, RepoInv
      <2>2. QED
            BY <2>1 DEF Begin, stores
<1>3. ASSUME NEW p \in Proc, Run(p), ~WriteTimeline(p), ~WriteRef(p) PROVE Quiet
      BY <1>3 DEF Run, Resume, FinishGuard, WriteBlobs, WriteTree, WriteIndex, ClearStaging,
                  stores
<1>4. ASSUME NEW r \in Ref, NEW s \in Resolvable, CreateRef(r, s) PROVE Log!Next
      <2>1. s \in timeline
            BY ResolvableKnown DEF HeldInv, RepoInv
      <2>2. Log!SetRef(r, s)
            BY <1>4, <2>1 DEF CreateRef, Log!SetRef
      <2>3. QED
            BY <2>1, <2>2 DEF Log!Next, Ref
<1>5. ASSUME NEW r \in Ref, RemoveRef(r) PROVE Log!Next
      <2>1. Log!DropRef(r)
            BY <1>5 DEF RemoveRef, Log!DropRef
      <2>2. QED
            BY <2>1 DEF Log!Next, Ref
<1>6. ASSUME \/ \E p \in Proc : Stop(p)
             \/ \E paths \in SUBSET Path : Add(paths)
             \/ \E q \in Path, content \in Content \cup {Absent} : UserEdit(q, content)
             \/ UNCHANGED vars
      PROVE  Quiet
      BY <1>6 DEF Stop, Add, UserEdit, vars, stores
<1>7. QED
      BY <1>1, <1>2, <1>3, <1>4, <1>5, <1>6, LogWriteTimeline, LogWriteRef, LogGc
      DEF Next, Run

\* With the lock held throughout, a repository keeps every promise of BranchLog: its
\* history grows by children of HEAD's state and never loses what a ref needs, a ref names
\* only what is there, and HEAD always has a branch or a state to be at.
THEOREM KeepsBranchLog ==
    ASSUME Guarded
    PROVE  Spec => LogSpec
<1>1. Init => Log!Init
      BY LogInit
<1>2. HeldInv /\ [Next]_vars => [Log!Next]_(Log!logVars)
      BY LogNext
<1>3. QED
      BY <1>1, <1>2, HeldAlways, PTL DEF Spec, LogSpec, Log!Spec

-----------------------------------------------------------------------------
(* What holds although commands lose the lock: any number of them may be   *)
(* writing at once.                                                        *)

\* A merge, revert or cherry-pick without --force, from its last check to the tree.
PastGuard(p) ==
    /\ pc[p] \in {"blobs", "timeline", "tree"}
    /\ cmd[p].kind \in {"merge", "revert", "pick"} /\ ~cmd[p].force

\* Whatever such a command overwrites or removes, and whoever moved HEAD or wrote the tree
\* since its check, is in the store (materialize_guard, finish_merge).
EditsStored ==
    [][\A p \in Proc, q \in Path :
          PastGuard(p) /\ pc[p] = "tree" /\ work'[q] # work[q]
          => work[q] \in blobs' \cup {Absent}]_vars

\* What a check leaves true until the command reaches the tree.
TreeStored == \A p \in Proc : PastGuard(p) => Contents(work) \subseteq blobs

\* As much of a command's type as that needs.
Fields(c) == c = [x \in DOMAIN NoCmd |-> c[x]]
CmdFields == cmd = [p \in Proc |-> cmd[p]] /\ \A p \in Proc : Fields(cmd[p])

\* Only commits and merges run hooks.
HookKinds == \A p \in Proc : pc[p] = "hook" => cmd[p].kind \in {"commit", "merge"}

StoredInv == CmdFields /\ pc \in [Proc -> Step] /\ HookKinds /\ TreeStored

LEMMA NoCmdDomain ==
    DOMAIN NoCmd = {"kind", "parents", "files", "target", "dest", "force", "active"}
BY DEF NoCmd

\* A clean tree is HEAD's, and an unforced guard lets no other pass.
LEMMA GuardStores ==
    ASSUME NEW force, ~force, GuardOK(force, FALSE)
    PROVE  Contents(work) \subseteq blobs
BY DEF GuardOK, StatusOK, TreeClean, Loadable, HeadFiles

\* What a command may start with.
Starts(p, c, first) ==
    /\ Fields(c) /\ first \in Step
    /\ first = "hook" => c.kind \in {"commit", "merge"}
    /\ /\ first \in {"blobs", "timeline", "tree"}
       /\ c.kind \in {"merge", "revert", "pick"} /\ ~c.force
       => Contents(work) \subseteq blobs

LEMMA OntoStarts ==
    ASSUME NEW kind, NEW s, NEW force \in BOOLEAN, NEW first \in Step,
           \/ kind \notin {"merge", "revert", "pick"}
           \/ first \notin {"blobs", "timeline", "tree"}
           \/ GuardOK(force, FALSE),
           first = "hook" => kind = "merge",
           NEW p
    PROVE  Starts(p, Onto(kind, s, force), first)
<1>1. /\ Onto(kind, s, force).kind = kind /\ Onto(kind, s, force).force = force
      /\ Fields(Onto(kind, s, force))
      BY DEF Onto, NoCmd, Fields
<1>2. QED
      BY <1>1, GuardStores DEF Starts

LEMMA RecordingStarts ==
    ASSUME NEW kind, NEW P, NEW f, NEW force \in BOOLEAN, NEW first \in Step,
           \/ kind \notin {"merge", "revert", "pick"}
           \/ first \notin {"blobs", "timeline", "tree"}
           \/ GuardOK(force, FALSE),
           first = "hook" => kind = "merge",
           NEW p
    PROVE  Starts(p, Recording(kind, P, f, force), first)
<1>1. /\ Recording(kind, P, f, force).kind = kind
      /\ Recording(kind, P, f, force).force = force
      /\ Fields(Recording(kind, P, f, force))
      BY DEF Recording, NoCmd, Fields
<1>2. QED
      BY <1>1, GuardStores DEF Starts

LEMMA StartStarts ==
    ASSUME NEW p \in Proc, Start(p)
    PROVE  \E c, first : Starts(p, c, first) /\ Begin(p, c, first)
<1>. USE OntoStarts, RecordingStarts
<1>0. {"hook", "guard", "blobs", "tree", "index", "ref"} \subseteq Step
      BY DEF Step
<1>1. ASSUME Commit(p)
      PROVE  \E c, first : Starts(p, c, first) /\ Begin(p, c, first)
      <2>. DEFINE r == Recording("commit", {HeadState}, CommitFiles, FALSE)
                  c == [r EXCEPT !.active = staging.active]
      <2>1. PICK noVerify \in NoVerify : Begin(p, c, IF noVerify THEN "blobs" ELSE "hook")
            BY <1>1 DEF Commit
      <2>2. Fields(c) /\ c.kind = "commit"
            BY DEF Recording, NoCmd, Fields
      <2>. HIDE DEF c
      <2>3. Starts(p, c, IF noVerify THEN "blobs" ELSE "hook")
            BY <1>0, <2>2 DEF Starts
      <2>4. QED
            BY <2>1, <2>3
<1>2. ASSUME NEW s, NEW force \in BOOLEAN, Merge(p, s, force)
      PROVE  \E c, first : Starts(p, c, first) /\ Begin(p, c, first)
      <2>1. PICK base : \E noVerify \in NoVerify,
                 merged \in ThreeWayMerges(FilesOf(base), HeadFiles, FilesOf(s)) :
               Begin(p, IF base = HeadState
                        THEN Onto("merge", s, force)
                        ELSE Recording("merge", {HeadState, s}, merged, force),
                     IF noVerify THEN "guard" ELSE "hook")
            BY <1>2 DEF Merge
      <2>2. PICK noVerify \in NoVerify,
                 merged \in ThreeWayMerges(FilesOf(base), HeadFiles, FilesOf(s)) :
               Begin(p, IF base = HeadState
                        THEN Onto("merge", s, force)
                        ELSE Recording("merge", {HeadState, s}, merged, force),
                     IF noVerify THEN "guard" ELSE "hook")
            BY <2>1
      <2>. DEFINE first == IF noVerify THEN "guard" ELSE "hook"
      <2>3. first \in Step /\ first \notin {"blobs", "timeline", "tree"}
            BY <1>0
      <2>. HIDE DEF first
      <2>4. /\ Starts(p, Onto("merge", s, force), first)
            /\ Starts(p, Recording("merge", {HeadState, s}, merged, force), first)
            BY <2>3
      <2>5. QED
            BY <2>2, <2>4 DEF first
<1>3. ASSUME NEW dest, NEW force \in BOOLEAN, Checkout(p, dest, force)
      PROVE  \E c, first : Starts(p, c, first) /\ Begin(p, c, first)
      <2>. DEFINE t == IF dest \in Branch THEN refs[dest] ELSE dest
                  c == [Onto("checkout", t, force) EXCEPT !.dest = dest]
      <2>1. Begin(p, c, "tree")
            BY <1>3 DEF Checkout
      <2>2. Fields(c) /\ c.kind = "checkout"
            BY DEF Onto, NoCmd, Fields
      <2>. HIDE DEF c
      <2>3. Starts(p, c, "tree")
            BY <1>0, <2>2 DEF Starts
      <2>4. QED
            BY <2>1, <2>3
<1>4. ASSUME NEW s, ResetSoft(p, s) \/ ResetMixed(p, s)
      PROVE  \E c, first : Starts(p, c, first) /\ Begin(p, c, first)
      <2>1. Starts(p, Onto("soft", s, FALSE), "ref") /\ Starts(p, Onto("mixed", s, FALSE), "index")
            BY <1>0
      <2>2. QED
            BY <1>4, <2>1 DEF ResetSoft, ResetMixed
<1>5. ASSUME NEW s, NEW force \in BOOLEAN, ResetHard(p, s, force)
      PROVE  \E c, first : Starts(p, c, first) /\ Begin(p, c, first)
      <2>1. Starts(p, Onto("hard", s, force), "tree")
            BY <1>0
      <2>2. QED
            BY <1>5, <2>1 DEF ResetHard
<1>6. ASSUME NEW s, NEW force \in BOOLEAN, Revert(p, s, force)
      PROVE  \E c, first : Starts(p, c, first) /\ Begin(p, c, first)
      <2>. DEFINE parent == LinearParent(Parents, s)
      <2>1. PICK f : IF f = FilesOf(parent)
                     THEN Begin(p, Onto("revert", parent, force), "tree")
                     ELSE Begin(p, Recording("revert", {HeadState}, f, force), "blobs")
            BY <1>6 DEF Revert
      <2>2. GuardOK(force, FALSE)
            BY <1>6 DEF Revert
      <2>3. /\ Starts(p, Onto("revert", parent, force), "tree")
            /\ Starts(p, Recording("revert", {HeadState}, f, force), "blobs")
            BY <1>0, <2>2
      <2>4. QED
            BY <2>1, <2>3
<1>7. ASSUME NEW s, NEW force \in BOOLEAN, CherryPick(p, s, force)
      PROVE  \E c, first : Starts(p, c, first) /\ Begin(p, c, first)
      <2>1. PICK f : Begin(p, Recording("pick", {HeadState}, f, force), "blobs")
            BY <1>7 DEF CherryPick
      <2>2. GuardOK(force, FALSE)
            BY <1>7 DEF CherryPick
      <2>3. Starts(p, Recording("pick", {HeadState}, f, force), "blobs")
            BY <1>0, <2>2
      <2>4. QED
            BY <2>1, <2>3
<1>8. QED
      BY <1>1, <1>2, <1>3, <1>4, <1>5, <1>6, <1>7 DEF Start

\* A command that starts has passed its guard, or has not reached it yet.
LEMMA StartStored ==
    ASSUME StoredInv, NEW p \in Proc, Start(p)
    PROVE  StoredInv'
<1>1. PICK c, first : Starts(p, c, first) /\ Begin(p, c, first)
      BY StartStarts
<1>2. /\ pc' = [pc EXCEPT ![p] = first] /\ cmd' = [cmd EXCEPT ![p] = c]
      /\ work' = work /\ blobs' = blobs
      BY <1>1 DEF Begin, stores
<1>3. /\ pc' \in [Proc -> Step] /\ CmdFields'
      /\ pc'[p] = first /\ cmd'[p] = c
      /\ \A q \in Proc \ {p} : pc'[q] = pc[q] /\ cmd'[q] = cmd[q]
      BY <1>1, <1>2 DEF StoredInv, CmdFields, Starts
<1>4. TreeStored'
      BY <1>1, <1>2, <1>3 DEF StoredInv, TreeStored, PastGuard, Starts, Contents
<1>5. HookKinds'
      BY <1>1, <1>3 DEF StoredInv, HookKinds, Starts
<1>6. QED
      BY <1>3, <1>4, <1>5 DEF StoredInv

\* Commands that do not write the tree only add blobs.
LEMMA AdvanceStored ==
    ASSUME StoredInv, NEW p \in Proc, pc[p] \notin {"idle", "ref"}, Advance(p),
           CmdFields', work' = work, blobs \subseteq blobs',
           \A q \in Proc : cmd'[q].kind = cmd[q].kind /\ cmd'[q].force = cmd[q].force,
           PastGuard(p)' => PastGuard(p) \/ Contents(work) \subseteq blobs
    PROVE  StoredInv'
<1>1. Follow(cmd[p], pc[p]) \in Step \ {"hook"}
      BY FollowType DEF StoredInv, Follow, Step
<1>2. /\ pc' \in [Proc -> Step] /\ pc'[p] # "hook"
      /\ \A q \in Proc \ {p} : pc'[q] = pc[q]
      BY <1>1 DEF StoredInv, Advance
<1>3. TreeStored'
      BY <1>2 DEF StoredInv, TreeStored, PastGuard, Contents
<1>4. HookKinds'
      BY <1>2 DEF StoredInv, HookKinds
<1>5. QED
      BY <1>2, <1>3, <1>4 DEF StoredInv

\* What is written into the tree comes from the store.
LEMMA TreeFromStore ==
    ASSUME NEW f, Contents(f) \subseteq blobs, Contents(work) \subseteq blobs,
           NEW removed, NEW written
    PROVE  Contents(Materialized(f, removed, written)) \subseteq blobs
BY DEF Contents, Materialized

\* A running command does not put into the tree what the store has not.
LEMMA RunStored ==
    ASSUME StoredInv, NEW p \in Proc, Run(p)
    PROVE  StoredInv'
<1>. USE DEF StoredInv
<1>1. ASSUME Resume(p) PROVE StoredInv'
      <2>1. ~PastGuard(p)'
            BY <1>1 DEF HookKinds, Resume, Advance, Follow, PastGuard, stores
      <2>2. QED
            BY <1>1, <2>1, AdvanceStored DEF Resume, stores, CmdFields
<1>2. ASSUME FinishGuard(p) PROVE StoredInv'
      <2>1. PastGuard(p)' => Contents(work) \subseteq blobs
            <3>1. GuardOK(cmd[p].force, FALSE) /\ cmd' = cmd
                  BY <1>2 DEF FinishGuard
            <3>2. ASSUME ~cmd[p].force PROVE Contents(work) \subseteq blobs
                  BY <3>1, <3>2 DEF GuardOK, StatusOK, TreeClean, Loadable, HeadFiles
            <3>3. QED
                  BY <3>1, <3>2, Zenon DEF PastGuard
      <2>2. QED
            BY <1>2, <2>1, AdvanceStored DEF FinishGuard, stores, CmdFields
<1>3. ASSUME WriteBlobs(p) PROVE StoredInv'
      BY <1>3, AdvanceStored DEF WriteBlobs, CmdFields, PastGuard
<1>4. ASSUME WriteTimeline(p) PROVE StoredInv'
      <2>1. PICK s \in State : cmd' = [cmd EXCEPT ![p].target = s]
            BY <1>4 DEF WriteTimeline
      <2>2. /\ \A q \in Proc : Fields(cmd'[q])
            /\ \A q \in Proc : cmd'[q].kind = cmd[q].kind /\ cmd'[q].force = cmd[q].force
            BY <2>1, NoCmdDomain DEF CmdFields, Fields
      <2>3. CmdFields'
            BY <2>1, <2>2 DEF CmdFields
      <2>4. QED
            BY <1>4, <2>2, <2>3, AdvanceStored DEF WriteTimeline, PastGuard
<1>5. ASSUME WriteTree(p) PROVE StoredInv'
      <2>1. /\ Follow(cmd[p], pc[p]) = "index"
            /\ pc' = [pc EXCEPT ![p] = "index"]
            /\ cmd' = cmd /\ blobs' = blobs
            BY <1>5 DEF WriteTree, Advance, Follow
      <2>2. Contents(work) \subseteq blobs => Contents(work') \subseteq blobs
            BY <1>5, TreeFromStore DEF WriteTree, Loadable
      <2>3. QED
            BY <2>1, <2>2 DEF TreeStored, HookKinds, PastGuard, CmdFields, Step, Contents
<1>6. ASSUME WriteIndex(p) \/ ClearStaging(p) PROVE StoredInv'
      <2>1. ~PastGuard(p)'
            BY <1>6 DEF WriteIndex, ClearStaging, Advance, Follow, PastGuard
      <2>2. QED
            BY <1>6, <2>1, AdvanceStored DEF WriteIndex, ClearStaging, CmdFields
<1>7. ASSUME WriteRef(p) PROVE StoredInv'
      <2>1. /\ pc' = [pc EXCEPT ![p] = "idle"] /\ cmd' = [cmd EXCEPT ![p] = NoCmd]
            /\ work' = work /\ blobs' = blobs
            BY <1>7 DEF WriteRef
      <2>2. Fields(NoCmd)
            BY DEF Fields, NoCmd
      <2>3. QED
            BY <2>1, <2>2 DEF TreeStored, HookKinds, PastGuard, CmdFields, Step, Contents
<1>8. QED
      BY <1>1, <1>2, <1>3, <1>4, <1>5, <1>6, <1>7 DEF Run

\* Nor does one that is stopped while it writes.
LEMMA StopStored ==
    ASSUME StoredInv, NEW p \in Proc, Stop(p)
    PROVE  StoredInv'
<1>1. /\ pc' = [pc EXCEPT ![p] = "idle"] /\ cmd' = [cmd EXCEPT ![p] = NoCmd]
      /\ blobs' = blobs
      BY DEF Stop
<1>2. Fields(NoCmd)
      BY DEF Fields, NoCmd
<1>3. Contents(work) \subseteq blobs => Contents(work') \subseteq blobs
      <2>1. CASE pc[p] = "tree" /\ Loadable(cmd[p].target)
            BY <2>1, TreeFromStore DEF Stop, Interrupted, Loadable
      <2>2. CASE ~(pc[p] = "tree" /\ Loadable(cmd[p].target))
            BY <2>2 DEF Stop
      <2>3. QED
            BY <2>1, <2>2
<1>4. QED
      BY <1>1, <1>2, <1>3
      DEF StoredInv, TreeStored, HookKinds, PastGuard, CmdFields, Step, Contents

LEMMA StoredInit == Init => StoredInv
BY DEF Init, StoredInv, CmdFields, Fields, NoCmd, TreeStored, HookKinds, PastGuard, Step

LEMMA StoredNext ==
    ASSUME GcModes \subseteq {"history"}, StoredInv, [Next]_vars
    PROVE  StoredInv'
<1>1. ASSUME UNCHANGED <<pc, cmd, work>>, blobs \subseteq blobs' PROVE StoredInv'
      BY <1>1 DEF StoredInv, CmdFields, TreeStored, HookKinds, PastGuard, Contents
<1>2. ASSUME \/ \E paths \in SUBSET Path : Add(paths)
             \/ \E r \in Ref, s \in Resolvable : CreateRef(r, s)
             \/ \E r \in Ref : RemoveRef(r)
             \/ \E mode \in GcModes : Gc(mode)
             \/ UNCHANGED vars
      PROVE  StoredInv'
      BY <1>1, <1>2 DEF Add, CreateRef, RemoveRef, Gc, vars, stores
<1>3. ASSUME NEW q \in Path, NEW content, UserEdit(q, content) PROVE StoredInv'
      <2>1. \A p \in Proc : ~PastGuard(p)'
            BY <1>3 DEF UserEdit, PastGuard
      <2>2. QED
            BY <1>3, <2>1 DEF UserEdit, StoredInv, CmdFields, TreeStored, HookKinds
<1>4. QED
      BY <1>2, <1>3, StartStored, RunStored, StopStored DEF Next

\* A merge, revert or cherry-pick that is not forced overwrites and removes nothing that is
\* not in the store, even where the lock was lost at the hooks and others moved HEAD or wrote
\* the tree after its check, as long as gc does not prune blobs.
THEOREM EditsStayStored ==
    ASSUME GcModes \subseteq {"history"}
    PROVE  Spec => EditsStored
<1>1. ASSUME StoredInv, Next
      PROVE  \A p \in Proc, q \in Path :
                PastGuard(p) /\ pc[p] = "tree" /\ work'[q] # work[q]
                => work[q] \in blobs' \cup {Absent}
      <2>1. blobs \subseteq blobs'
            <3>1. ASSUME NEW r \in Proc, Start(r) PROVE blobs' = blobs
                  BY <3>1, StartStarts DEF Begin, stores
            <3>2. ASSUME NEW r \in Proc, Run(r) PROVE blobs \subseteq blobs'
                  BY <3>2 DEF Run, Resume, FinishGuard, WriteBlobs, WriteTimeline, WriteTree,
                              WriteIndex, ClearStaging, WriteRef, stores
            <3>3. QED
                  BY <1>1, <3>1, <3>2
                  DEF Next, Stop, Add, CreateRef, RemoveRef, Gc, UserEdit, vars, stores
      <2>2. QED
            BY <1>1, <2>1 DEF StoredInv, TreeStored, Contents
<1>2. StoredInv /\ [Next]_vars
      => [\A p \in Proc, q \in Path :
             PastGuard(p) /\ pc[p] = "tree" /\ work'[q] # work[q]
             => work[q] \in blobs' \cup {Absent}]_vars
      BY <1>1
<1>3. StoredInv /\ [Next]_vars => StoredInv'
      BY StoredNext
<1>4. QED
      BY <1>2, <1>3, StoredInit, PTL DEF Spec, EditsStored
=============================================================================
