------------------------------- MODULE Peers -------------------------------
(***************************************************************************)
(* Repositories that exchange history: what clients and their server keep, *)
(* and the local commands that change it.  The network commands are in     *)
(* Sync.                                                                   *)
(*                                                                         *)
(* Ids are hashes, so the history that all of them may hold a part of is   *)
(* one constant graph.  Files, index and working tree are left to Repo.    *)
(***************************************************************************)
EXTENDS History, Sequences

CONSTANTS
    Client, Server,    \* repositories: those that run commands, and their remote
    State, Root,       \* commit ids; the id of the empty root state
    ParentsOf,         \* the parents of each state, in the order of its entry
    BlobsOf,           \* the blobs that the manifest of each state names
    Branch, Tag,
    NoState,
    Starts             \* what the repositories hold at first, and what is run

Repos   == Client \cup {Server}
Parents == [s \in State |-> {ParentsOf[s][i] : i \in DOMAIN ParentsOf[s]}]
Pasts   == [s \in State |-> Reachable(Parents, {s})]
Past(s) == Pasts[s]   \* s and its ancestors

ASSUME PeersAssumption ==
    /\ Server \notin Client
    /\ IsFiniteSet(State) /\ Root \in State /\ NoState \notin State
    /\ Branch \cap Tag = {}
    /\ ParentsOf \in [State -> Seq(State)] /\ ParentsOf[Root] = <<>>
    /\ BlobsOf[Root] = {}
    /\ \A s \in State : Root \in Past(s)
    /\ \A start \in Starts :
          /\ start.holds \in [Repos -> SUBSET State]
          /\ start.heads \in [Repos -> [Branch -> State \cup {NoState}]]
          /\ \A r \in Repos :
                /\ ParentClosed(Parents, start.holds[r])
                /\ \A b \in Branch : start.heads[r][b] \in start.holds[r] \cup {NoState}

VARIABLES
    timeline,  \* per repository: the ids that have an entry
    blobs,     \* per repository: the blobs in its store
    heads,     \* per repository: refs/heads
    tags,      \* per repository: refs/tags
    tracking,  \* per client: refs/remotes/origin
    shallow,   \* per client: shallow.json
    uses       \* per repository: the commands that are run in it

peers == <<timeline, blobs, heads, tags, tracking, shallow, uses>>

Blobs == UNION {BlobsOf[s] : s \in State}
Refs(names) == [names -> State \cup {NoState}]
Unset(names) == [n \in names |-> NoState]

\* A path without a repository in it has no timeline.
Present(r) == timeline[r] # {}

\* load_state_files finds the entry and every blob.
Loadable(r, s) == s \in timeline[r] /\ BlobsOf[s] \subseteq blobs[r]

\* What branches and tags name, and with remote-tracking refs (ref_tips).
OwnTips(r) == ({heads[r][b] : b \in Branch} \cup {tags[r][t] : t \in Tag}) \ {NoState}
Tips(r) ==
    OwnTips(r) \cup ((IF r \in Client THEN {tracking[r][b] : b \in Branch} ELSE {}) \ {NoState})

\* is_ancestor_of: its walk fails when an entry on the way is missing.
Whole(r, s) == Past(s) \subseteq timeline[r]
IsForward(r, old, new) == old = new \/ (Whole(r, new) /\ old \in Past(new))

\* The links that the walk of merge_base_checked follows in a client: none from a
\* shallow boundary, and none to an entry that is missing.
Known(c) ==
    [s \in State |-> IF s \in timeline[c] \ shallow[c] THEN Parents[s] \cap timeline[c]
                     ELSE {}]

\* merge_base_checked: empty when it reports shallow history.
SharedBases(c, a, b) ==
    IF a = b THEN {a}
    ELSE IF {a, b} \cap shallow[c] # {} THEN {}
    ELSE MergeBases(Known(c), a, b)

-----------------------------------------------------------------------------
\* Recording a state: its blobs, its entry and the branch, with the lock held.
Record(r, b, s) ==
    /\ s \notin UNION {timeline[q] : q \in Repos}
    /\ timeline' = [timeline EXCEPT ![r] = @ \cup {s}]
    /\ blobs' = [blobs EXCEPT ![r] = @ \cup BlobsOf[s]]
    /\ heads' = [heads EXCEPT ![r][b] = s]
    /\ UNCHANGED <<tags, tracking, shallow, uses>>

Commit(r, b) ==
    /\ "commit" \in uses[r] /\ heads[r][b] # NoState /\ Loadable(r, heads[r][b])
    /\ \E s \in State : ParentsOf[s] = <<heads[r][b]>> /\ Record(r, b, s)

\* The merge of pull, and of merge origin/<branch>: a fast-forward or a new state.
Merge(c, b) ==
    LET ours   == heads[c][b]
        theirs == tracking[c][b]
    IN  /\ "merge" \in uses[c] /\ NoState \notin {ours, theirs}
        /\ \E base \in SharedBases(c, ours, theirs) :
              /\ base # theirs
              /\ \A s \in {ours, theirs, base} : Loadable(c, s)
              /\ IF base = ours
                 THEN /\ heads' = [heads EXCEPT ![c][b] = theirs]
                      /\ UNCHANGED <<timeline, blobs, tags, tracking, shallow, uses>>
                 ELSE \E s \in State :
                          ParentsOf[s] = <<ours, theirs>> /\ Record(c, b, s)

\* branch create, or reset --soft, at a state of refs/remotes or another branch.
PointBranch(r, b) ==
    /\ "branch" \in uses[r]
    /\ \E s \in (Tips(r) \cap timeline[r]) \ {heads[r][b]} : heads' = [heads EXCEPT ![r][b] = s]
    /\ UNCHANGED <<timeline, blobs, tags, tracking, shallow, uses>>

CreateTag(r, t) ==
    /\ "tag" \in uses[r] /\ tags[r][t] = NoState
    /\ \E b \in Branch :
          heads[r][b] # NoState /\ tags' = [tags EXCEPT ![r][t] = heads[r][b]]
    /\ UNCHANGED <<timeline, blobs, heads, tracking, shallow, uses>>

\* gc --prune --prune-history: fails unless everything the refs reach is there.
Gc(r) ==
    LET kept == Reachable(Parents, Tips(r) \cup {Root})
    IN  /\ "gc" \in uses[r] /\ kept \subseteq timeline[r]
        /\ timeline' = [timeline EXCEPT ![r] = kept]
        /\ blobs' = [blobs EXCEPT ![r] = @ \cap UNION {BlobsOf[s] : s \in kept}]
        /\ UNCHANGED <<heads, tags, tracking, shallow, uses>>

LocalCommand(r) ==
    \/ \E b \in Branch : Commit(r, b) \/ PointBranch(r, b)
    \/ r \in Client /\ \E b \in Branch : Merge(r, b)
    \/ \E t \in Tag : CreateTag(r, t)

PeersInit ==
    \E start \in Starts :
        /\ timeline = [r \in Repos |-> start.holds[r]]
        /\ blobs = [r \in Repos |-> UNION {BlobsOf[s] : s \in start.holds[r]}]
        /\ heads = [r \in Repos |-> start.heads[r]]
        /\ uses = start.uses
        /\ tags = [r \in Repos |-> Unset(Tag)]
        /\ tracking = [c \in Client |-> Unset(Branch)]
        /\ shallow = [c \in Client |-> {}]
=============================================================================
