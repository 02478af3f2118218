-------------------------------- MODULE Sync --------------------------------
(***************************************************************************)
(* push, fetch, pull and clone (network/sync.rs) against a remote that is  *)
(* reached over http, ssh or a path (network/transport.rs, api.rs).  Every *)
(* request is a step: the client may stop after any of them, other clients *)
(* and the server's own user work in between, and the remote takes its     *)
(* lock for one request only.  pull is fetch, then Merge of Peers.  Which  *)
(* commands are run is part of the start: "force" and "depth" are options, *)
(* "verify" is a push without --no-verify, and "serve" or "ssh" in the     *)
(* server says how it is reached, if not by its path.                      *)
(***************************************************************************)
EXTENDS Peers, SequencesExt

CONSTANTS
    NoJob, NoItem,
    Depth,        \* the values of --depth that are given
    NoDepth       \* a fetch without --depth

ASSUME SyncAssumption ==
    /\ Depth \subseteq Nat \ {0} /\ NoDepth \in Nat /\ NoDepth > Cardinality(State)

VARIABLE job   \* per client: the network command in flight

syncVars == <<peers, job>>

\* A ref that is pushed or fetched.
Item == [in : {"heads", "tags"}, name : Branch \cup Tag, tip : State]

\* Mutant of Items: names that are not set are listed too.
ItemsUnset(kind, refs) == {[in |-> kind, name |-> n, tip |-> refs[n]] : n \in DOMAIN refs}

Items(kind, refs) ==
    {[in |-> kind, name |-> n, tip |-> refs[n]] : n \in {m \in DOMAIN refs : refs[m] # NoState}}

(***************************************************************************)
(* left are the refs still to fetch or push and item the one being dealt   *)
(* with; queue and seen are the walk of collect_upload_states, and list    *)
(* the states still to transfer.  fetched, boundary and refs are what a    *)
(* fetch keeps for shallow.json and a clone for refs/remotes.  held says   *)
(* that the client's own repo.lock is held.                                *)
(***************************************************************************)
Job == [kind : {"push", "fetch", "clone"},
        step : {"walk", "blobs", "entry", "ref", "write", "list", "tags", "pick",
                "boundary", "track", "checkout"},
        held : BOOLEAN, force : BOOLEAN, depth : Nat,
        left : SUBSET Item, item : Item \cup {NoItem}, queue : Seq(State),
        seen : SUBSET State, list : Seq(State), fetched : SUBSET State,
        boundary : SUBSET State, refs : Refs(Branch), tagged : BOOLEAN]

NewJob(kind, step) ==
    [kind |-> kind, step |-> step, held |-> TRUE, force |-> FALSE, depth |-> NoDepth,
     left |-> {}, item |-> NoItem, queue |-> <<>>, seen |-> {}, list |-> <<>>,
     fetched |-> {}, boundary |-> {}, refs |-> Unset(Branch), tagged |-> FALSE]

At(c, kinds, step) == job[c] # NoJob /\ job[c].kind \in kinds /\ job[c].step = step
Set(c, j) == job' = [job EXCEPT ![c] = j]
Finish(c) == job' = [job EXCEPT ![c] = NoJob]

\* The members of a sequence that are not in a set, in order.
Without(seq, set) ==
    LET kept[n \in 0 .. Len(seq)] ==
            IF n = 0 THEN <<>>
            ELSE IF seq[n] \in set THEN kept[n - 1]
            ELSE Append(kept[n - 1], seq[n])
    IN  kept[Len(seq)]

-----------------------------------------------------------------------------
(* The remote: handlers of network/api.rs, which every transport ends in. *)

\* HEAD timeline.
HasTimeline(s) == s \in timeline[Server]

\* The states of a walk with a parent that it has not met.
Open(walk) == {i \in DOMAIN walk : ~(Parents[walk[i]] \subseteq ToSet(walk))}

\* Breadth first: the next state is the first such parent of the earliest of them.
Onward(walk) ==
    IF Open(walk) = {} THEN walk
    ELSE Append(walk, Head(Without(ParentsOf[walk[Min(Open(walk))]], ToSet(walk))))

\* The walk of timeline_ancestry: at most depth states from the tip.
Ancestry(tip, depth) ==
    LET met[n \in 0 .. Cardinality(State)] == IF n = 0 THEN <<tip>> ELSE Onward(met[n - 1])
    IN  met[Min({depth, Cardinality(State)}) - 1]

\* GET ancestry fails when the walk meets an entry that is missing.
Walkable(walk) == \A i \in DOMAIN walk : walk[i] \in timeline[Server]

\* GET states, blobs and timeline of one state: a manifest, a blob or an entry that is
\* missing is an error.
Served(s) == Loadable(Server, s)

\* PUT blobs and PUT timeline; what is there already is left as it is.
PutBlobs(ids) ==
    /\ blobs' = [blobs EXCEPT ![Server] = @ \cup ids]
    /\ UNCHANGED <<timeline, heads, tags, tracking, shallow, uses>>

PutTimeline(s) ==
    /\ timeline' = [timeline EXCEPT ![Server] = @ \cup {s}]
    /\ UNCHANGED <<blobs, heads, tags, tracking, shallow, uses>>

\* Each request of remote-serve takes the repository's lock by itself: while a command
\* of the remote's user holds it, the branch cannot be read.
Unreadable == "ssh" \in uses[Server] /\ uses[Server] \ {"ssh"} # {}

\* The check of PUT refs/heads, against the branch as it is now.  It refuses when the
\* walk meets a missing entry, and lets pass what it cannot compare: a branch that does
\* not exist, or that cannot be read.
Accepts(name, tip, force) ==
    LET far == heads[Server][name]
    IN  force \/ far = NoState \/ Unreadable \/ IsForward(Server, far, tip)

PutHead(name, tip) ==
    /\ heads' = [heads EXCEPT ![Server][name] = tip]
    /\ UNCHANGED <<timeline, blobs, tags, tracking, shallow, uses>>

\* PUT refs/tags overwrites.
PutTag(name, tip) ==
    /\ tags' = [tags EXCEPT ![Server][name] = tip]
    /\ UNCHANGED <<timeline, blobs, heads, tracking, shallow, uses>>

-----------------------------------------------------------------------------
(* push *)

\* A job that begins to upload what the remote lacks of an item.
Walking(j, item) ==
    [j EXCEPT !.step = "walk", !.item = item, !.queue = <<item.tip>>, !.seen = {}, !.list = <<>>]

\* run_pre_push_hook, unless --no-verify is given: the lock is given up for the hook, be
\* there one or not, and the guard that takes it again is dropped with the function.
KeepsLock(c) == "verify" \notin uses[c]

\* A branch that is up to date ends the push at once, tags included.
PushStart(c, b, force) ==
    LET tip == heads[c][b]
        far == heads[Server][b]
    IN  /\ "push" \in uses[c]
        /\ force => "force" \in uses[c]
        /\ Present(c) /\ job[c] = NoJob
        /\ tip # NoState /\ tip # far
        /\ far = NoState \/ force \/ IsForward(c, far, tip)
        /\ Set(c, [Walking(NewJob("push", "walk"),
                           [in |-> "heads", name |-> b, tip |-> tip])
                   EXCEPT !.force = force, !.held = KeepsLock(c)])
        /\ UNCHANGED peers

\* What follows once nothing is left to look at: the first upload or the ref.
AfterWalk(j) ==
    IF j.queue # <<>> THEN j
    ELSE IF j.list = <<>> THEN [j EXCEPT !.step = "ref"]
    ELSE [j EXCEPT !.step = "blobs"]

\* One turn of collect_upload_states.  It asks the remote for one entry, and goes
\* on to the parents of a state that the remote lacks.
Walk(c) ==
    /\ At(c, {"push"}, "walk")
    /\ LET j    == job[c]
           s    == Head(j.queue)
           next == [j EXCEPT !.queue = Tail(j.queue), !.seen = @ \cup {s}]
       IN  IF s \in j.seen \/ HasTimeline(s) THEN Set(c, AfterWalk(next))
           ELSE /\ s \in timeline[c]
                /\ Set(c, AfterWalk([next EXCEPT
                        !.queue = @ \o Without(ParentsOf[s], next.seen),
                        !.list = <<s>> \o @]))
    /\ UNCHANGED peers

\* upload_state: the blobs that the remote lacks, then manifest and entry.
SendBlobs(c) ==
    /\ At(c, {"push"}, "blobs")
    /\ Loadable(c, Head(job[c].list))
    /\ PutBlobs(BlobsOf[Head(job[c].list)])
    /\ Set(c, [job[c] EXCEPT !.step = "entry"])

SendEntry(c) ==
    /\ At(c, {"push"}, "entry")
    /\ LET j == job[c]
       IN  /\ PutTimeline(Head(j.list))
           /\ Set(c, [j EXCEPT !.list = Tail(@),
                               !.step = IF Tail(j.list) = <<>> THEN "ref" ELSE "blobs"])

Pushing(c, kind) == At(c, {"push"}, "ref") /\ job[c].item.in = kind
SendHead(j) == PutHead(j.item.name, j.item.tip)
Accepted(j) == Accepts(j.item.name, j.item.tip, j.force)

\* Mutants of SetHead: a push that is refused begins again; the client's own check is
\* taken as enough.
SetHeadAgain(c) ==
    /\ Pushing(c, "heads")
    /\ IF Accepted(job[c])
       THEN SendHead(job[c]) /\ Set(c, [job[c] EXCEPT !.step = "list"])
       ELSE UNCHANGED peers /\ Set(c, Walking(job[c], job[c].item))
SetHeadUnchecked(c) ==
    /\ Pushing(c, "heads")
    /\ SendHead(job[c])
    /\ Set(c, [job[c] EXCEPT !.step = "list"])

\* PUT refs/heads: over http the server holds its lock around check and write.
SetHead(c) ==
    /\ Pushing(c, "heads") /\ Accepted(job[c])
    /\ IF "serve" \in uses[Server]
       THEN SendHead(job[c]) /\ Set(c, [job[c] EXCEPT !.step = "list"])
       ELSE UNCHANGED peers /\ Set(c, [job[c] EXCEPT !.step = "write"])

\* Over ssh, and on a path, nothing holds the remote's lock when the ref is written.
WriteChecked(c) ==
    /\ At(c, {"push"}, "write")
    /\ SendHead(job[c])
    /\ Set(c, [job[c] EXCEPT !.step = "list"])

\* push_tags: all local tags; those that the remote has at the same state are skipped.
ListTags(c) ==
    /\ At(c, {"push"}, "list")
    /\ Set(c, [job[c] EXCEPT !.left = Items("tags", tags[c]), !.step = "tags"])
    /\ UNCHANGED peers

PushTag(c) ==
    /\ At(c, {"push"}, "tags")
    /\ IF job[c].left = {} THEN Finish(c)
       ELSE \E item \in job[c].left :
               LET next == [job[c] EXCEPT !.left = @ \ {item}]
               IN  Set(c, IF tags[Server][item.name] = item.tip THEN next
                          ELSE Walking(next, item))
    /\ UNCHANGED peers

SetTag(c) ==
    /\ Pushing(c, "tags")
    /\ PutTag(job[c].item.name, job[c].item.tip)
    /\ Set(c, [job[c] EXCEPT !.step = "tags"])

PushStep(c) ==
    \/ Walk(c) \/ SendBlobs(c) \/ SendEntry(c) \/ SetHead(c) \/ WriteChecked(c)
    \/ ListTags(c) \/ PushTag(c) \/ SetTag(c)

-----------------------------------------------------------------------------
(* fetch and clone *)

\* The last state of a walk that its limit cut short, if it has parents.
Boundary(walk, depth) ==
    {s \in {Last(walk)} : Len(walk) = depth /\ ParentsOf[s] # <<>>}

FetchStart(c, names, depth) ==
    LET items == {i \in Items("heads", heads[Server]) : i.name \in names}
    IN  /\ "fetch" \in uses[c] /\ Present(c) /\ job[c] = NoJob
        /\ items # {}
        /\ Set(c, [NewJob("fetch", "pick") EXCEPT !.left = items, !.depth = depth])
        /\ UNCHANGED peers

\* Repo::init with its root state; nobody works in a directory while it is cloned.
CloneStart(c, b, depth) ==
    /\ "clone" \in uses[c] /\ ~Present(c) /\ job[c] = NoJob
    /\ heads[Server][b] # NoState
    /\ timeline' = [timeline EXCEPT ![c] = {Root}]
    /\ heads' = [heads EXCEPT ![c] = [Unset(Branch) EXCEPT ![b] = Root]]
    /\ Set(c, [NewJob("clone", "pick") EXCEPT
                  !.left = {i \in Items("heads", heads[Server]) : i.name = b},
                  !.refs = heads[Server], !.depth = depth])
    /\ UNCHANGED <<blobs, tags, tracking, shallow, uses>>

\* Mutant of Missing: the walk ends where the client has an entry, as push's does.
MissingAbove(c, walk) ==
    IF walk[1] \in timeline[c] THEN <<>>
    ELSE SelectSeq(Reverse(walk), LAMBDA s : s \notin timeline[c]
                       /\ \A k \in timeline[c] \ {Root} : s \notin Past(k))

\* collect_missing_states: oldest first.
Missing(c, walk) == Without(Reverse(walk), timeline[c])

\* The request for the ancestry of the next ref.
Pick(c) ==
    /\ At(c, {"fetch", "clone"}, "pick")
    /\ \E item \in job[c].left :
          LET walk == Ancestry(item.tip, job[c].depth)
              list == Missing(c, walk)
          IN  /\ Walkable(walk)
              /\ Set(c, [job[c] EXCEPT
                    !.item = item, !.left = @ \ {item}, !.list = list,
                    !.fetched = {list[i] : i \in DOMAIN list},
                    !.boundary = Boundary(walk, job[c].depth),
                    !.step = IF list = <<>> THEN "boundary" ELSE "blobs"])
    /\ UNCHANGED peers

\* Mutant of GetBlobs: the entry is imported with the blobs still to come.
GetBlobsLater(c) ==
    /\ At(c, {"fetch", "clone"}, "blobs")
    /\ Served(Head(job[c].list))
    /\ Set(c, [job[c] EXCEPT !.step = "entry"])
    /\ UNCHANGED peers

\* import_state: the blobs that are missing, then manifest and entry.
GetBlobs(c) ==
    /\ At(c, {"fetch", "clone"}, "blobs")
    /\ Served(Head(job[c].list))
    /\ blobs' = [blobs EXCEPT ![c] = @ \cup BlobsOf[Head(job[c].list)]]
    /\ Set(c, [job[c] EXCEPT !.step = "entry"])
    /\ UNCHANGED <<timeline, heads, tags, tracking, shallow, uses>>

GetEntry(c) ==
    /\ At(c, {"fetch", "clone"}, "entry")
    /\ LET j == job[c]
       IN  /\ timeline' = [timeline EXCEPT ![c] = @ \cup {Head(j.list)}]
           /\ Set(c, [j EXCEPT !.list = Tail(@),
                               !.step = IF Tail(j.list) = <<>> THEN "boundary" ELSE "blobs"])
    /\ UNCHANGED <<blobs, heads, tags, tracking, shallow, uses>>

\* update_shallow_boundaries.  A full fetch clears them all; another keeps those
\* none of whose parents it has just fetched.
SaveBoundary(c) ==
    /\ At(c, {"fetch", "clone"}, "boundary")
    /\ LET j    == job[c]
           kept == {s \in shallow[c] : s \notin timeline[c] \/ Parents[s] \cap j.fetched = {}}
       IN  shallow' = [shallow EXCEPT ![c] = (IF j.depth = NoDepth THEN {} ELSE kept)
                                             \cup j.boundary]
    /\ Set(c, [job[c] EXCEPT !.step = "track"])
    /\ UNCHANGED <<timeline, blobs, heads, tags, tracking, uses>>

\* write_remote_ref, and write_tag, which overwrites.
Track(c) ==
    /\ At(c, {"fetch", "clone"}, "track")
    /\ job[c].kind = "fetch" \/ job[c].item.in = "tags"
    /\ LET item == job[c].item
       IN  IF item.in = "heads"
           THEN tracking' = [tracking EXCEPT ![c][item.name] = item.tip] /\ UNCHANGED tags
           ELSE tags' = [tags EXCEPT ![c][item.name] = item.tip] /\ UNCHANGED tracking
    /\ Set(c, [job[c] EXCEPT !.step = "pick"])
    /\ UNCHANGED <<timeline, blobs, heads, shallow, uses>>

\* A clone records every remote branch, then brings its own branch to the tip.
TrackAll(c) ==
    /\ At(c, {"clone"}, "track") /\ job[c].item.in = "heads"
    /\ tracking' = [tracking EXCEPT ![c] = job[c].refs]
    /\ Set(c, [job[c] EXCEPT !.step = "checkout"])
    /\ UNCHANGED <<timeline, blobs, heads, tags, shallow, uses>>

\* After the checkout a clone goes on as a fetch of the tags.
CheckoutClone(c) ==
    /\ At(c, {"clone"}, "checkout")
    /\ Loadable(c, job[c].item.tip)
    /\ heads' = [heads EXCEPT ![c][job[c].item.name] = job[c].item.tip]
    /\ Set(c, [job[c] EXCEPT !.step = "pick"])
    /\ UNCHANGED <<timeline, blobs, tags, tracking, shallow, uses>>

\* fetch_tags: all tags of the remote, after the branches.
FetchTags(c) ==
    /\ At(c, {"fetch", "clone"}, "pick") /\ job[c].left = {}
    /\ IF job[c].tagged THEN Finish(c)
       ELSE Set(c, [job[c] EXCEPT !.left = Items("tags", tags[Server]), !.tagged = TRUE])
    /\ UNCHANGED peers

FetchStep(c) ==
    \/ Pick(c) \/ GetBlobs(c) \/ GetEntry(c) \/ SaveBoundary(c) \/ Track(c)
    \/ TrackAll(c) \/ CheckoutClone(c) \/ FetchTags(c)

-----------------------------------------------------------------------------
SyncStep(c) == PushStep(c) \/ FetchStep(c)

\* The command fails: a request is refused, a lock is taken, the connection drops.
\* It is also what being killed comes to, except that a clone then is not cleaned up.
Fail(c) ==
    /\ job[c] # NoJob
    /\ Finish(c)
    /\ UNCHANGED peers

\* cleanup_failed_clone removes .astvcs.
CleanUp(c) ==
    /\ job[c] # NoJob /\ job[c].kind = "clone"
    /\ Finish(c)
    /\ timeline' = [timeline EXCEPT ![c] = {}]
    /\ blobs' = [blobs EXCEPT ![c] = {}]
    /\ heads' = [heads EXCEPT ![c] = Unset(Branch)]
    /\ tags' = [tags EXCEPT ![c] = Unset(Tag)]
    /\ tracking' = [tracking EXCEPT ![c] = Unset(Branch)]
    /\ shallow' = [shallow EXCEPT ![c] = {}]
    /\ UNCHANGED uses

Limits(c) == {NoDepth} \cup IF "depth" \in uses[c] THEN Depth ELSE {}

SyncCommand(c) ==
    \/ \E b \in Branch, force \in BOOLEAN : PushStart(c, b, force)
    \/ \E names \in {Branch} \cup {{b} : b \in Branch}, d \in Limits(c) : FetchStart(c, names, d)
    \/ \E b \in Branch, d \in Limits(c) : CloneStart(c, b, d)

\* gc of a client, and of the server while no push is under way (see the README).
Quiet(r) ==
    IF r = Server THEN \A c \in Client : job[c] # NoJob => job[c].kind # "push"
    ELSE job[r] = NoJob

\* A client's own commands wait for its lock; the server's find it free.
Local(r) ==
    /\ Present(r)
    /\ \/ (r \in Client /\ job[r] # NoJob => ~job[r].held) /\ LocalCommand(r)
       \/ Quiet(r) /\ Gc(r)
    /\ UNCHANGED job

SyncNext ==
    \/ \E c \in Client : SyncCommand(c) \/ SyncStep(c) \/ Fail(c) \/ CleanUp(c)
    \/ \E r \in Repos : Local(r)

SyncInit == PeersInit /\ job = [c \in Client |-> NoJob]

\* A command that is not killed goes on, or fails: an http request is answered or times
\* out (build_http_client), and the peer that ssh starts answers or goes away.
SyncSpec ==
    /\ SyncInit /\ [][SyncNext]_syncVars
    /\ \A c \in Client : WF_syncVars(Fail(c) \/ SyncStep(c))

-----------------------------------------------------------------------------
SyncTypeOK ==
    /\ timeline \in [Repos -> SUBSET State]
    /\ blobs \in [Repos -> SUBSET Blobs]
    /\ heads \in [Repos -> Refs(Branch)] /\ tags \in [Repos -> Refs(Tag)]
    /\ tracking \in [Client -> Refs(Branch)]
    /\ shallow \in [Client -> SUBSET State]
    /\ \A c \in Client : job[c] = NoJob \/ job[c] \in Job

\* An entry that is there has its blobs, wherever a transfer stops (upload_state and
\* import_state send the blobs first).
EntriesHaveBlobs == \A r \in Repos : \A s \in timeline[r] : Loadable(r, s)

\* Whatever stops, wherever: every ref of the server can be followed to the root and
\* checked out, and so can every ref of a client that never limited a fetch, except
\* that a clone records remote branches whose history it has not asked for.
RefsWhole ==
    /\ EntriesHaveBlobs
    /\ \A r \in Repos :
          LET followed == IF "clone" \in uses[r] THEN OwnTips(r) ELSE Tips(r)
          IN  "depth" \notin uses[r] => \A s \in followed : Whole(r, s)

\* A branch of the server leaves a state behind only when it is pushed with --force
\* (docs/commands.md:224): what another client pushed in between is not lost.
RemoteForward ==
    [][\A b \in Branch :
          LET old == heads[Server][b]
          IN  old \notin {NoState, heads'[Server][b]} =>
                 \/ old \in Past(heads'[Server][b])
                 \/ \E c \in Client : job[c] # NoJob /\ job[c].force /\ job'[c] # job[c]
                 \/ job' = job]_syncVars

\* A fetch without --depth that moves a ref has the whole history of it, whatever
\* earlier fetches with --depth, or stopped half way, had left (docs/commands.md:220).
FullFetchHeals ==
    [][\A c \in Client :
          At(c, {"fetch", "clone"}, "track") /\ job[c].depth = NoDepth /\ job'[c] # NoJob
          => Whole(c, job[c].item.tip)]_syncVars

\* Every push, fetch and clone ends.
SyncEnds == \A c \in Client : job[c] # NoJob ~> job[c] = NoJob

\* A ref that a push has set names a history that is there (docs/commands.md:77).
PushDelivers ==
    \A b \in Branch :
        heads[Server][b] # NoState => Whole(Server, heads[Server][b])
=============================================================================
