------------------------------- MODULE Store -------------------------------
(***************************************************************************)
(* The object store of a repository: loose blobs and packs (store/blobs.rs,*)
(* store/pack.rs), states, and the commands that write and delete them.    *)
(* One command holds repo.lock at a time.  Each action is one file that is *)
(* written, renamed or removed, and the command may be killed before any.  *)
(*                                                                         *)
(* Blob ids are numbers, as their order decides which blob is the base of  *)
(* a delta; a manifest is the set of blobs that it names.                  *)
(***************************************************************************)
EXTENDS History, Sequences, FiniteSetsExt

CONSTANTS
    Blob, NoBlob,      \* blob ids; no delta base
    ShardOf,           \* the first two digits of each id
    Alike,             \* <<id, base>>: the delta is smaller than the blob itself
    State, Root, NoState,
    ParentsOf, ManifestOf,
    Ref,               \* branches, tags and remote-tracking refs
    NoJob,
    MaxPacks           \* bound on the pack files written

ASSUME StoreAssumption ==
    /\ Blob \subseteq Nat /\ NoBlob \notin Blob
    /\ Ref # {} /\ MaxPacks \in Nat
    /\ Root \in State /\ NoState \notin State
    /\ ParentsOf \in [State -> SUBSET State] /\ ParentsOf[Root] = {}
    /\ ManifestOf \in [State -> SUBSET Blob] /\ ManifestOf[Root] = {}

VARIABLES
    loose,      \* blobs/<shard>/<id>.json
    index,      \* packs/index.json: for some blobs, the pack and the delta base
    packs,      \* the entries in each pack file, in the order of their numbers
    manifests,  \* states/
    timeline,   \* timeline/
    refs,
    job         \* the command that holds repo.lock

storeVars == <<loose, index, packs, manifests, timeline, refs, job>>

Entry == [id : Blob, base : Blob \cup {NoBlob}]
Place == [pack : 1 .. MaxPacks, base : Blob \cup {NoBlob}]

\* BlobStore::contains and PackStore::contains: the index alone decides.
Packed == DOMAIN index
Stored == loose \cup Packed

InPack(id, place) == [id |-> id, base |-> place.base] \in packs[place.pack]

\* PackStore::read_bytes: the base of a delta is read from the packs too, to any depth.
Unpacks ==
    LET unpacks[id \in Blob] ==
            /\ id \in Packed /\ InPack(id, index[id])
            /\ index[id].base # NoBlob => unpacks[index[id].base]
    IN  unpacks

\* BlobStore::read_bytes: a loose file goes first.
Reads(id) == id \in loose \/ Unpacks[id]

Loads(s) == s \in timeline /\ \A id \in ManifestOf[s] : Reads(id)
Tips == {refs[r] : r \in Ref} \ {NoState}

\* Mutant of Reach: the tips alone, without what they descend from.
ReachTips == Tips \cup {Root}

Reach == Reachable(ParentsOf, Tips) \cup {Root}

\* ref is whole: its history can be walked and every state of it be checked out.
Whole(s) == \A t \in Reachable(ParentsOf, {s}) : Loads(t)

Unlocked == job = NoJob
Step(kind, step) == job # NoJob /\ job.kind = kind /\ job.step = step
Goto(step) == job' = [job EXCEPT !.step = step]
Release == job' = NoJob

\* Lists are sorted: the least id goes first.
First == Min(job.todo)

NewJob(kind, step) ==
    [kind |-> kind, step |-> step, ref |-> CHOOSE r \in Ref : TRUE, state |-> Root,
     todo |-> {}, batch |-> {}, index |-> index, prune |-> FALSE, history |-> {}]

-----------------------------------------------------------------------------
(* commit: blobs, manifest, timeline entry, ref *)

CommitStart(r, s) ==
    /\ Unlocked
    /\ refs[r] # NoState /\ Loads(refs[r])
    /\ s \notin timeline /\ ParentsOf[s] = {refs[r]}
    /\ job' = [NewJob("commit", "blobs") EXCEPT
                  !.ref = r, !.state = s, !.todo = ManifestOf[s]]
    /\ UNCHANGED <<loose, index, packs, manifests, timeline, refs>>

\* BlobStore::write: a blob that the store contains is not written again.
WriteBlob ==
    /\ Step("commit", "blobs")
    /\ IF job.todo = {} THEN Goto("manifest") /\ UNCHANGED loose
       ELSE /\ loose' = loose \cup ({First} \ Stored)
            /\ job' = [job EXCEPT !.todo = @ \ {First}]
    /\ UNCHANGED <<index, packs, manifests, timeline, refs>>

WriteManifest ==
    /\ Step("commit", "manifest")
    /\ manifests' = manifests \cup {ManifestOf[job.state]}
    /\ Goto("entry")
    /\ UNCHANGED <<loose, index, packs, timeline, refs>>

WriteEntry ==
    /\ Step("commit", "entry")
    /\ timeline' = timeline \cup {job.state}
    /\ Goto("ref")
    /\ UNCHANGED <<loose, index, packs, manifests, refs>>

WriteRef ==
    /\ Step("commit", "ref")
    /\ refs' = [refs EXCEPT ![job.ref] = job.state]
    /\ Release
    /\ UNCHANGED <<loose, index, packs, manifests, timeline>>

-----------------------------------------------------------------------------
(* repack *)

\* Mutant of NextPack: the packs that the index names are counted.
NextPackIndexed == 1 + Cardinality({index[id].pack : id \in Packed})

\* The first pack number that is free (next_pack_name).
NextPack == Len(packs) + 1

\* pick_delta_base: of the batch, the greatest id below it in the same shard; and
\* encode_blob, which uses it when the delta is smaller.
BasesIn(id, batch) == {b \in batch : b < id /\ ShardOf[b] = ShardOf[id]}
DeltaBase(id, batch) ==
    IF BasesIn(id, batch) = {} \/ <<id, Max(BasesIn(id, batch))>> \notin Alike THEN NoBlob
    ELSE Max(BasesIn(id, batch))

RepackStart ==
    /\ Unlocked
    /\ loose # {} /\ NextPack <= MaxPacks
    /\ packs' = Append(packs, {})
    /\ job' = [NewJob("repack", "pack") EXCEPT !.todo = loose, !.batch = loose]
    /\ UNCHANGED <<loose, index, manifests, timeline, refs>>

\* One blob is appended to the new pack.
PackBlob ==
    /\ Step("repack", "pack") /\ job.todo # {}
    /\ LET id   == First
           base == DeltaBase(id, job.batch)
       IN  /\ packs' = [packs EXCEPT ![Len(packs)] = @ \cup {[id |-> id, base |-> base]}]
           /\ job' = [job EXCEPT
                 !.todo = @ \ {First},
                 !.index = [b \in DOMAIN @ \cup {id} |->
                               IF b = id THEN [pack |-> Len(packs), base |-> base] ELSE @[b]]]
    /\ UNCHANGED <<loose, index, manifests, timeline, refs>>

SavePacked ==
    /\ Step("repack", "pack") /\ job.todo = {}
    /\ index' = job.index
    /\ job' = [job EXCEPT !.step = "loose", !.todo = job.batch]
    /\ UNCHANGED <<loose, packs, manifests, timeline, refs>>

UnlinkLoose ==
    /\ Step("repack", "loose")
    /\ IF job.todo = {} THEN Release /\ UNCHANGED loose
       ELSE /\ loose' = loose \ {First}
            /\ job' = [job EXCEPT !.todo = @ \ {First}]
    /\ UNCHANGED <<index, packs, manifests, timeline, refs>>

-----------------------------------------------------------------------------
(* gc *)

\* reachable_from_tips reads the entry and the manifest of all it walks through;
\* blobs are not read.  What is on disk and unreachable is listed once.
GcStart(prune, pruneHistory) ==
    LET ids     == Stored \ UNION {ManifestOf[s] : s \in Reach}
        entries == timeline \ Reach
        files   == manifests \ {ManifestOf[s] : s \in Reach}
    IN  /\ Unlocked
        /\ Reach \ {Root} \subseteq timeline
        /\ job' = [NewJob("gc", "loose") EXCEPT
                      !.prune = prune,
                      !.todo = IF prune THEN ids ELSE {},
                      !.history = IF pruneHistory
                                  THEN {<<"timeline", s>> : s \in entries}
                                       \cup {<<"states", m>> : m \in files}
                                  ELSE {}]
        /\ UNCHANGED <<loose, index, packs, manifests, timeline, refs>>

\* Mutant of RemoveLoose: a blob that has a loose copy is taken to have no other.
RemoveLooseOnly ==
    /\ Step("gc", "loose") /\ job.todo # {}
    /\ loose' = loose \ {First}
    /\ IF First \in loose THEN job' = [job EXCEPT !.todo = @ \ {First}]
       ELSE Goto("packed")
    /\ UNCHANGED <<index, packs, manifests, timeline, refs>>

\* BlobStore::remove, first part: the loose file.
RemoveLoose ==
    /\ Step("gc", "loose") /\ job.todo # {}
    /\ loose' = loose \ {First}
    /\ Goto("packed")
    /\ UNCHANGED <<index, packs, manifests, timeline, refs>>

Dependents(id) == {d \in Packed : index[d].base = id}

\* read_entry_bytes, which does not follow a base that is a delta itself.
Decodable(id) == id \in Packed /\ index[id].base = NoBlob /\ InPack(id, index[id])

\* Mutant of Reencode: what is based on the removed blob is left as it is.
ReencodeNone ==
    /\ Step("gc", "packed")
    /\ job' = [job EXCEPT !.step = "index",
                          !.index = [b \in Packed \ {First} |-> index[b]]]
    /\ UNCHANGED <<loose, index, packs, manifests, timeline, refs>>

\* PackStore::remove: what is based on the blob is appended to its pack once more, in
\* full.  gc fails when it cannot be decoded.
Reencode ==
    LET id   == First
        deps == Dependents(id)
    IN  /\ Step("gc", "packed")
        /\ deps # {} => Decodable(id)
        /\ packs' = [n \in DOMAIN packs |->
                        packs[n] \cup {[id |-> d, base |-> NoBlob] :
                                          d \in {e \in deps : index[e].pack = n}}]
        /\ job' = [job EXCEPT
              !.step = "index",
              !.index = [b \in Packed \ {id} |->
                            IF b \in deps THEN [index[b] EXCEPT !.base = NoBlob] ELSE index[b]]]
        /\ UNCHANGED <<loose, index, manifests, timeline, refs>>

SaveRemoved ==
    /\ Step("gc", "index")
    /\ index' = job.index
    /\ job' = [job EXCEPT !.step = "loose", !.todo = @ \ {First}]
    /\ UNCHANGED <<loose, packs, manifests, timeline, refs>>

\* remove_state_history_files, in the order of a HashSet.
RemoveHistory ==
    /\ Step("gc", "loose") /\ job.todo = {}
    /\ \E file \in job.history :
          /\ job' = [job EXCEPT !.history = @ \ {file}]
          /\ IF file[1] = "timeline"
             THEN timeline' = timeline \ {file[2]} /\ UNCHANGED manifests
             ELSE manifests' = manifests \ {file[2]} /\ UNCHANGED timeline
    /\ UNCHANGED <<loose, index, packs, refs>>

GcEnd ==
    /\ Step("gc", "loose") /\ job.todo = {} /\ job.history = {}
    /\ Release
    /\ UNCHANGED <<loose, index, packs, manifests, timeline, refs>>

-----------------------------------------------------------------------------
(* refs *)

\* branch create, branch remove, reset and tag create, at any commit id that has an
\* entry; fetch and clone also write remote-tracking refs.
PointRef(r, s) ==
    /\ job = NoJob
    /\ s \in timeline \cup {NoState} /\ s # refs[r]
    /\ refs' = [refs EXCEPT ![r] = s]
    /\ UNCHANGED <<loose, index, packs, manifests, timeline, job>>

\* fsck --prune-refs: prune_dangling_refs.
PruneRefs ==
    /\ job = NoJob
    /\ refs' = [r \in Ref |-> IF refs[r] \in timeline THEN refs[r] ELSE NoState]
    /\ UNCHANGED <<loose, index, packs, manifests, timeline, job>>

\* The process is killed, or the command ends with an error.
Stop ==
    /\ job # NoJob
    /\ Release
    /\ UNCHANGED <<loose, index, packs, manifests, timeline, refs>>

StoreNext ==
    \/ \E r \in Ref, s \in State : CommitStart(r, s)
    \/ WriteBlob \/ WriteManifest \/ WriteEntry \/ WriteRef
    \/ RepackStart \/ PackBlob \/ SavePacked \/ UnlinkLoose
    \/ \E prune, pruneHistory \in BOOLEAN : GcStart(prune, pruneHistory)
    \/ RemoveLoose \/ Reencode \/ SaveRemoved \/ RemoveHistory \/ GcEnd
    \/ \E r \in Ref, s \in State \cup {NoState} : PointRef(r, s)
    \/ PruneRefs
    \/ Stop

\* Repo::init; refs may name states that a clone has recorded and not imported.
StoreInit ==
    /\ loose = {} /\ index = <<>> /\ packs = <<>>
    /\ manifests = {{}} /\ timeline = {Root}
    /\ refs \in [Ref -> State]
    /\ job = NoJob

StoreSpec == StoreInit /\ [][StoreNext]_storeVars

-----------------------------------------------------------------------------
JobOK(j) ==
    /\ DOMAIN j = DOMAIN NewJob("gc", "loose")
    /\ j.kind \in {"commit", "repack", "gc"} /\ j.ref \in Ref /\ j.state \in State
    /\ j.step \in {"blobs", "manifest", "entry", "ref", "pack", "loose", "packed", "index"}
    /\ j.todo \subseteq Blob /\ j.batch \subseteq Blob /\ j.prune \in BOOLEAN
    /\ \A id \in DOMAIN j.index : id \in Blob /\ j.index[id] \in Place

StoreTypeOK ==
    /\ loose \subseteq Blob
    /\ Packed \subseteq Blob /\ \A id \in Packed : index[id] \in Place
    /\ packs \in Seq(SUBSET Entry) /\ Len(packs) <= MaxPacks
    /\ manifests \subseteq SUBSET Blob /\ timeline \subseteq State
    /\ refs \in [Ref -> State \cup {NoState}]
    /\ job = NoJob \/ JobOK(job)

\* Whatever was repacked or pruned, and wherever it was stopped: a blob that the store
\* says it contains reads back, although its bytes may hang on another blob's.
\* (docs/commands.md:285: repack is "Safe to run online").
StoredReads == \A id \in Stored : Reads(id)

\* No commit, repack or gc, finished or not, breaks the history of a ref: what was
\* whole stays whole, and a commit's new state is whole when its ref names it.
RefsStayWhole ==
    [][\A r \in Ref :
          refs[r] # NoState /\ Whole(refs[r]) /\ (refs'[r] = refs[r] \/ job # NoJob)
          => Whole(refs[r])']_storeVars

\* When gc --prune has dealt with the blobs, none is left that nothing reaches,
\* whichever copies an interrupted repack had made of it (docs/architecture.md:65:
\* packed blobs take part in gc "the same as loose blobs").
GcReclaims ==
    Step("gc", "loose") /\ job.prune /\ job.todo = {}
    => Stored \subseteq UNION {ManifestOf[s] : s \in Reach}
=============================================================================
