---------------------------- MODULE StoreProofs ----------------------------
(***************************************************************************)
(* Proofs about Store: what the store says it contains reads back, refs    *)
(* stay whole and gc reclaims all, for any blobs, states and packs, and    *)
(* wherever a commit, a repack or a gc is stopped.                         *)
(***************************************************************************)
EXTENDS Store, HistoryProofs

-----------------------------------------------------------------------------
(* Numbers. *)

LEMMA MinIs ==
    ASSUME NEW T \in SUBSET Nat, T # {}
    PROVE  Min(T) \in T /\ \A y \in T : Min(T) <= y
BY LeastNumber DEF Min

\* A bounded set of numbers has a greatest one.
LEMMA MaxIs ==
    ASSUME NEW T \in SUBSET Nat, T # {}, NEW n \in Nat, \A x \in T : x < n
    PROVE  Max(T) \in T
<1>1. \A x \in T : x \in 0 .. n
      OBVIOUS
<1>2. T \in SUBSET 0 .. n
      BY <1>1
<1>3. PICK x \in T : \A y \in T : x >= y
      BY <1>2, GreatestNumber
<1>4. QED
      BY <1>3 DEF Max

-----------------------------------------------------------------------------
(* The inductive invariant. *)

\* An index whose entries are in the packs, and whose bases have entries and lesser ids.
Sound(ix, pk) ==
    \A id \in DOMAIN ix :
        /\ id \in Blob /\ ix[id] \in Place
        /\ ix[id].pack \in DOMAIN pk
        /\ [id |-> id, base |-> ix[id].base] \in pk[ix[id].pack]
        /\ ix[id].base # NoBlob => ix[id].base \in DOMAIN ix /\ ix[id].base < id

\* The blobs that gc keeps.
Kept == UNION {ManifestOf[s] : s \in Reach}

\* A commit stores the blobs of a child of its ref's state before the ref moves there.
CommitInv ==
    job # NoJob /\ job.kind = "commit" =>
        /\ refs[job.ref] # NoState /\ ParentsOf[job.state] = {refs[job.ref]}
        /\ ManifestOf[job.state] \subseteq Stored \cup job.todo
        /\ job.step # "blobs" => job.todo = {}
        /\ job.step = "ref" => job.state \in timeline

\* A repack indexes the blobs of its batch in order, the bases before what hangs on
\* them, and unlinks only what the saved index has.
RepackInv ==
    /\ Step("repack", "pack") =>
          /\ Len(packs) >= 1
          /\ Sound(job.index, packs) /\ Packed \subseteq DOMAIN job.index
          /\ job.todo \subseteq job.batch /\ job.batch \ job.todo \subseteq DOMAIN job.index
    /\ Step("repack", "loose") => job.todo \subseteq Packed

\* A gc removes what nothing reaches: the loose copy first, then the packed one.
GcInv ==
    /\ job # NoJob /\ job.kind = "gc" =>
          /\ job.todo \cap Kept = {}
          /\ job.prune => Stored \subseteq Kept \cup job.todo
          /\ \A file \in job.history : file[1] = "timeline" => file[2] \notin Reach
    /\ Step("gc", "packed") => job.todo # {} /\ First \notin loose
    /\ Step("gc", "index") =>
          /\ job.todo # {} /\ First \notin loose
          /\ DOMAIN job.index = Packed \ {First} /\ Sound(job.index, packs)

Fields == {"kind", "step", "ref", "state", "todo", "batch", "index", "prune", "history"}

Typed(j) ==
    /\ DOMAIN j = Fields
    /\ j.kind \in {"commit", "repack", "gc"} /\ j.ref \in Ref /\ j.state \in State
    /\ j.step \in {"blobs", "manifest", "entry", "ref", "pack", "loose", "packed", "index"}
    /\ j.todo \subseteq Blob /\ j.batch \subseteq Blob /\ j.prune \in BOOLEAN
    /\ \A id \in DOMAIN j.index : id \in Blob /\ j.index[id] \in Place

\* StoreTypeOK, without the mention of the state that JobOK makes.
TypeInv ==
    /\ loose \subseteq Blob
    /\ \A id \in DOMAIN index : id \in Blob /\ index[id] \in Place
    /\ packs \in Seq(SUBSET Entry) /\ Len(packs) <= MaxPacks
    /\ manifests \subseteq SUBSET Blob /\ timeline \subseteq State
    /\ refs \in [Ref -> State \cup {NoState}]
    /\ job = NoJob \/ Typed(job)

StoreInv ==
    /\ TypeInv
    /\ Sound(index, packs)
    /\ CommitInv /\ RepackInv /\ GcInv

-----------------------------------------------------------------------------
(* Jobs and packs. *)

\* k is j but for the fields in S.
Same(j, k, S) ==
    /\ DOMAIN k = Fields
    /\ \A f \in Fields \ S : k[f] = j[f]

LEMMA TypeInvIs == TypeInv => StoreTypeOK
BY DEF TypeInv, Typed, StoreTypeOK, Packed, JobOK, NewJob, Fields

LEMMA FirstIs ==
    ASSUME TypeInv, job # NoJob, job.todo # {}
    PROVE  First \in job.todo /\ First \in Blob /\ \A id \in job.todo : First <= id
<1>1. job.todo \in SUBSET Nat /\ job.todo \subseteq Blob
      BY StoreAssumption DEF TypeInv, Typed
<1>2. QED
      BY <1>1, MinIs DEF First

\* The base of a delta is in the batch, and lesser.
LEMMA DeltaBaseIs ==
    ASSUME NEW id \in Blob, NEW batch \in SUBSET Blob
    PROVE  LET base == DeltaBase(id, batch)
           IN  base # NoBlob => base \in batch /\ base < id
<1>1. CASE BasesIn(id, batch) = {}
      BY <1>1 DEF DeltaBase
<1>2. CASE BasesIn(id, batch) # {}
      <2>1. /\ BasesIn(id, batch) \in SUBSET Nat /\ id \in Nat
            /\ \A b \in BasesIn(id, batch) : b < id /\ b \in batch
            BY StoreAssumption DEF BasesIn
      <2>2. Max(BasesIn(id, batch)) \in BasesIn(id, batch)
            BY <1>2, <2>1, MaxIs
      <2>3. QED
            BY <2>1, <2>2 DEF DeltaBase
<1>3. QED
      BY <1>1, <1>2

\* An index stays sound when packs are added and appended to.
LEMMA SoundGrows ==
    ASSUME NEW ix, NEW pk, NEW pk2, Sound(ix, pk), DOMAIN pk \subseteq DOMAIN pk2,
           \A n \in DOMAIN pk : pk[n] \subseteq pk2[n]
    PROVE  Sound(ix, pk2)
BY DEF Sound

LEMMA SoundStep ==
    ASSUME Sound(index, packs), UNCHANGED <<index, packs>>
    PROVE  Sound(index, packs)'
BY DEF Sound

\* Only the command that holds the lock has something to keep.
LEMMA IdleInv ==
    ASSUME job' = NoJob
    PROVE  CommitInv' /\ RepackInv' /\ GcInv'
BY DEF CommitInv, RepackInv, GcInv, Step

LEMMA OneKind ==
    /\ job'.kind = "commit" => RepackInv' /\ GcInv'
    /\ job'.kind = "repack" => CommitInv' /\ GcInv'
    /\ job'.kind = "gc" => CommitInv' /\ RepackInv'
BY DEF CommitInv, RepackInv, GcInv, Step

\* What gc keeps depends on the refs alone.
LEMMA KeptSame ==
    ASSUME refs' = refs
    PROVE  Reach' = Reach /\ Kept' = Kept
BY DEF Reach, Kept, Tips

-----------------------------------------------------------------------------
(* commit *)

LEMMA CommitStartInv ==
    ASSUME StoreInv, NEW r \in Ref, NEW s \in State, CommitStart(r, s)
    PROVE  StoreInv'
<1>1. /\ job' = [NewJob("commit", "blobs") EXCEPT
                    !.ref = r, !.state = s, !.todo = ManifestOf[s]]
      /\ UNCHANGED <<loose, index, packs, manifests, timeline, refs>>
      /\ refs[r] # NoState /\ ParentsOf[s] = {refs[r]}
      BY DEF CommitStart
<1>2. /\ Same(NewJob("commit", "blobs"), job', {"ref", "state", "todo"})
      /\ job'.kind = "commit" /\ job'.step = "blobs" /\ job'.ref = r /\ job'.state = s
      /\ job'.todo = ManifestOf[s] /\ job'.batch = {} /\ job'.index = index
      /\ job'.prune = FALSE /\ job'.history = {}
      BY <1>1 DEF Same, NewJob, Fields
<1>3. Typed(job')
      BY <1>2, StoreAssumption DEF Typed, StoreInv, TypeInv, Same
<1>4. TypeInv'
      BY <1>1, <1>3 DEF StoreInv, TypeInv
<1>5. CommitInv'
      BY <1>1, <1>2 DEF CommitInv
<1>6. QED
      BY <1>1, <1>2, <1>4, <1>5, OneKind, SoundStep DEF StoreInv

LEMMA WriteBlobInv ==
    ASSUME StoreInv, WriteBlob
    PROVE  StoreInv'
<1>1. /\ job # NoJob /\ Typed(job) /\ job.kind = "commit" /\ job.step = "blobs"
      /\ UNCHANGED <<index, packs, manifests, timeline, refs>>
      BY DEF WriteBlob, Step, StoreInv, TypeInv
<1>2. CASE job.todo = {}
      <2>1. /\ job' = [job EXCEPT !.step = "manifest"] /\ loose' = loose
            BY <1>2 DEF WriteBlob, Goto
      <2>2. /\ Same(job, job', {"step"}) /\ job'.step = "manifest"
            BY <1>1, <2>1 DEF Same, Typed, Fields
      <2>3. TypeInv'
            BY <1>1, <2>1, <2>2 DEF StoreInv, TypeInv, Typed, Same, Fields
      <2>4. CommitInv' /\ job'.kind = "commit"
            BY <1>1, <1>2, <2>1, <2>2 DEF StoreInv, CommitInv, Same, Fields, Stored, Packed
      <2>5. QED
            BY <1>1, <2>3, <2>4, OneKind, SoundStep DEF StoreInv
<1>3. CASE job.todo # {}
      <2>1. /\ job' = [job EXCEPT !.todo = @ \ {First}]
            /\ loose' = loose \cup ({First} \ Stored)
            BY <1>3 DEF WriteBlob
      <2>2. /\ Same(job, job', {"todo"}) /\ job'.todo = job.todo \ {First}
            BY <1>1, <2>1 DEF Same, Typed, Fields
      <2>3. First \in job.todo /\ First \in Blob
            BY <1>1, <1>3, FirstIs DEF StoreInv
      <2>4. TypeInv'
            BY <1>1, <2>1, <2>2, <2>3 DEF StoreInv, TypeInv, Typed, Same, Fields
      <2>5. CommitInv' /\ job'.kind = "commit"
            BY <1>1, <2>1, <2>2, <2>3 DEF StoreInv, CommitInv, Same, Fields, Stored, Packed
      <2>6. QED
            BY <1>1, <2>4, <2>5, OneKind, SoundStep DEF StoreInv
<1>4. QED
      BY <1>2, <1>3

LEMMA WriteManifestInv ==
    ASSUME StoreInv, WriteManifest
    PROVE  StoreInv'
<1>1. /\ job # NoJob /\ Typed(job) /\ job.kind = "commit" /\ job.step = "manifest"
      /\ manifests' = manifests \cup {ManifestOf[job.state]}
      /\ job' = [job EXCEPT !.step = "entry"]
      /\ UNCHANGED <<loose, index, packs, timeline, refs>>
      BY DEF WriteManifest, Step, Goto, StoreInv, TypeInv
<1>2. /\ Same(job, job', {"step"}) /\ job'.step = "entry"
      BY <1>1 DEF Same, Typed, Fields
<1>3. ManifestOf[job.state] \subseteq Blob
      BY <1>1, StoreAssumption DEF Typed
<1>4. TypeInv'
      BY <1>1, <1>2, <1>3 DEF StoreInv, TypeInv, Typed, Same, Fields
<1>5. CommitInv' /\ job'.kind = "commit"
      BY <1>1, <1>2 DEF StoreInv, CommitInv, Same, Fields, Stored, Packed
<1>6. QED
      BY <1>1, <1>4, <1>5, OneKind, SoundStep DEF StoreInv

LEMMA WriteEntryInv ==
    ASSUME StoreInv, WriteEntry
    PROVE  StoreInv'
<1>1. /\ job # NoJob /\ Typed(job) /\ job.kind = "commit" /\ job.step = "entry"
      /\ timeline' = timeline \cup {job.state}
      /\ job' = [job EXCEPT !.step = "ref"]
      /\ UNCHANGED <<loose, index, packs, manifests, refs>>
      BY DEF WriteEntry, Step, Goto, StoreInv, TypeInv
<1>2. /\ Same(job, job', {"step"}) /\ job'.step = "ref"
      BY <1>1 DEF Same, Typed, Fields
<1>3. TypeInv'
      BY <1>1, <1>2 DEF StoreInv, TypeInv, Typed, Same, Fields
<1>4. CommitInv' /\ job'.kind = "commit"
      BY <1>1, <1>2 DEF StoreInv, CommitInv, Same, Fields, Stored, Packed
<1>5. QED
      BY <1>1, <1>3, <1>4, OneKind, SoundStep DEF StoreInv

LEMMA WriteRefInv ==
    ASSUME StoreInv, WriteRef
    PROVE  StoreInv'
<1>1. /\ job # NoJob /\ Typed(job)
      /\ refs' = [refs EXCEPT ![job.ref] = job.state]
      /\ job' = NoJob
      /\ UNCHANGED <<loose, index, packs, manifests, timeline>>
      BY DEF WriteRef, Step, Release, StoreInv, TypeInv
<1>2. TypeInv'
      BY <1>1 DEF StoreInv, TypeInv, Typed
<1>3. QED
      BY <1>1, <1>2, IdleInv, SoundStep DEF StoreInv

-----------------------------------------------------------------------------
(* repack *)

LEMMA RepackStartInv ==
    ASSUME StoreInv, RepackStart
    PROVE  StoreInv'
<1>1. /\ job' = [NewJob("repack", "pack") EXCEPT !.todo = loose, !.batch = loose]
      /\ packs' = Append(packs, {}) /\ Len(packs) + 1 <= MaxPacks
      /\ UNCHANGED <<loose, index, manifests, timeline, refs>>
      BY DEF RepackStart, NextPack
<1>2. /\ DOMAIN job' = Fields
      /\ job'.kind = "repack" /\ job'.step = "pack" /\ job'.state = Root
      /\ job'.todo = loose /\ job'.batch = loose /\ job'.index = index
      /\ job'.prune = FALSE /\ job'.history = {} /\ job'.ref = CHOOSE r \in Ref : TRUE
      BY <1>1 DEF NewJob, Fields
<1>3. /\ Typed(job')
      BY <1>2, StoreAssumption DEF Typed, StoreInv, TypeInv
<1>4. /\ packs \in Seq(SUBSET Entry) /\ Len(packs') = Len(packs) + 1
      /\ packs' \in Seq(SUBSET Entry)
      /\ DOMAIN packs \subseteq DOMAIN packs'
      /\ \A n \in DOMAIN packs : packs'[n] = packs[n]
      BY <1>1 DEF StoreInv, TypeInv
<1>5. TypeInv'
      BY <1>1, <1>3, <1>4 DEF StoreInv, TypeInv
<1>6. Sound(index, packs') /\ Sound(index, packs)'
      BY <1>1, <1>4, SoundGrows DEF StoreInv
<1>7. RepackInv'
      BY <1>1, <1>2, <1>4, <1>6 DEF RepackInv, Step, Packed
<1>8. QED
      BY <1>2, <1>5, <1>6, <1>7, OneKind DEF StoreInv

LEMMA PackBlobInv ==
    ASSUME StoreInv, PackBlob
    PROVE  StoreInv'
<1>. DEFINE n    == Len(packs)
            base == DeltaBase(First, job.batch)
            ix   == [b \in DOMAIN job.index \cup {First} |->
                        IF b = First THEN [pack |-> n, base |-> base] ELSE job.index[b]]
            pk   == [packs EXCEPT ![n] = @ \cup {[id |-> First, base |-> base]}]
<1>1. /\ Step("repack", "pack") /\ job # NoJob /\ job.todo # {} /\ Typed(job)
      /\ packs' = pk
      /\ job' = [job EXCEPT !.todo = @ \ {First}, !.index = ix]
      /\ UNCHANGED <<loose, index, manifests, timeline, refs>>
      BY DEF PackBlob, Step, StoreInv, TypeInv
<1>2. /\ First \in job.todo /\ First \in Blob /\ \A id \in job.todo : First <= id
      BY <1>1, FirstIs DEF StoreInv
<1>3. base # NoBlob => base \in job.batch /\ base < First
      BY <1>1, <1>2, DeltaBaseIs DEF Typed
<1>4. /\ packs \in Seq(SUBSET Entry) /\ n >= 1 /\ n <= MaxPacks
      /\ Sound(job.index, packs) /\ Packed \subseteq DOMAIN job.index
      /\ job.todo \subseteq job.batch /\ job.batch \ job.todo \subseteq DOMAIN job.index
      BY <1>1 DEF StoreInv, RepackInv, TypeInv
<1>5. base # NoBlob => base \in DOMAIN job.index /\ base \in Blob
      <2>1. ASSUME base # NoBlob, base \in job.todo PROVE FALSE
            <3>1. base \in Nat /\ First \in Nat
                  BY <1>1, <1>2, <2>1, StoreAssumption DEF Typed
            <3>2. QED
                  BY <1>2, <1>3, <2>1, <3>1
      <2>2. QED
            BY <1>1, <1>3, <1>4, <2>1 DEF Typed
<1>. HIDE DEF base
<1>6. /\ pk \in Seq(SUBSET Entry) /\ Len(pk) = n /\ DOMAIN pk = DOMAIN packs
      /\ \A m \in DOMAIN packs : packs[m] \subseteq pk[m]
      /\ n \in DOMAIN pk /\ [id |-> First, base |-> base] \in pk[n]
      BY <1>2, <1>4, <1>5 DEF Entry
<1>. HIDE DEF pk
<1>7. /\ DOMAIN ix = DOMAIN job.index \cup {First}
      /\ ix[First] = [pack |-> n, base |-> base]
      /\ \A b \in DOMAIN job.index \ {First} : ix[b] = job.index[b]
      OBVIOUS
<1>. HIDE DEF ix
<1>8. ix[First] \in Place
      BY <1>4, <1>5, <1>7, StoreAssumption DEF Place
<1>9. Sound(ix, pk)
      <2>1. Sound(job.index, pk)
            BY <1>4, <1>6, SoundGrows
      <2>2. ASSUME NEW id \in DOMAIN ix
            PROVE  /\ id \in Blob /\ ix[id] \in Place
                   /\ ix[id].pack \in DOMAIN pk
                   /\ [id |-> id, base |-> ix[id].base] \in pk[ix[id].pack]
                   /\ ix[id].base # NoBlob => ix[id].base \in DOMAIN ix /\ ix[id].base < id
            <3>1. CASE id = First
                  BY <1>2, <1>3, <1>5, <1>6, <1>7, <1>8, <3>1
            <3>2. CASE id # First
                  BY <1>7, <2>1, <3>2 DEF Sound
            <3>3. QED
                  BY <3>1, <3>2
      <2>3. QED
            BY <2>2 DEF Sound
<1>10. /\ Same(job, job', {"todo", "index"})
       /\ job'.todo = job.todo \ {First} /\ job'.index = ix
       BY <1>1 DEF Same, Typed, Fields
<1>11. Typed(job')
       BY <1>1, <1>9, <1>10 DEF Typed, Same, Fields, Sound
<1>12. TypeInv'
       BY <1>1, <1>4, <1>6, <1>11 DEF StoreInv, TypeInv
<1>13. Sound(index, packs)'
       <2>1. Sound(index, pk)
             BY <1>6, SoundGrows DEF StoreInv
       <2>2. QED
             BY <1>1, <2>1
<1>14. RepackInv' /\ job'.kind = "repack"
       BY <1>1, <1>4, <1>6, <1>7, <1>9, <1>10 DEF RepackInv, Step, Packed, Same, Fields
<1>15. QED
       BY <1>12, <1>13, <1>14, OneKind DEF StoreInv

LEMMA SavePackedInv ==
    ASSUME StoreInv, SavePacked
    PROVE  StoreInv'
<1>1. /\ Step("repack", "pack") /\ job # NoJob /\ job.todo = {} /\ Typed(job)
      /\ index' = job.index
      /\ job' = [job EXCEPT !.step = "loose", !.todo = job.batch]
      /\ UNCHANGED <<loose, packs, manifests, timeline, refs>>
      BY DEF SavePacked, Step, StoreInv, TypeInv
<1>2. /\ Sound(job.index, packs) /\ job.batch \subseteq DOMAIN job.index
      BY <1>1 DEF StoreInv, RepackInv
<1>3. /\ Same(job, job', {"step", "todo"}) /\ job'.todo = job.batch /\ job'.step = "loose"
      BY <1>1 DEF Same, Typed, Fields
<1>4. TypeInv'
      BY <1>1, <1>3 DEF StoreInv, TypeInv, Typed, Same, Fields
<1>5. Sound(index, packs)'
      BY <1>1, <1>2
<1>6. RepackInv' /\ job'.kind = "repack"
      BY <1>1, <1>2, <1>3 DEF RepackInv, Step, Packed, Same, Fields
<1>7. QED
      BY <1>4, <1>5, <1>6, OneKind DEF StoreInv

LEMMA UnlinkLooseInv ==
    ASSUME StoreInv, UnlinkLoose
    PROVE  StoreInv'
<1>1. /\ Step("repack", "loose") /\ job # NoJob /\ Typed(job)
      /\ UNCHANGED <<index, packs, manifests, timeline, refs>>
      BY DEF UnlinkLoose, Step, StoreInv, TypeInv
<1>2. CASE job.todo = {}
      <2>1. job' = NoJob /\ loose' = loose
            BY <1>2 DEF UnlinkLoose, Release
      <2>2. TypeInv'
            BY <1>1, <2>1 DEF StoreInv, TypeInv
      <2>3. QED
            BY <1>1, <2>1, <2>2, IdleInv, SoundStep DEF StoreInv
<1>3. CASE job.todo # {}
      <2>1. /\ job' = [job EXCEPT !.todo = @ \ {First}] /\ loose' = loose \ {First}
            BY <1>3 DEF UnlinkLoose
      <2>2. /\ Same(job, job', {"todo"}) /\ job'.todo = job.todo \ {First}
            BY <1>1, <2>1 DEF Same, Typed, Fields
      <2>3. TypeInv'
            BY <1>1, <2>1, <2>2 DEF StoreInv, TypeInv, Typed, Same, Fields
      <2>4. RepackInv' /\ job'.kind = "repack"
            BY <1>1, <2>1, <2>2 DEF StoreInv, RepackInv, Step, Packed, Same, Fields
      <2>5. QED
            BY <1>1, <2>3, <2>4, OneKind, SoundStep DEF StoreInv
<1>4. QED
      BY <1>2, <1>3

-----------------------------------------------------------------------------
(* gc *)

LEMMA GcStartInv ==
    ASSUME StoreInv, NEW prune \in BOOLEAN, NEW pruneHistory \in BOOLEAN,
           GcStart(prune, pruneHistory)
    PROVE  StoreInv'
<1>. DEFINE ids     == Stored \ Kept
            entries == timeline \ Reach
            files   == manifests \ {ManifestOf[s] : s \in Reach}
            history == IF pruneHistory
                       THEN {<<"timeline", s>> : s \in entries}
                              \cup {<<"states", m>> : m \in files}
                       ELSE {}
<1>1. /\ job' = [NewJob("gc", "loose") EXCEPT !.prune = prune,
                      !.todo = IF prune THEN ids ELSE {}, !.history = history]
      /\ UNCHANGED <<loose, index, packs, manifests, timeline, refs>>
      BY DEF GcStart, Kept
<1>. HIDE DEF history, ids
<1>2. /\ DOMAIN job' = Fields
      /\ job'.kind = "gc" /\ job'.step = "loose" /\ job'.state = Root
      /\ job'.todo = (IF prune THEN ids ELSE {}) /\ job'.batch = {} /\ job'.index = index
      /\ job'.prune = prune /\ job'.history = history /\ job'.ref = CHOOSE r \in Ref : TRUE
      BY <1>1 DEF NewJob, Fields
<1>3. ids \subseteq Blob
      BY DEF ids, StoreInv, TypeInv, Stored, Packed
<1>4. Typed(job')
      BY <1>2, <1>3, StoreAssumption DEF Typed, StoreInv, TypeInv
<1>5. TypeInv'
      BY <1>1, <1>4 DEF StoreInv, TypeInv
<1>6. \A file \in history : file[1] = "timeline" => file[2] \notin Reach
      BY DEF history
<1>7. GcInv'
      BY <1>1, <1>2, <1>6, KeptSame DEF GcInv, Step, Stored, Packed, ids
<1>8. QED
      BY <1>1, <1>2, <1>5, <1>7, OneKind, SoundStep DEF StoreInv

LEMMA RemoveLooseInv ==
    ASSUME StoreInv, RemoveLoose
    PROVE  StoreInv'
<1>1. /\ Step("gc", "loose") /\ job # NoJob /\ job.todo # {} /\ Typed(job)
      /\ loose' = loose \ {First}
      /\ job' = [job EXCEPT !.step = "packed"]
      /\ UNCHANGED <<index, packs, manifests, timeline, refs>>
      BY DEF RemoveLoose, Goto, Step, StoreInv, TypeInv
<1>2. /\ Same(job, job', {"step"}) /\ job'.step = "packed"
      BY <1>1 DEF Same, Typed, Fields
<1>3. TypeInv'
      BY <1>1, <1>2 DEF StoreInv, TypeInv, Typed, Same, Fields
<1>4. First' = First
      BY <1>2 DEF First, Same, Fields
<1>5. GcInv' /\ job'.kind = "gc"
      BY <1>1, <1>2, <1>4, KeptSame DEF StoreInv, GcInv, Step, Stored, Packed, Same, Fields
<1>6. QED
      BY <1>1, <1>3, <1>5, OneKind, SoundStep DEF StoreInv

LEMMA ReencodeInv ==
    ASSUME StoreInv, Reencode
    PROVE  StoreInv'
<1>. DEFINE deps == Dependents(First)
            pk   == [n \in DOMAIN packs |->
                        packs[n] \cup {[id |-> d, base |-> NoBlob] :
                                          d \in {e \in deps : index[e].pack = n}}]
            ix   == [b \in Packed \ {First} |->
                        IF b \in deps THEN [index[b] EXCEPT !.base = NoBlob] ELSE index[b]]
<1>1. /\ Step("gc", "packed") /\ job # NoJob /\ Typed(job)
      /\ packs' = pk
      /\ job' = [job EXCEPT !.step = "index", !.index = ix]
      /\ UNCHANGED <<loose, index, manifests, timeline, refs>>
      BY DEF Reencode, Step, StoreInv, TypeInv
<1>2. /\ packs \in Seq(SUBSET Entry) /\ Len(packs) <= MaxPacks
      /\ Sound(index, packs) /\ First \notin loose /\ job.todo # {}
      BY <1>1 DEF StoreInv, TypeInv, GcInv
<1>3. deps = {d \in DOMAIN index : index[d].base = First}
      BY DEF Dependents, Packed
<1>4. /\ pk \in Seq(SUBSET Entry) /\ Len(pk) = Len(packs) /\ DOMAIN pk = DOMAIN packs
      /\ \A n \in DOMAIN packs : packs[n] \subseteq pk[n]
      /\ \A d \in deps : [id |-> d, base |-> NoBlob] \in pk[index[d].pack]
      <2>1. ASSUME NEW n \in DOMAIN packs PROVE pk[n] \in SUBSET Entry
            <3>. DEFINE again == {[id |-> d, base |-> NoBlob] :
                                     d \in {e \in deps : index[e].pack = n}}
            <3>1. deps \subseteq Blob
                  BY <1>2, <1>3 DEF Sound
            <3>2. again \subseteq Entry
                  BY <3>1 DEF Entry
            <3>3. packs[n] \subseteq Entry /\ pk[n] = packs[n] \cup again
                  BY <1>2
            <3>4. QED
                  BY <3>2, <3>3
      <2>2. DOMAIN pk = 1 .. Len(packs) /\ Len(packs) \in Nat
            BY <1>2
      <2>3. pk \in Seq(SUBSET Entry) /\ Len(pk) = Len(packs)
            BY <2>1, <2>2
      <2>4. QED
            BY <1>2, <1>3, <2>2, <2>3 DEF Sound
<1>. HIDE DEF pk
<1>5. /\ DOMAIN ix = DOMAIN index \ {First}
      /\ \A b \in DOMAIN index \ {First} :
            ix[b] = IF b \in deps THEN [index[b] EXCEPT !.base = NoBlob] ELSE index[b]
      BY DEF Packed
<1>. HIDE DEF ix
<1>6. Sound(ix, pk)
      <2>1. Sound(index, pk)
            BY <1>2, <1>4, SoundGrows
      <2>2. ASSUME NEW id \in DOMAIN ix
            PROVE  /\ id \in Blob /\ ix[id] \in Place
                   /\ ix[id].pack \in DOMAIN pk
                   /\ [id |-> id, base |-> ix[id].base] \in pk[ix[id].pack]
                   /\ ix[id].base # NoBlob => ix[id].base \in DOMAIN ix /\ ix[id].base < id
            <3>1. CASE id \in deps
                  <4>1. ix[id] = [index[id] EXCEPT !.base = NoBlob] /\ index[id] \in Place
                        BY <1>5, <2>1, <3>1 DEF Sound
                  <4>2. /\ ix[id] \in Place /\ ix[id].base = NoBlob
                        /\ ix[id].pack = index[id].pack
                        BY <4>1 DEF Place
                  <4>3. QED
                        BY <1>4, <1>5, <2>1, <3>1, <4>2 DEF Sound
            <3>2. CASE id \notin deps
                  <4>1. ix[id] = index[id] /\ index[id].base # First
                        BY <1>3, <1>5, <3>2
                  <4>2. QED
                        BY <1>5, <2>1, <4>1 DEF Sound
            <3>3. QED
                  BY <3>1, <3>2
      <2>3. QED
            BY <2>2 DEF Sound
<1>7. /\ Same(job, job', {"step", "index"}) /\ job'.step = "index" /\ job'.index = ix
      BY <1>1 DEF Same, Typed, Fields
<1>8. Typed(job')
      BY <1>1, <1>6, <1>7 DEF Typed, Same, Fields, Sound
<1>9. TypeInv'
      BY <1>1, <1>2, <1>4, <1>8 DEF StoreInv, TypeInv
<1>10. Sound(index, packs)'
       <2>1. Sound(index, pk)
             BY <1>2, <1>4, SoundGrows
       <2>2. QED
             BY <1>1, <2>1
<1>11. First' = First
       BY <1>7 DEF First, Same, Fields
<1>12. GcInv' /\ job'.kind = "gc"
       BY <1>1, <1>2, <1>5, <1>6, <1>7, <1>11, KeptSame
          DEF StoreInv, GcInv, Step, Stored, Packed, Same, Fields
<1>13. QED
       BY <1>9, <1>10, <1>12, OneKind DEF StoreInv

LEMMA SaveRemovedInv ==
    ASSUME StoreInv, SaveRemoved
    PROVE  StoreInv'
<1>1. /\ Step("gc", "index") /\ job # NoJob /\ Typed(job)
      /\ index' = job.index
      /\ job' = [job EXCEPT !.step = "loose", !.todo = @ \ {First}]
      /\ UNCHANGED <<loose, packs, manifests, timeline, refs>>
      BY DEF SaveRemoved, Step, StoreInv, TypeInv
<1>2. /\ Sound(job.index, packs) /\ DOMAIN job.index = Packed \ {First}
      /\ First \notin loose /\ job.todo # {}
      BY <1>1 DEF StoreInv, GcInv
<1>3. /\ Same(job, job', {"step", "todo"}) /\ job'.step = "loose"
      /\ job'.todo = job.todo \ {First}
      BY <1>1 DEF Same, Typed, Fields
<1>4. TypeInv'
      BY <1>1, <1>3 DEF StoreInv, TypeInv, Typed, Same, Fields
<1>5. Sound(index, packs)'
      BY <1>1, <1>2
<1>6. GcInv' /\ job'.kind = "gc"
      BY <1>1, <1>2, <1>3, KeptSame DEF StoreInv, GcInv, Step, Stored, Packed, Same, Fields
<1>7. QED
      BY <1>4, <1>5, <1>6, OneKind DEF StoreInv

LEMMA RemoveHistoryInv ==
    ASSUME StoreInv, RemoveHistory
    PROVE  StoreInv'
<1>1. PICK file \in job.history :
         /\ job' = [job EXCEPT !.history = @ \ {file}]
         /\ timeline' \subseteq timeline /\ manifests' \subseteq manifests
      BY DEF RemoveHistory
<1>2. /\ Step("gc", "loose") /\ job # NoJob /\ Typed(job)
      /\ UNCHANGED <<loose, index, packs, refs>>
      BY DEF RemoveHistory, Step, StoreInv, TypeInv
<1>3. /\ Same(job, job', {"history"}) /\ job'.history = job.history \ {file}
      BY <1>1, <1>2 DEF Same, Typed, Fields
<1>4. TypeInv'
      BY <1>1, <1>2, <1>3 DEF StoreInv, TypeInv, Typed, Same, Fields
<1>5. GcInv' /\ job'.kind = "gc"
      BY <1>2, <1>3, KeptSame DEF StoreInv, GcInv, Step, Stored, Packed, Same, Fields
<1>6. QED
      BY <1>2, <1>4, <1>5, OneKind, SoundStep DEF StoreInv

-----------------------------------------------------------------------------
(* The invariant. *)

LEMMA PointRefInv ==
    ASSUME StoreInv, NEW r \in Ref, NEW s \in State \cup {NoState}, PointRef(r, s)
    PROVE  StoreInv'
<1>1. TypeInv'
      BY DEF PointRef, StoreInv, TypeInv
<1>2. QED
      BY <1>1, IdleInv, SoundStep DEF PointRef, StoreInv

LEMMA PruneRefsInv ==
    ASSUME StoreInv, PruneRefs
    PROVE  StoreInv'
<1>1. TypeInv'
      BY DEF PruneRefs, StoreInv, TypeInv
<1>2. QED
      BY <1>1, IdleInv, SoundStep DEF PruneRefs, StoreInv

LEMMA EndInv ==
    ASSUME StoreInv, GcEnd \/ Stop
    PROVE  StoreInv'
<1>1. job' = NoJob /\ UNCHANGED <<loose, index, packs, manifests, timeline, refs>>
      BY DEF GcEnd, Stop, Release
<1>2. TypeInv'
      BY <1>1 DEF StoreInv, TypeInv
<1>3. QED
      BY <1>1, <1>2, IdleInv, SoundStep DEF StoreInv

LEMMA StoreInitInv == StoreInit => StoreInv
<1>. SUFFICES ASSUME StoreInit PROVE StoreInv
     OBVIOUS
<1>1. TypeInv
      BY StoreAssumption DEF StoreInit, TypeInv
<1>2. Sound(index, packs)
      BY DEF StoreInit, Sound
<1>3. CommitInv /\ RepackInv /\ GcInv
      BY DEF StoreInit, CommitInv, RepackInv, GcInv, Step
<1>4. QED
      BY <1>1, <1>2, <1>3 DEF StoreInv

LEMMA StoreNextInv == StoreInv /\ [StoreNext]_storeVars => StoreInv'
<1>. SUFFICES ASSUME StoreInv, [StoreNext]_storeVars
              PROVE  StoreInv'
     OBVIOUS
<1>1. CASE UNCHANGED storeVars
      <2>1. TypeInv' /\ Sound(index, packs)'
            BY <1>1, SoundStep DEF StoreInv, TypeInv, storeVars
      <2>2. CommitInv' /\ RepackInv'
            BY <1>1 DEF StoreInv, CommitInv, RepackInv, Step, Stored, Packed, storeVars
      <2>3. First' = First
            BY <1>1 DEF First, storeVars
      <2>4. GcInv'
            BY <1>1, <2>3, KeptSame DEF StoreInv, GcInv, Step, Stored, Packed, storeVars
      <2>5. QED
            BY <2>1, <2>2, <2>4 DEF StoreInv
<1>2. QED
      BY <1>1, CommitStartInv, WriteBlobInv, WriteManifestInv, WriteEntryInv, WriteRefInv,
         RepackStartInv, PackBlobInv, SavePackedInv, UnlinkLooseInv,
         GcStartInv, RemoveLooseInv, ReencodeInv, SaveRemovedInv, RemoveHistoryInv,
         PointRefInv, PruneRefsInv, EndInv DEF StoreNext

LEMMA StoreAlways == StoreSpec => []StoreInv
BY StoreInitInv, StoreNextInv, PTL DEF StoreSpec

\* Every file of the store keeps its form: no pack number is used twice or beyond the
\* packs there are, and no id comes to hang on something that is not a blob.
THEOREM StoreTyped == StoreSpec => []StoreTypeOK
<1>1. StoreInv => StoreTypeOK
      BY TypeInvIs DEF StoreInv
<1>2. QED
      BY <1>1, StoreAlways, PTL

\* When the blobs have been dealt with, gc has left none that nothing reaches, whatever
\* copies interrupted repacks had made: the loose copy and the packed one are both removed
\* for each id before the next (BlobStore::remove).
THEOREM GcReclaimsAll == StoreSpec => []GcReclaims
<1>1. StoreInv => GcReclaims
      BY DEF StoreInv, GcInv, GcReclaims, Step, Kept
<1>2. QED
      BY <1>1, StoreAlways, PTL

-----------------------------------------------------------------------------
(* Reading. *)

\* In a sound index the recursion of read_bytes ends: what is packed unpacks.
LEMMA PackedUnpacks ==
    ASSUME StoreInv
    PROVE  \A id \in Blob : Unpacks[id] <=> id \in Packed
<1>. DEFINE ReadsFrom(f, id) == /\ id \in Packed /\ InPack(id, index[id])
                                /\ index[id].base # NoBlob => f[index[id].base]
            whole == [id \in Blob |-> id \in Packed]
<1>1. \A id \in Packed : /\ id \in Blob /\ InPack(id, index[id])
                         /\ index[id].base # NoBlob =>
                               /\ index[id].base \in Packed /\ index[id].base \in Blob
                               /\ index[id].base < id
      BY DEF StoreInv, Sound, Packed, InPack
<1>2. whole = [id \in Blob |-> ReadsFrom(whole, id)]
      <2>1. ASSUME NEW id \in Blob PROVE (id \in Packed) = ReadsFrom(whole, id)
            <3>1. \A b \in Blob : b \in Packed => whole[b]
                  OBVIOUS
            <3>. HIDE DEF whole
            <3>2. CASE id \in Packed
                  <4>1. ReadsFrom(whole, id)
                        BY <1>1, <3>1, <3>2
                  <4>2. QED
                        BY <3>2, <4>1, Zenon
            <3>3. CASE id \notin Packed
                  <4>1. ~ReadsFrom(whole, id)
                        BY <3>3
                  <4>. HIDE DEF ReadsFrom
                  <4>2. (id \in Packed) = FALSE
                        BY <3>3
                  <4>3. ReadsFrom(whole, id) = FALSE
                        BY <4>1
                  <4>4. QED
                        BY <4>2, <4>3
            <3>4. QED
                  BY <3>2, <3>3
      <2>2. QED
            BY <2>1
<1>3. Unpacks = CHOOSE f : f = [id \in Blob |-> ReadsFrom(f, id)]
      BY DEF Unpacks
<1>4. Unpacks = [id \in Blob |-> ReadsFrom(Unpacks, id)]
      BY <1>2, <1>3
<1>5. \A id \in Blob : Unpacks[id] = ReadsFrom(Unpacks, id)
      BY <1>4
<1>6. ASSUME NEW x \in Packed, ~Unpacks[x] PROVE FALSE
      <2>. DEFINE T == {id \in Packed : ~Unpacks[id]}
      <2>1. T \in SUBSET Nat /\ T # {}
            BY <1>1, <1>6, StoreAssumption
      <2>2. PICK id \in T : \A y \in T : id <= y
            BY <2>1, LeastNumber
      <2>3. id \in Packed /\ id \in Blob /\ ~ReadsFrom(Unpacks, id)
            BY <1>1, <1>5, <2>2
      <2>4. index[id].base # NoBlob /\ ~Unpacks[index[id].base]
            BY <1>1, <2>3
      <2>5. index[id].base \in T /\ index[id].base < id
            BY <1>1, <2>3, <2>4
      <2>6. index[id].base \in Nat /\ id \in Nat
            BY <2>1, <2>2, <2>5
      <2>7. QED
            BY <2>2, <2>5, <2>6
<1>7. QED
      BY <1>5, <1>6

LEMMA StoredIsRead ==
    ASSUME StoreInv
    PROVE  \A id \in Blob : Reads(id) <=> id \in Stored
BY PackedUnpacks DEF Reads, Stored

\* The same after a step.
LEMMA StoredIsReadNext == StoreInv' => (\A id \in Blob : Reads(id) <=> id \in Stored)'
<1>1. StoreInv => (\A id \in Blob : Reads(id) <=> id \in Stored)
      BY StoredIsRead
<1>2. QED
      BY <1>1, PTL

\* A blob that the store says it contains reads back, at every moment: a repack saves its
\* index after the packs, and a removal first appends anew what hangs on the removed blob.
\* The recursion over delta bases ends because a base has a lesser id (pick_delta_base).
THEOREM StoredAreRead == StoreSpec => []StoredReads
<1>1. StoreInv => StoredReads
      <2>1. SUFFICES ASSUME StoreInv PROVE StoredReads
            OBVIOUS
      <2>2. Stored \subseteq Blob
            BY <2>1 DEF StoreInv, TypeInv, Stored, Packed
      <2>3. QED
            BY <2>1, <2>2, StoredIsRead DEF StoredReads
<1>2. QED
      BY <1>1, StoreAlways, PTL

\* So what a checkout loads depends on which blobs are stored, not on how.
LEMMA LoadsWhat ==
    ASSUME StoreInv, NEW s \in State
    PROVE  Loads(s) <=> s \in timeline /\ ManifestOf[s] \subseteq Stored
BY StoredIsRead, StoreAssumption DEF Loads

-----------------------------------------------------------------------------
(* What is whole stays whole. *)

\* Only gc takes blobs or entries away, and none that a ref reaches.
LEMMA KeptStays ==
    ASSUME StoreInv, StoreNext
    PROVE  /\ Kept \cap Stored \subseteq Stored'
           /\ Reach \cap timeline \subseteq timeline'
<1>1. ASSUME loose \subseteq loose', index' = index, timeline \subseteq timeline'
      PROVE  Stored \subseteq Stored' /\ timeline \subseteq timeline'
      BY <1>1 DEF Stored, Packed
<1>2. ASSUME NEW r \in Ref, NEW s \in State, CommitStart(r, s)
      PROVE  Stored \subseteq Stored' /\ timeline \subseteq timeline'
      BY <1>1, <1>2 DEF CommitStart
<1>3. CASE WriteBlob
      BY <1>1, <1>3 DEF WriteBlob
<1>4. CASE WriteManifest \/ WriteEntry \/ WriteRef
      BY <1>1, <1>4 DEF WriteManifest, WriteEntry, WriteRef
<1>5. CASE RepackStart \/ PackBlob
      BY <1>1, <1>5 DEF RepackStart, PackBlob
<1>6. CASE SavePacked
      <2>1. Packed \subseteq Packed' /\ loose' = loose /\ timeline' = timeline
            BY <1>6 DEF SavePacked, StoreInv, RepackInv, Packed
      <2>2. QED
            BY <2>1 DEF Stored
<1>7. CASE UnlinkLoose
      <2>1. index' = index /\ timeline' = timeline
            BY <1>7 DEF UnlinkLoose
      <2>2. CASE job.todo = {}
            BY <1>7, <2>1, <2>2 DEF UnlinkLoose, Stored, Packed
      <2>3. CASE job.todo # {}
            <3>1. First \in Packed /\ loose' = loose \ {First}
                  BY <1>7, <2>3, FirstIs DEF UnlinkLoose, StoreInv, RepackInv, Step
            <3>2. QED
                  BY <2>1, <3>1 DEF Stored, Packed
      <2>4. QED
            BY <2>2, <2>3
<1>8. ASSUME NEW prune \in BOOLEAN, NEW pruneHistory \in BOOLEAN, GcStart(prune, pruneHistory)
      PROVE  Stored \subseteq Stored' /\ timeline \subseteq timeline'
      BY <1>1, <1>8 DEF GcStart
<1>9. CASE RemoveLoose
      <2>1. First \notin Kept
            BY <1>9, FirstIs DEF RemoveLoose, Step, StoreInv, GcInv
      <2>2. QED
            BY <1>9, <2>1 DEF RemoveLoose, Stored, Packed
<1>10. CASE Reencode
       BY <1>1, <1>10 DEF Reencode
<1>11. CASE SaveRemoved
       <2>1. First \notin Kept
             BY <1>11, FirstIs DEF SaveRemoved, Step, StoreInv, GcInv
       <2>2. DOMAIN job.index = Packed \ {First}
             BY <1>11 DEF SaveRemoved, StoreInv, GcInv
       <2>3. QED
             BY <1>11, <2>1, <2>2 DEF SaveRemoved, Stored, Packed
<1>12. CASE RemoveHistory
       <2>1. \A file \in job.history : file[1] = "timeline" => file[2] \notin Reach
             BY <1>12 DEF RemoveHistory, Step, StoreInv, GcInv
       <2>2. QED
             BY <1>12, <2>1 DEF RemoveHistory, Stored, Packed
<1>13. CASE GcEnd \/ PruneRefs \/ Stop
       BY <1>1, <1>13 DEF GcEnd, PruneRefs, Stop
<1>14. ASSUME NEW r \in Ref, NEW s \in State \cup {NoState}, PointRef(r, s)
       PROVE  Stored \subseteq Stored' /\ timeline \subseteq timeline'
       BY <1>1, <1>14 DEF PointRef
<1>15. QED
       BY <1>2, <1>3, <1>4, <1>5, <1>6, <1>7, <1>8, <1>9, <1>10, <1>11, <1>12, <1>13, <1>14
          DEF StoreNext

\* The history of a ref that was whole is whole after any step.
LEMMA WholeStays ==
    ASSUME StoreInv, StoreInv', StoreNext, NEW r \in Ref, refs[r] # NoState, Whole(refs[r])
    PROVE  \A t \in Reachable(ParentsOf, {refs[r]}) : Loads(t)'
<1>1. SUFFICES ASSUME NEW t \in Reachable(ParentsOf, {refs[r]})
               PROVE  Loads(t)'
      OBVIOUS
<1>2. t \in State /\ Loads(t)
      BY <1>1, StoreAssumption DEF Reachable, Whole
<1>3. t \in Reach
      <2>1. {refs[r]} \subseteq Tips
            BY DEF Tips
      <2>2. ASSUME NEW C \in SUBSET DOMAIN ParentsOf, Tips \subseteq C, ParentClosed(ParentsOf, C)
            PROVE  t \in C
            BY <1>1, <2>1, <2>2 DEF Reachable
      <2>3. t \in Reachable(ParentsOf, Tips)
            BY <1>2, <2>2, StoreAssumption DEF Reachable
      <2>4. QED
            BY <2>3 DEF Reach
<1>4. t \in timeline /\ ManifestOf[t] \subseteq Stored
      BY <1>2, LoadsWhat
<1>5. ManifestOf[t] \subseteq Kept
      BY <1>3 DEF Kept
<1>6. t \in timeline' /\ ManifestOf[t] \subseteq Stored'
      BY <1>3, <1>4, <1>5, KeptStays
<1>7. \A id \in Blob : Reads(id)' <=> id \in Stored'
      BY StoredIsReadNext
<1>8. QED
      BY <1>2, <1>6, <1>7, StoreAssumption DEF Loads

\* What a child of a state reaches, but itself, its parent reaches.
LEMMA ChildReaches ==
    ASSUME NEW s \in State, NEW p \in State, ParentsOf[s] = {p},
           NEW t \in Reachable(ParentsOf, {s}), t # s
    PROVE  t \in Reachable(ParentsOf, {p})
<1>1. ParentsOf \in [State -> SUBSET State]
      BY StoreAssumption
<1>2. PICK q \in ParentsOf[s] : t \in Reachable(ParentsOf, {q})
      BY <1>1, AncestorStep
<1>3. QED
      BY <1>2

LEMMA WholeStep ==
    StoreInv /\ StoreInv' /\ [StoreNext]_storeVars =>
        [\A r \in Ref :
            refs[r] # NoState /\ Whole(refs[r]) /\ (refs'[r] = refs[r] \/ job # NoJob)
            => Whole(refs[r])']_storeVars
<1>. SUFFICES ASSUME StoreInv, StoreInv', StoreNext, NEW r \in Ref,
                     refs[r] # NoState, Whole(refs[r]), refs'[r] = refs[r] \/ job # NoJob
              PROVE  Whole(refs[r])'
     OBVIOUS
<1>1. \A t \in Reachable(ParentsOf, {refs[r]}) : Loads(t)'
      BY WholeStays
<1>2. CASE refs'[r] = refs[r]
      BY <1>1, <1>2 DEF Whole
<1>3. CASE refs'[r] # refs[r]
      <2>1. WriteRef
            BY <1>3 DEF StoreNext, CommitStart, WriteBlob, WriteManifest, WriteEntry,
               RepackStart, PackBlob, SavePacked, UnlinkLoose, GcStart, RemoveLoose, Reencode,
               SaveRemoved, RemoveHistory, GcEnd, PointRef, PruneRefs, Stop
      <2>2. /\ job # NoJob /\ job.kind = "commit" /\ job.step = "ref" /\ Typed(job)
            /\ refs' = [refs EXCEPT ![job.ref] = job.state]
            /\ UNCHANGED <<loose, index, timeline>>
            BY <2>1 DEF WriteRef, Step, StoreInv, TypeInv
      <2>3. PICK s \in State : s = job.state
            BY <2>2 DEF Typed
      <2>4. /\ refs'[r] = s
            /\ ParentsOf[s] = {refs[r]} /\ refs[r] \in State
            /\ s \in timeline' /\ ManifestOf[s] \subseteq Stored'
            <3>1. r = job.ref /\ refs'[r] = s
                  BY <1>3, <2>2, <2>3 DEF StoreInv, TypeInv, Typed
            <3>2. QED
                  BY <2>2, <2>3, <3>1 DEF StoreInv, TypeInv, CommitInv, Typed, Stored, Packed
      <2>5. Loads(s)'
            <3>1. \A id \in Blob : Reads(id)' <=> id \in Stored'
                  BY StoredIsReadNext
            <3>2. QED
                  BY <2>4, <3>1, StoreAssumption DEF Loads
      <2>6. ASSUME NEW t \in Reachable(ParentsOf, {s}) PROVE Loads(t)'
            BY <1>1, <2>4, <2>5, ChildReaches
      <2>7. QED
            BY <2>4, <2>6 DEF Whole
<1>4. QED
      BY <1>2, <1>3

\* What was whole stays whole: no commit, repack or gc, finished or stopped anywhere, breaks
\* the history of a ref, and the state that a commit adds to it is whole when the ref names it.
THEOREM RefsKeptWhole == StoreSpec => RefsStayWhole
BY StoreAlways, StoreInitInv, StoreNextInv, WholeStep, PTL DEF StoreSpec, RefsStayWhole
=============================================================================
