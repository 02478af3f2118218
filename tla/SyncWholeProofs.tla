--------------------------- MODULE SyncWholeProofs -------------------------
(***************************************************************************)
(* That refs stay whole: in a history where all ways from a state to       *)
(* another are of one length, whatever stops and wherever, what a push, a  *)
(* fetch or a clone has brought so far has no gap below it.                *)
(***************************************************************************)
EXTENDS SyncProofs

-----------------------------------------------------------------------------
(* Histories in which all ways from a state to another are of one length. *)

\* rank counts the links from each state to where its history began.
Even(rank) ==
    /\ rank \in [State -> Nat]
    /\ \A s \in State : \A p \in Parents[s] : rank[s] = rank[p] + 1

EvenHistory == \E rank : Even(rank)

\* No state of a sequence has a lower rank than one before it, or none a higher.
Ascends(rank, seq)  == \A i, j \in 1 .. Len(seq) : i <= j => rank[seq[i]] <= rank[seq[j]]
Descends(rank, seq) == \A i, j \in 1 .. Len(seq) : i <= j => rank[seq[j]] <= rank[seq[i]]

\* Each state of a walk was met as a parent of one that no open state comes before.
Traced(walk) ==
    \A j \in 2 .. Len(walk) :
        \E k \in 1 .. Len(walk) : walk[j] \in Parents[walk[k]] /\ \A i \in Open(walk) : k <= i

LEMMA OnwardDescends ==
    ASSUME PeersAssumption, NEW rank, Even(rank), NEW walk \in Seq(State), walk # <<>>,
           Traced(walk), Descends(rank, walk)
    PROVE  Traced(Onward(walk)) /\ Descends(rank, Onward(walk)) /\ Onward(walk) # <<>>
           /\ Onward(walk) \in Seq(State)
<1>1. CASE Open(walk) = {}
  BY <1>1, OnwardIs
<1>2. CASE Open(walk) # {}
  <2>1. PICK m \in Open(walk), s \in State :
            /\ \A i \in Open(walk) : m <= i
            /\ s \in Parents[walk[m]] \ ToSet(walk)
            /\ Onward(walk) = Append(walk, s)
    BY <1>2, OnwardIs
  <2> DEFINE next == Append(walk, s)
             L == Len(walk)
  <2>2. /\ L \in Nat \ {0} /\ Len(next) = L + 1 /\ next[L + 1] = s
        /\ next \in Seq(State)
        /\ \A i \in 1 .. L : next[i] = walk[i] /\ i \in 1 .. Len(next) /\ walk[i] \in State
        /\ \A i \in 1 .. Len(next) : i = L + 1 \/ i \in 1 .. L
        /\ DOMAIN next = 1 .. Len(next) /\ DOMAIN walk = 1 .. L
    BY EmptySeq
  <2>3. m \in 1 .. L
    BY <2>2 DEF Open
  <2> HIDE DEF next, L
  <2>4. ToSet(walk) \subseteq ToSet(next)
    BY <2>2 DEF ToSet
  <2>5. ASSUME NEW i \in Open(next), i \in 1 .. L PROVE i \in Open(walk)
    BY <2>2, <2>4, <2>5 DEF Open
  <2>6. \A i \in Open(next) : m <= i
    <3>1. ASSUME NEW i \in Open(next) PROVE m <= i
      <4>1. i \in 1 .. Len(next)
        BY <2>2 DEF Open
      <4>2. CASE i \in 1 .. L
        BY <2>1, <2>5, <4>2
      <4>3. CASE i = L + 1
        BY <2>2, <2>3, <4>3
      <4> QED
        BY <2>2, <4>1, <4>2, <4>3
    <3> QED
      BY <3>1
  <2>7. Traced(next)
    <3>1. ASSUME NEW j \in 2 .. Len(next)
          PROVE  \E k \in 1 .. Len(next) :
                    next[j] \in Parents[next[k]] /\ \A i \in Open(next) : k <= i
      <4>1. CASE j = L + 1
        BY <2>1, <2>2, <2>3, <2>6, <4>1
      <4>2. CASE j \in 1 .. L
        <5>0. j \in 2 .. Len(walk)
          BY <2>2, <3>1, <4>2 DEF L
        <5>1. PICK k \in 1 .. Len(walk) :
                  walk[j] \in Parents[walk[k]] /\ \A i \in Open(walk) : k <= i
          BY <5>0 DEF Traced
        <5>2. k \in 1 .. L /\ k <= m
          BY <2>1, <5>1 DEF L
        <5>3. \A i \in Open(next) : k <= i
          <6>1. \A i \in Open(next) : i \in Nat /\ m \in Nat /\ k \in Nat
            BY <2>2, <2>3, <5>2 DEF Open
          <6> QED
            BY <2>6, <5>2, <6>1
        <5> QED
          BY <2>2, <4>2, <5>1, <5>2, <5>3
      <4>3. j \in 1 .. Len(next)
        BY <2>2
      <4> QED
        BY <2>2, <4>1, <4>2, <4>3
    <3> QED
      BY <3>1 DEF Traced
  <2>8. ASSUME NEW i \in 1 .. L PROVE rank[s] <= rank[walk[i]]
    <3>1. /\ walk[m] \in State /\ rank[walk[m]] = rank[s] + 1 /\ rank[s] \in Nat
          /\ walk[i] \in State /\ rank[walk[i]] \in Nat /\ rank[walk[m]] \in Nat
      BY <2>1, <2>2, <2>3 DEF Even
    <3>2. CASE i = 1
      <4>1. rank[walk[m]] <= rank[walk[i]]
        BY <2>2, <2>3, <3>2 DEF Descends, L
      <4> QED
        BY <3>1, <4>1
    <3>3. CASE i # 1
      <4>0. i \in 2 .. Len(walk)
        BY <2>2, <3>3 DEF L
      <4>1. PICK k \in 1 .. Len(walk) :
                walk[i] \in Parents[walk[k]] /\ \A o \in Open(walk) : k <= o
        BY <4>0 DEF Traced
      <4>2. k \in 1 .. L /\ k <= m
        BY <2>1, <4>1 DEF L
      <4>3. rank[walk[m]] <= rank[walk[k]]
        BY <2>3, <4>2 DEF Descends, L
      <4>4. walk[k] \in State /\ rank[walk[k]] = rank[walk[i]] + 1 /\ rank[walk[k]] \in Nat
        BY <2>2, <4>1, <4>2 DEF Even
      <4>5. rank[s] + 1 <= rank[walk[i]] + 1
        BY <3>1, <4>3, <4>4
      <4>6. \A x, y \in Nat : x + 1 <= y + 1 => x <= y
        OBVIOUS
      <4> QED
        BY <3>1, <4>5, <4>6
    <3> QED
      BY <3>2, <3>3
  <2>9. Descends(rank, next)
    <3>1. ASSUME NEW i \in 1 .. Len(next), NEW j \in 1 .. Len(next), i <= j
          PROVE  rank[next[j]] <= rank[next[i]]
      <4>0. rank[s] \in Nat
        BY DEF Even
      <4>1. CASE j = L + 1 /\ i = L + 1
        BY <2>2, <4>0, <4>1
      <4>2. CASE j = L + 1 /\ i \in 1 .. L
        BY <2>2, <2>8, <4>2
      <4>3. CASE j \in 1 .. L
        <5>1. i \in 1 .. L
          BY <2>2, <3>1, <4>3
        <5> QED
          BY <2>2, <3>1, <4>3, <5>1 DEF Descends, L
      <4> QED
        BY <2>2, <4>1, <4>2, <4>3
    <3> QED
      BY <3>1 DEF Descends
  <2>10. next # <<>>
    <3>1. Len(next) # Len(<<>>)
      BY <2>2
    <3> QED
      BY <3>1, Zenon
  <2> QED
    BY <2>1, <2>2, <2>7, <2>9, <2>10 DEF next
<1> QED
  BY <1>1, <1>2

\* In an even history breadth first is by rank.
LEMMA AncestryDescends ==
    ASSUME PeersAssumption, NEW rank, Even(rank), NEW tip \in State, NEW depth \in Nat \ {0}
    PROVE  Descends(rank, Ancestry(tip, depth))
<1> DEFINE N == Cardinality(State)
<1>0. N \in Nat
  BY FS_CardinalityType DEF PeersAssumption
<1>1. PICK met \in [0 .. N -> Seq(State)] :
          /\ met[0] = <<tip>> /\ \A n \in 1 .. N : met[n] = Onward(met[n - 1])
          /\ \A d \in Nat \ {0} :
                \E n \in 0 .. N - 1 : Ancestry(tip, d) = met[n] /\ (d > N => n = N - 1)
  BY AncestryIs
<1> HIDE DEF N
<1> DEFINE Good(n) == met[n] # <<>> /\ Traced(met[n]) /\ Descends(rank, met[n])
<1>2. Good(0)
  <2> DEFINE w == <<tip>>
  <2>1. w # <<>> /\ Len(w) = 1 /\ w[1] = tip /\ 2 .. 1 = {}
    OBVIOUS
  <2>2. rank[tip] \in Nat
    BY DEF Even
  <2> HIDE DEF w
  <2>3. Traced(w)
    BY <2>1 DEF Traced
  <2>4. Descends(rank, w)
    <3>1. \A i \in 1 .. Len(w) : i = 1
      BY <2>1
    <3> QED
      BY <2>1, <2>2, <3>1 DEF Descends
  <2>5. met[0] = w
    BY <1>1 DEF w
  <2> QED
    BY <2>1, <2>3, <2>4, <2>5
<1>3. ASSUME NEW n \in 1 .. N, Good(n - 1) PROVE Good(n)
  <2>1. met[n] = Onward(met[n - 1]) /\ met[n - 1] \in Seq(State)
    <3>1. n - 1 \in 0 .. N
      BY <1>0
    <3> QED
      BY <1>1, <3>1
  <2> QED
    BY <1>3, <2>1, OnwardDescends
<1>4. ASSUME NEW n \in 0 .. N PROVE Good(n)
  <2> DEFINE T == {m \in 0 .. N : ~Good(m)}
  <2> HIDE DEF Good
  <2>1. SUFFICES ASSUME T # {} PROVE FALSE
    OBVIOUS
  <2>2. T \in SUBSET Nat
    BY <1>0
  <2>3. PICK m \in T : \A k \in T : m <= k
    BY <2>1, <2>2, LeastNumber
  <2>4. m # 0
    BY <1>2, <2>3
  <2>5. m \in 1 .. N /\ m - 1 \in 0 .. N /\ m - 1 \notin T
    BY <1>0, <2>3, <2>4
  <2> QED
    BY <1>3, <2>3, <2>5
<1>5. PICK n \in 0 .. N - 1 : Ancestry(tip, depth) = met[n]
  BY <1>1
<1>6. n \in 0 .. N
  BY <1>0
<1>7. Descends(rank, met[n])
  BY <1>4, <1>6
<1> QED
  BY <1>5, <1>7

\* So what is missing arrives with its parents first.
LEMMA MissingAscends ==
    ASSUME PeersAssumption, NEW rank, Even(rank), NEW walk \in Seq(State),
           Descends(rank, walk), NEW c
    PROVE  Ascends(rank, Missing(c, walk))
<1> DEFINE list == Missing(c, walk)
           back == Reverse(walk)
<1>1. list \in Seq(State) /\ InOrder(list, back)
  BY MissingIs
<1>2. /\ back \in Seq(State) /\ Len(back) = Len(walk)
      /\ \A i \in 1 .. Len(walk) : back[i] = walk[Len(walk) - i + 1]
  BY ReverseIs
<1> HIDE DEF list, back
<1>3. ASSUME NEW i \in 1 .. Len(list), NEW j \in 1 .. Len(list), i <= j
      PROVE  rank[list[i]] <= rank[list[j]]
  <2>1. CASE i = j
    <3>1. list[i] \in State
      BY <1>1
    <3> QED
      BY <2>1, <3>1 DEF Even
  <2>2. CASE i < j
    <3>1. i \in DOMAIN list /\ j \in DOMAIN list /\ DOMAIN back = 1 .. Len(walk)
      BY <1>1, <1>2
    <3>2. PICK a \in DOMAIN back, b \in DOMAIN back :
              a < b /\ list[i] = back[a] /\ list[j] = back[b]
      BY <1>1, <2>2, <3>1 DEF InOrder
    <3> DEFINE e == Len(walk) - a + 1
               d == Len(walk) - b + 1
    <3>3. a \in 1 .. Len(walk) /\ b \in 1 .. Len(walk) /\ a < b /\ Len(walk) \in Nat
      BY <3>1, <3>2
    <3>4. /\ d \in 1 .. Len(walk) /\ e \in 1 .. Len(walk) /\ d <= e
      <4>1. \A l \in Nat : \A x, y \in 1 .. l : x < y =>
                l - y + 1 \in 1 .. l /\ l - x + 1 \in 1 .. l /\ l - y + 1 <= l - x + 1
        OBVIOUS
      <4> QED
        BY <3>3, <4>1
    <3>5. back[a] = walk[Len(walk) - a + 1] /\ back[b] = walk[Len(walk) - b + 1]
      BY <1>2, <3>3
    <3>6. list[i] = walk[e] /\ list[j] = walk[d]
      BY <3>2, <3>5
    <3> HIDE DEF d, e
    <3> QED
      BY <3>4, <3>6 DEF Descends
  <2> QED
    BY <1>3, <2>1, <2>2
<1> QED
  BY <1>3 DEF Ascends, list

-----------------------------------------------------------------------------
(* What a job has still to do. *)

\* What a walk has still to look at.
Waiting(j) == IF j.step = "walk" THEN ToSet(j.queue) ELSE {}

\* A push has its tip in hand until the ref can be written.
Delivers(t, j) ==
    /\ j.kind = "push" /\ j.step \in {"walk", "blobs", "entry", "ref", "write"} =>
          j.item.tip \in t \cup ToSet(j.list) \cup Waiting(j)
    /\ j.step \in {"ref", "write"} => j.list = <<>>

\* Whatever is to be transferred arrives after its parents.
Closing(rank, t, j) ==
    (j.kind = "push" \/ j.depth = NoDepth) /\ j.step \in {"walk", "blobs", "entry"} =>
        /\ \A s \in ToSet(j.list) : Parents[s] \subseteq t \cup ToSet(j.list) \cup Waiting(j)
        /\ Ascends(rank, j.list)

\* The walk of a push goes down the ranks, one at a time.
Searching(rank, t, j) ==
    j.step = "walk" =>
        /\ j.seen \subseteq t \cup ToSet(j.list)
        /\ Descends(rank, j.queue)
        /\ \A i \in 1 .. Len(j.queue) :
              /\ rank[j.queue[1]] <= rank[j.queue[i]] + 1
              /\ \A s \in ToSet(j.list) : rank[j.queue[i]] <= rank[s]

Carries(rank, t, j) == Delivers(t, j) /\ Closing(rank, t, j) /\ Searching(rank, t, j)

\* More entries do no harm.
LEMMA CarriesMore ==
    ASSUME NEW rank, NEW t, NEW u, t \subseteq u, NEW j, Carries(rank, t, j)
    PROVE  Carries(rank, u, j)
<1>1. Delivers(u, j)
  BY DEF Carries, Delivers
<1>2. Closing(rank, u, j)
  BY DEF Carries, Closing
<1>3. Searching(rank, u, j)
  BY DEF Carries, Searching
<1> QED
  BY <1>1, <1>2, <1>3 DEF Carries

LEMMA StepCarries ==
    ASSUME NEW rank, NEW t, NEW j \in Job, Carries(rank, t, j),
           NEW step \in {"list", "tags", "track", "pick", "checkout", "entry", "write"},
           step = "entry" => j.step = "blobs", step = "write" => j.step = "ref"
    PROVE  Carries(rank, t, [j EXCEPT !.step = step])
<1> DEFINE n == [j EXCEPT !.step = step]
<1>1. /\ n.step = step /\ n.kind = j.kind /\ n.list = j.list /\ n.item = j.item
      /\ n.depth = j.depth
  BY DEF Job
<1> HIDE DEF n
<1>2. Delivers(t, n)
  BY <1>1 DEF Carries, Delivers, Waiting
<1>3. Closing(rank, t, n)
  BY <1>1 DEF Carries, Closing, Waiting
<1>4. Searching(rank, t, n)
  BY <1>1 DEF Searching
<1> QED
  BY <1>2, <1>3, <1>4 DEF Carries, n

LEMMA RankTail ==
    ASSUME NEW rank, NEW seq \in Seq(State), seq # <<>>
    PROVE  /\ Ascends(rank, seq) => Ascends(rank, Tail(seq))
           /\ Descends(rank, seq) => Descends(rank, Tail(seq))
<1>1. /\ Len(seq) \in Nat \ {0} /\ Len(Tail(seq)) = Len(seq) - 1
      /\ \A i \in 1 .. Len(seq) - 1 : Tail(seq)[i] = seq[i + 1]
  BY HeadTailProperties, EmptySeq
<1>2. \A i, j \in 1 .. Len(seq) - 1 :
          i <= j => i + 1 \in 1 .. Len(seq) /\ j + 1 \in 1 .. Len(seq) /\ i + 1 <= j + 1
  BY <1>1
<1>3. ASSUME Ascends(rank, seq) PROVE Ascends(rank, Tail(seq))
  BY <1>1, <1>2, <1>3 DEF Ascends
<1>4. ASSUME Descends(rank, seq) PROVE Descends(rank, Tail(seq))
  BY <1>1, <1>2, <1>4 DEF Descends
<1> QED
  BY <1>3, <1>4

\* The entry at the head of the list arrives.
LEMMA ArrivalCarries ==
    ASSUME NEW rank, NEW t, NEW j \in Job, Carries(rank, t, j), j.step = "entry",
           j.list # <<>>, NEW done \in {"ref", "boundary"}
    PROVE  Carries(rank, t \cup {Head(j.list)},
                   [j EXCEPT !.list = Tail(j.list),
                             !.step = IF Tail(j.list) = <<>> THEN done ELSE "blobs"])
<1> DEFINE u    == t \cup {Head(j.list)}
           rest == Tail(j.list)
           step == IF rest = <<>> THEN done ELSE "blobs"
           n    == [j EXCEPT !.list = rest, !.step = step]
<1>1. j.list \in Seq(State)
  BY DEF Job
<1>2. ToSet(j.list) = {Head(j.list)} \cup ToSet(rest)
  BY <1>1, SetOfTail
<1>3. Ascends(rank, j.list) => Ascends(rank, rest)
  BY <1>1, RankTail
<1>0. step \in {done, "blobs"} /\ (step = done => done = "blobs" \/ rest = <<>>)
  OBVIOUS
<1>6. SUFFICES Carries(rank, u, n)
  BY DEF u, n
<1> HIDE DEF u, rest, step
<1>4. n.step = step /\ n.kind = j.kind /\ n.list = rest /\ n.item = j.item /\ n.depth = j.depth
  BY DEF Job
<1> HIDE DEF n
<1>5. u = t \cup {Head(j.list)}
  BY DEF u
<1>7. Delivers(u, n)
  BY <1>0, <1>2, <1>4, <1>5 DEF Carries, Delivers, Waiting
<1>8. Closing(rank, u, n)
  BY <1>0, <1>2, <1>3, <1>4, <1>5 DEF Carries, Closing, Waiting
<1>9. Searching(rank, u, n)
  BY <1>0, <1>4 DEF Searching
<1> QED
  BY <1>7, <1>8, <1>9 DEF Carries

\* The parents of the entry at the head of the list are there.
LEMMA ArrivalClosed ==
    ASSUME PeersAssumption, NEW rank, Even(rank), NEW t, NEW j \in Job, Closing(rank, t, j),
           j.step = "entry", j.list # <<>>, j.kind = "push" \/ j.depth = NoDepth
    PROVE  Parents[Head(j.list)] \subseteq t
<1>1. j.list \in Seq(State)
  BY DEF Job
<1> DEFINE h == Head(j.list)
<1>2. h \in ToSet(j.list) /\ h \in State /\ h = j.list[1]
  BY <1>1, SetOfTail, HeadTyped
<1>3. Parents[h] \subseteq t \cup ToSet(j.list)
  BY <1>2 DEF Closing, Waiting
<1> SUFFICES ASSUME NEW p \in Parents[h], p \in ToSet(j.list) PROVE FALSE
  BY <1>3
<1>4. PICK i \in 1 .. Len(j.list) : p = j.list[i]
  BY <1>1 DEF ToSet
<1>5. rank[h] <= rank[p]
  <2>1. 1 \in 1 .. Len(j.list) /\ 1 <= i
    BY <1>1, <1>4
  <2>2. Ascends(rank, j.list)
    BY DEF Closing
  <2> QED
    BY <1>2, <1>4, <2>1, <2>2 DEF Ascends
<1>6. p \in State
  BY <1>1, <1>4
<1>7. rank[h] = rank[p] + 1 /\ rank[p] \in Nat
  BY <1>2, <1>6 DEF Even
<1> HIDE DEF h
<1> QED
  BY <1>5, <1>7

-----------------------------------------------------------------------------
(* The walk of a push. *)

\* A push that begins to walk from its tip.
LEMMA WalkingCarries ==
    ASSUME NEW rank, Even(rank), NEW t, NEW j, NEW item \in Item,
           j.kind = "push", j.step = "walk", j.item = item, j.queue = <<item.tip>>,
           j.seen = {}, j.list = <<>>
    PROVE  Carries(rank, t, j)
<1>1. item.tip \in State
  BY DEF Item
<1>2. rank[item.tip] \in Nat
  BY <1>1 DEF Even
<1> DEFINE q == <<item.tip>>
<1>3. Len(q) = 1 /\ DOMAIN q = 1 .. 1 /\ q[1] = item.tip /\ \A i \in 1 .. 1 : i = 1
  OBVIOUS
<1>10. j.queue = q
  OBVIOUS
<1> HIDE DEF q
<1>4. ToSet(q) = {item.tip}
  BY <1>3 DEF ToSet
<1>5. ToSet(j.list) = {}
  BY SetOfNone, Zenon
<1>6. Len(j.list) = 0 /\ 1 .. 0 = {}
  OBVIOUS
<1>7. Delivers(t, j)
  BY <1>4, <1>10 DEF Delivers, Waiting
<1>8. Closing(rank, t, j)
  BY <1>5, <1>6 DEF Closing, Ascends
<1>11. Descends(rank, q)
  BY <1>2, <1>3 DEF Descends
<1>12. \A i \in 1 .. Len(q) : rank[q[1]] <= rank[q[i]] + 1
  BY <1>2, <1>3
<1>9. Searching(rank, t, j)
  BY <1>5, <1>10, <1>11, <1>12 DEF Searching
<1> QED
  BY <1>7, <1>8, <1>9 DEF Carries

LEMMA AfterWalkCarries ==
    ASSUME NEW rank, NEW t, NEW j \in Job, j.kind = "push", j.step = "walk",
           Carries(rank, t, j)
    PROVE  Carries(rank, t, AfterWalk(j))
<1>1. CASE j.queue # <<>>
  BY <1>1 DEF AfterWalk
<1>2. CASE j.queue = <<>>
  <2> DEFINE step == IF j.list = <<>> THEN "ref" ELSE "blobs"
             n    == [j EXCEPT !.step = step]
  <2>1. AfterWalk(j) = n
    BY <1>2 DEF AfterWalk
  <2>2. /\ n.step = step /\ n.kind = j.kind /\ n.list = j.list /\ n.item = j.item
        /\ n.depth = j.depth
    BY DEF Job
  <2>3. Waiting(j) = {}
    <3>1. ToSet(j.queue) = {}
      BY <1>2, SetOfNone, Zenon
    <3> QED
      BY <3>1 DEF Waiting
  <2> HIDE DEF n
  <2>4. Delivers(t, n)
    BY <2>2, <2>3 DEF Carries, Delivers
  <2>5. Closing(rank, t, n)
    BY <2>2, <2>3 DEF Carries, Closing
  <2>6. Searching(rank, t, n)
    BY <2>2 DEF Searching
  <2> QED
    BY <2>1, <2>4, <2>5, <2>6 DEF Carries
<1> QED
  BY <1>1, <1>2

\* What the head of a descending queue says of the rest.
LEMMA QueueSplits ==
    ASSUME NEW q \in Seq(State), q # <<>>
    PROVE  /\ Head(q) = q[1] /\ 1 \in 1 .. Len(q) /\ Head(q) \in State /\ Tail(q) \in Seq(State)
           /\ ToSet(q) = {Head(q)} \cup ToSet(Tail(q))
           /\ \A i \in 1 .. Len(Tail(q)) :
                 i + 1 \in 1 .. Len(q) /\ Tail(q)[i] = q[i + 1] /\ Tail(q)[i] \in State
<1>1. /\ Len(q) \in Nat \ {0} /\ Len(Tail(q)) = Len(q) - 1 /\ Head(q) = q[1]
      /\ \A i \in 1 .. Len(q) - 1 : Tail(q)[i] = q[i + 1]
  BY HeadTailProperties, EmptySeq
<1>2. Head(q) \in State /\ Tail(q) \in Seq(State)
  BY HeadTyped
<1>3. ToSet(q) = {Head(q)} \cup ToSet(Tail(q))
  BY SetOfTail
<1> QED
  BY <1>1, <1>2, <1>3

\* A turn of the walk that finds nothing to send.
LEMMA SkipCarries ==
    ASSUME NEW rank, Even(rank), NEW t, NEW j \in Job, j.kind = "push", j.step = "walk",
           j.queue # <<>>, Carries(rank, t, j), Head(j.queue) \in j.seen \cup t,
           NEW n \in Job, n.kind = j.kind, n.step = j.step, n.item = j.item,
           n.list = j.list, n.depth = j.depth,
           n.queue = Tail(j.queue), n.seen = j.seen \cup {Head(j.queue)}
    PROVE  Carries(rank, t, n)
<1> DEFINE q == j.queue
           s == Head(q)
           r == Tail(q)
<1>1. q \in Seq(State) /\ j.list \in Seq(State)
  BY DEF Job
<1>2. /\ s = q[1] /\ 1 \in 1 .. Len(q) /\ s \in State /\ r \in Seq(State)
      /\ ToSet(q) = {s} \cup ToSet(r)
      /\ \A i \in 1 .. Len(r) : i + 1 \in 1 .. Len(q) /\ r[i] = q[i + 1] /\ r[i] \in State
  BY <1>1, QueueSplits
<1>3. Delivers(t, j) /\ Closing(rank, t, j) /\ Searching(rank, t, j)
  BY DEF Carries
<1>4. s \in t \cup ToSet(j.list)
  BY <1>3 DEF Searching
<1>5. Delivers(t, n)
  BY <1>2, <1>3, <1>4 DEF Delivers, Waiting
<1>6. Closing(rank, t, n)
  BY <1>2, <1>3, <1>4 DEF Closing, Waiting
<1>7. Descends(rank, r)
  BY <1>1, <1>3, RankTail DEF Searching
<1>8. \A i \in 1 .. Len(q) : /\ rank[s] <= rank[q[i]] + 1
                             /\ \A x \in ToSet(j.list) : rank[q[i]] <= rank[x]
  BY <1>2, <1>3 DEF Searching
<1>9. \A i \in 1 .. Len(r) : rank[r[i]] <= rank[s]
  <2>1. \A i \in 1 .. Len(q) : rank[q[i]] <= rank[q[1]]
    BY <1>2, <1>3 DEF Searching, Descends
  <2> QED
    BY <1>2, <2>1
<1>10. \A i \in 1 .. Len(r) : rank[r[1]] <= rank[r[i]] + 1
  <2>1. ASSUME NEW i \in 1 .. Len(r) PROVE rank[r[1]] <= rank[r[i]] + 1
    <3>1. 1 \in 1 .. Len(r)
      BY <1>2, <2>1
    <3>2. rank[r[1]] <= rank[s] /\ rank[s] <= rank[r[i]] + 1
      BY <1>2, <1>8, <1>9, <3>1
    <3>3. rank[r[1]] \in Nat /\ rank[s] \in Nat /\ rank[r[i]] \in Nat
      BY <1>2, <3>1 DEF Even
    <3> QED
      BY <3>2, <3>3
  <2> QED
    BY <2>1
<1>11. \A i \in 1 .. Len(r) : \A x \in ToSet(j.list) : rank[r[i]] <= rank[x]
  BY <1>2, <1>8
<1>12. n.queue = r /\ n.seen = j.seen \cup {s}
  OBVIOUS
<1> HIDE DEF r, s, q
<1>13. n.seen \subseteq t \cup ToSet(n.list)
  BY <1>3, <1>4, <1>12 DEF Searching
<1>14. Searching(rank, t, n)
  BY <1>7, <1>10, <1>11, <1>12, <1>13 DEF Searching
<1> QED
  BY <1>5, <1>6, <1>14 DEF Carries

\* A turn that finds a state to send, and goes on to its parents p.
LEMMA FoundCarries ==
    ASSUME PeersAssumption, NEW rank, Even(rank), NEW t,
           NEW j \in Job, j.kind = "push", j.step = "walk",
           j.queue # <<>>, Carries(rank, t, j),
           NEW n \in Job, n.kind = j.kind, n.step = j.step, n.item = j.item,
           n.depth = j.depth, n.list = <<Head(j.queue)>> \o j.list,
           n.seen = j.seen \cup {Head(j.queue)},
           NEW p \in Seq(State), ToSet(p) = Parents[Head(j.queue)] \ n.seen,
           n.queue = Tail(j.queue) \o p
    PROVE  Carries(rank, t, n)
<1> DEFINE q == j.queue
           s == Head(q)
           r == Tail(q)
           l == j.list
<1>1. q \in Seq(State) /\ l \in Seq(State)
  BY DEF Job
<1>2. /\ s = q[1] /\ 1 \in 1 .. Len(q) /\ s \in State /\ r \in Seq(State)
      /\ ToSet(q) = {s} \cup ToSet(r)
      /\ \A i \in 1 .. Len(r) : i + 1 \in 1 .. Len(q) /\ r[i] = q[i + 1] /\ r[i] \in State
  BY <1>1, QueueSplits
<1>3. Delivers(t, j) /\ Closing(rank, t, j) /\ Searching(rank, t, j)
  BY DEF Carries
<1>4. /\ \A x \in State : rank[x] \in Nat
      /\ \A x \in State : \A y \in Parents[x] : rank[x] = rank[y] + 1
  BY DEF Even
<1>5. \A i \in 1 .. Len(q) : /\ rank[s] <= rank[q[i]] + 1
                             /\ rank[q[i]] <= rank[s]
                             /\ \A x \in ToSet(l) : rank[q[i]] <= rank[x]
  BY <1>2, <1>3 DEF Searching, Descends
<1>6. \A i \in 1 .. Len(r) : rank[r[i]] <= rank[s] /\ rank[s] <= rank[r[i]] + 1
  BY <1>2, <1>5
<1>7. \A x \in ToSet(l) : rank[s] <= rank[x] /\ x \in State
  <2>1. \A x \in ToSet(l) : x \in State
    BY <1>1 DEF ToSet
  <2> QED
    BY <1>2, <1>5, <2>1
<1>8. \A i \in 1 .. Len(p) : p[i] \in State /\ rank[s] = rank[p[i]] + 1
  <2>1. \A i \in 1 .. Len(p) : p[i] \in ToSet(p) /\ p[i] \in State
    <3>1. DOMAIN p = 1 .. Len(p)
      OBVIOUS
    <3>2. ToSet(p) = {p[i] : i \in 1 .. Len(p)}
      BY <3>1 DEF ToSet
    <3>3. \A i \in 1 .. Len(p) : p[i] \in State
      OBVIOUS
    <3> QED
      BY <3>2, <3>3
  <2>2. \A x \in ToSet(p) : x \in Parents[s]
    OBVIOUS
  <2> HIDE DEF s
  <2> QED
    BY <1>2, <1>4, <2>1, <2>2
<1>9. Descends(rank, r)
  BY <1>1, <1>3, RankTail DEF Searching
<1>10. n.seen = j.seen \cup {s} /\ ToSet(p) = Parents[s] \ n.seen
  OBVIOUS
<1> DEFINE first == <<s>>
           both  == r \o p
           all   == first \o l
<1>13. n.queue = both /\ n.list = all
  OBVIOUS
<1> HIDE DEF q, s, r, l
<1>14. /\ both \in Seq(State) /\ Len(both) = Len(r) + Len(p) /\ Len(r) \in Nat /\ Len(p) \in Nat
       /\ \A i \in 1 .. Len(r) : i \in 1 .. Len(both) /\ both[i] = r[i]
       /\ \A i \in 1 .. Len(both) : i \notin 1 .. Len(r) =>
             i - Len(r) \in 1 .. Len(p) /\ both[i] = p[i - Len(r)]
       /\ ToSet(both) = ToSet(r) \cup ToSet(p)
  BY <1>2, RowOf
<1>11. first \in Seq(State) /\ Len(first) = 1 /\ first[1] = s /\ ToSet(first) = {s}
  <2>1. first \in Seq(State) /\ Len(first) = 1 /\ first[1] = s /\ DOMAIN first = 1 .. 1
        /\ \A i \in 1 .. 1 : i = 1
    BY <1>2
  <2> HIDE DEF first
  <2> QED
    BY <2>1 DEF ToSet
<1>12. /\ all \in Seq(State) /\ Len(all) = 1 + Len(l) /\ Len(l) \in Nat /\ all[1] = s
       /\ \A i \in 1 .. Len(all) : i # 1 => i - 1 \in 1 .. Len(l) /\ all[i] = l[i - 1]
       /\ ToSet(all) = {s} \cup ToSet(l)
  <2> HIDE DEF first
  <2>1. first \in Seq(State)
    BY <1>11
  <2>2. 1 \in 1 .. Len(first) /\ \A i \in 1 .. Len(first) : i = 1
    BY <1>11
  <2>3. l \in Seq(State)
    BY <1>1 DEF l
  <2>4. /\ all \in Seq(State) /\ ToSet(all) = ToSet(first) \cup ToSet(l)
        /\ Len(l) \in Nat /\ Len(all) = Len(first) + Len(l)
        /\ \A i \in 1 .. Len(first) : all[i] = first[i]
        /\ \A i \in 1 .. Len(all) : i \notin 1 .. Len(first) =>
              i - Len(first) \in 1 .. Len(l) /\ all[i] = l[i - Len(first)]
    BY <2>1, <2>3, RowOf
  <2> HIDE DEF all
  <2>5. Len(first) = 1
    BY <1>11
  <2>6. ASSUME NEW i \in 1 .. Len(all), i # 1 PROVE i - 1 \in 1 .. Len(l) /\ all[i] = l[i - 1]
    <3>1. i \notin 1 .. Len(first)
      BY <2>2, <2>6
    <3>2. i - Len(first) \in 1 .. Len(l) /\ all[i] = l[i - Len(first)]
      BY <2>4, <3>1
    <3> QED
      BY <2>5, <3>2
  <2>7. all[1] = s
    BY <1>11, <2>2, <2>4, Zenon
  <2>8. ToSet(all) = {s} \cup ToSet(l)
    BY <1>11, <2>4, Zenon
  <2>9. Len(all) = 1 + Len(l)
    BY <2>4, <2>5, Zenon
  <2> QED
    BY <2>4, <2>6, <2>7, <2>8, <2>9
<1> HIDE DEF both, all, first
<1>15. ToSet(all) = {s} \cup ToSet(l)
  BY <1>12
<1>16. j.seen \subseteq t \cup ToSet(l)
  BY <1>3 DEF Searching, l
<1>17. Delivers(t, n)
  <2>1. j.item.tip \in t \cup ToSet(l) \cup {s} \cup ToSet(r)
    BY <1>2, <1>3 DEF Delivers, Waiting, l, q
  <2> QED
    BY <1>13, <1>14, <1>15, <2>1 DEF Delivers, Waiting
<1>18. \A x \in ToSet(all) : Parents[x] \subseteq t \cup ToSet(all) \cup ToSet(both)
  <2>1. ASSUME NEW x \in ToSet(l) PROVE Parents[x] \subseteq t \cup ToSet(all) \cup ToSet(both)
    <3>1. Parents[x] \subseteq t \cup ToSet(l) \cup {s} \cup ToSet(r)
      BY <1>2, <1>3 DEF Closing, Waiting, l, q
    <3> QED
      BY <1>14, <1>15, <3>1
  <2>2. Parents[s] \subseteq t \cup ToSet(all) \cup ToSet(both)
    BY <1>10, <1>14, <1>15, <1>16
  <2> QED
    BY <1>15, <2>1, <2>2
<1>19. Ascends(rank, all)
  <2>1. Ascends(rank, l)
    BY <1>3 DEF Closing, l
  <2>2. ASSUME NEW i \in 1 .. Len(all), NEW k \in 1 .. Len(all), i <= k
        PROVE  rank[all[i]] <= rank[all[k]]
    <3>1. CASE k = 1
      <4>1. i = 1
        BY <2>2, <3>1
      <4> QED
        BY <1>2, <1>4, <1>12, <3>1, <4>1
    <3>2. CASE k # 1 /\ i = 1
      <4>1. all[k] \in ToSet(l)
        <5>1. k - 1 \in 1 .. Len(l) /\ all[k] = l[k - 1]
          BY <1>12, <3>2
        <5> QED
          BY <1>1, <5>1 DEF ToSet, l
      <4> QED
        BY <1>7, <1>12, <3>2, <4>1
    <3>3. CASE k # 1 /\ i # 1
      <4>1. /\ k - 1 \in 1 .. Len(l) /\ all[k] = l[k - 1]
            /\ i - 1 \in 1 .. Len(l) /\ all[i] = l[i - 1] /\ i - 1 <= k - 1
        BY <1>12, <2>2, <3>3
      <4> QED
        BY <2>1, <4>1 DEF Ascends
    <3> QED
      BY <3>1, <3>2, <3>3
  <2> QED
    BY <2>2 DEF Ascends
<1>20. Closing(rank, t, n)
  BY <1>13, <1>18, <1>19 DEF Closing, Waiting
<1>21. \A i \in 1 .. Len(both) :
          both[i] \in State /\ rank[both[i]] <= rank[s] /\ rank[s] <= rank[both[i]] + 1
  <2>1. ASSUME NEW i \in 1 .. Len(both)
        PROVE  both[i] \in State /\ rank[both[i]] <= rank[s] /\ rank[s] <= rank[both[i]] + 1
    <3>1. CASE i \in 1 .. Len(r)
      BY <1>2, <1>6, <1>14, <3>1
    <3>2. CASE i \notin 1 .. Len(r)
      <4>1. i - Len(r) \in 1 .. Len(p) /\ both[i] = p[i - Len(r)]
        BY <1>14, <3>2
      <4>2. both[i] \in State /\ rank[s] = rank[both[i]] + 1
        BY <1>8, <4>1
      <4>3. rank[both[i]] \in Nat
        BY <1>4, <4>2
      <4> QED
        BY <4>2, <4>3
    <3> QED
      BY <3>1, <3>2
  <2> QED
    BY <2>1
<1>22. Descends(rank, both)
  <2>1. ASSUME NEW i \in 1 .. Len(both), NEW k \in 1 .. Len(both), i <= k
        PROVE  rank[both[k]] <= rank[both[i]]
    <3>0. /\ both[i] \in State /\ both[k] \in State /\ rank[both[i]] \in Nat
          /\ rank[both[k]] \in Nat /\ rank[s] \in Nat
      BY <1>2, <1>4, <1>21
    <3>1. CASE k \in 1 .. Len(r)
      <4>1. i \in 1 .. Len(r)
        BY <1>14, <2>1, <3>1
      <4> QED
        BY <1>9, <1>14, <2>1, <3>1, <4>1 DEF Descends
    <3>2. CASE k \notin 1 .. Len(r)
      <4>1. k - Len(r) \in 1 .. Len(p) /\ both[k] = p[k - Len(r)]
        BY <1>14, <3>2
      <4>2. rank[s] = rank[both[k]] + 1
        BY <1>8, <4>1
      <4>3. rank[s] <= rank[both[i]] + 1
        BY <1>21
      <4> QED
        BY <3>0, <4>2, <4>3
    <3> QED
      BY <3>1, <3>2
  <2> QED
    BY <2>1 DEF Descends
<1>23. \A i \in 1 .. Len(both) : rank[both[1]] <= rank[both[i]] + 1
  <2>1. ASSUME NEW i \in 1 .. Len(both) PROVE rank[both[1]] <= rank[both[i]] + 1
    <3>1. 1 \in 1 .. Len(both)
      BY <1>14
    <3>2. rank[both[1]] \in Nat /\ rank[both[i]] \in Nat /\ rank[s] \in Nat
      BY <1>2, <1>4, <1>21, <3>1
    <3>3. rank[both[1]] <= rank[s] /\ rank[s] <= rank[both[i]] + 1
      BY <1>21, <3>1
    <3> QED
      BY <3>2, <3>3
  <2> QED
    BY <2>1
<1>24. \A i \in 1 .. Len(both) : \A x \in ToSet(all) : rank[both[i]] <= rank[x]
  <2>1. ASSUME NEW i \in 1 .. Len(both), NEW x \in ToSet(all) PROVE rank[both[i]] <= rank[x]
    <3>1. x \in State /\ rank[s] <= rank[x]
      BY <1>2, <1>4, <1>7, <1>15
    <3>2. rank[both[i]] \in Nat /\ rank[x] \in Nat /\ rank[s] \in Nat
      BY <1>2, <1>4, <1>21, <3>1
    <3> QED
      BY <1>21, <3>1, <3>2
  <2> QED
    BY <2>1
<1>25. n.seen \subseteq t \cup ToSet(all)
  BY <1>10, <1>15, <1>16
<1>26. Searching(rank, t, n)
  BY <1>13, <1>22, <1>23, <1>24, <1>25 DEF Searching
<1> QED
  BY <1>17, <1>20, <1>26 DEF Carries

-----------------------------------------------------------------------------
(* Every step of a job carries on. *)

\* A command is one that is run in its repository, with the options it is run with.
Permitted(run, j) ==
    /\ j.kind = "clone" => "clone" \in run
    /\ "depth" \notin run => j.depth = NoDepth

\* A job and the entries of where it brings its states.
Carried(rank, c, t, j) == Permitted(uses[c], j) /\ Carries(rank, t, j)

LEMMA PutBlobsStays == ASSUME NEW ids, PutBlobs(ids) PROVE timeline' = timeline
BY DEF PutBlobs

LEMMA CarriesPush ==
    ASSUME PeersAssumption, SyncTyped, NEW rank, Even(rank), NEW c \in Client, PushStep(c),
           job[c] # NoJob, Carried(rank, c, timeline[Server], job[c]), job'[c] # NoJob
    PROVE  Carried(rank, c, timeline'[Server], job'[c])
<1> DEFINE j == job[c]
           n == job'[c]
           t == timeline[Server]
           u == timeline'[Server]
<1>1. /\ j \in Job /\ Underway(j) /\ c \in DOMAIN job /\ Server \in DOMAIN timeline
  BY DEF SyncTyped, JobsTyped, PeersTyped, Repos
<1>2. j.kind = "push" /\ ("depth" \notin uses[c] => j.depth = NoDepth) /\ Carries(rank, t, j)
  BY PushKind DEF SyncTyped, Carried, Permitted
<1>3. ASSUME NEW new, Set(c, new) PROVE n = new
  BY <1>1, <1>3 DEF Set
<1>4. ASSUME NEW new, n = new, new.kind = "push", new.depth = j.depth, Carries(rank, u, new)
      PROVE  Carried(rank, c, u, n)
  BY <1>2, <1>4 DEF Carried, Permitted
<1>0. SUFFICES Carried(rank, c, u, n)
  BY DEF u, n
<1> HIDE DEF u, n
<1>5. ASSUME NEW step \in {"list", "tags", "entry", "write"},
             Set(c, [j EXCEPT !.step = step]), u = t,
             step = "entry" => j.step = "blobs", step = "write" => j.step = "ref"
      PROVE  Carried(rank, c, u, n)
  <2> DEFINE new == [j EXCEPT !.step = step]
  <2>1. new.kind = "push" /\ new.depth = j.depth
    BY <1>1, <1>2 DEF Job
  <2>2. Carries(rank, t, new)
    BY <1>1, <1>2, <1>5, StepCarries
  <2>3. n = new
    BY <1>3, <1>5
  <2> HIDE DEF new
  <2> QED
    BY <1>4, <1>5, <2>1, <2>2, <2>3
<1>6. CASE Walk(c)
  <2> DEFINE s    == Head(j.queue)
             next == [j EXCEPT !.queue = Tail(j.queue), !.seen = @ \cup {s}]
             p    == Without(ParentsOf[s], next.seen)
             q    == next.queue \o p
             l    == <<s>> \o next.list
             more == [next EXCEPT !.queue = q, !.list = l]
  <2>1. /\ j.step = "walk" /\ j.queue # <<>> /\ j.queue \in Seq(State) /\ j.list \in Seq(State)
        /\ u = t /\ j.item \in Item /\ j.depth # 0
    BY <1>1, <1>6 DEF Walk, At, Underway, Job, peers, u
  <2>2. s \in State /\ Tail(j.queue) \in Seq(State)
    BY <2>1, HeadTyped
  <2>3. /\ next \in Job /\ next.kind = j.kind /\ next.step = j.step /\ next.item = j.item
        /\ next.list = j.list /\ next.depth = j.depth
        /\ next.queue = Tail(j.queue) /\ next.seen = j.seen \cup {s}
    <3> HIDE DEF s
    <3> QED
      BY <1>1, <2>2 DEF Job
  <2>4. \/ (s \in j.seen \/ HasTimeline(s)) /\ Set(c, AfterWalk(next))
        \/ Set(c, AfterWalk(more))
    <3>1. \/ (s \in j.seen \/ HasTimeline(s)) /\ Set(c, AfterWalk(next))
          \/ Set(c, AfterWalk([next EXCEPT !.queue = @ \o p, !.list = <<s>> \o @]))
      BY <1>6 DEF Walk
    <3> HIDE DEF next, p, s
    <3>2. [next EXCEPT !.queue = @ \o p, !.list = <<s>> \o @] = more
      BY <2>3 DEF Job
    <3> QED
      BY <3>1, <3>2
  <2>5. ParentsOf[s] \in Seq(State) /\ Parents[s] = ToSet(ParentsOf[s])
    BY <2>2, ParentsAre
  <2>6. p \in Seq(State) /\ ToSet(p) = Parents[s] \ next.seen
    <3> HIDE DEF next, s
    <3> QED
      BY <2>5, WithoutIs
  <2>7. l \in Seq(State) /\ q \in Seq(State)
    <3> HIDE DEF p, s, next
    <3> QED
      BY <2>1, <2>2, <2>3, <2>6
  <2>8. l = <<s>> \o j.list /\ q = Tail(j.queue) \o p
    BY <2>3
  <2>9. /\ more \in Job /\ more.kind = j.kind /\ more.step = j.step /\ more.item = j.item
        /\ more.list = l /\ more.depth = j.depth /\ more.queue = q
        /\ more.seen = j.seen \cup {s}
    <3> HIDE DEF next, q, l, s
    <3> QED
      BY <2>3, <2>7 DEF Job
  <2>10. ASSUME NEW a \in Job, a.kind = "push", a.step = "walk", a.depth = j.depth,
                Carries(rank, t, a), Set(c, AfterWalk(a))
         PROVE  Carried(rank, c, u, n)
    <3>1. Carries(rank, u, AfterWalk(a))
      BY <2>1, <2>10, AfterWalkCarries
    <3>2. AfterWalk(a).kind = "push" /\ AfterWalk(a).depth = j.depth
      BY <2>10 DEF AfterWalk, Job
    <3> QED
      BY <1>3, <1>4, <2>10, <3>1, <3>2
  <2>11. CASE (s \in j.seen \/ HasTimeline(s)) /\ Set(c, AfterWalk(next))
    <3>1. s \in j.seen \cup t
      BY <2>11 DEF HasTimeline
    <3> HIDE DEF next
    <3>2. Carries(rank, t, next)
      BY <1>1, <1>2, <2>1, <2>3, <3>1, SkipCarries
    <3> QED
      BY <1>2, <2>1, <2>3, <2>10, <2>11, <3>2
  <2>12. CASE Set(c, AfterWalk(more))
    <3> HIDE DEF more, next
    <3>0. /\ more.list = <<s>> \o j.list /\ more.queue = Tail(j.queue) \o p
          /\ ToSet(p) = Parents[s] \ more.seen
      BY <2>3, <2>6, <2>8, <2>9
    <3> HIDE DEF p, l, q
    <3>1. Carries(rank, t, more)
      BY <1>1, <1>2, <2>1, <2>6, <2>9, <3>0, FoundCarries
    <3> QED
      BY <1>2, <2>1, <2>9, <2>10, <2>12, <3>1
  <2> QED
    BY <2>4, <2>11, <2>12
<1>7. CASE SendBlobs(c)
  <2>1. j.step = "blobs" /\ u = t /\ Set(c, [j EXCEPT !.step = "entry"])
    BY <1>7, PutBlobsStays DEF SendBlobs, At, u
  <2> QED
    BY <1>5, <2>1
<1>8. CASE SendEntry(c)
  <2> DEFINE rest == Tail(j.list)
             step == IF rest = <<>> THEN "ref" ELSE "blobs"
             new  == [j EXCEPT !.list = rest, !.step = step]
  <2>1. j.step = "entry" /\ j.list # <<>>
    BY <1>1, <1>8 DEF SendEntry, At, Underway
  <2>2. Set(c, new)
    BY <1>1, <1>8 DEF SendEntry, Job
  <2>3. u = t \cup {Head(j.list)}
    BY <1>1, <1>8 DEF SendEntry, PutTimeline, u
  <2>4. Carries(rank, u, new)
    BY <1>1, <1>2, <2>1, <2>3, ArrivalCarries
  <2>5. new.kind = "push" /\ new.depth = j.depth
    <3> HIDE DEF rest, step
    <3> QED
      BY <1>1, <1>2 DEF Job
  <2> HIDE DEF new
  <2> QED
    BY <1>3, <1>4, <2>2, <2>4, <2>5
<1>9. CASE SetHead(c)
  <2>1. j.step = "ref" /\ u = t
    BY <1>9 DEF SetHead, Pushing, At, SendHead, PutHead, peers, u
  <2>2. Set(c, [j EXCEPT !.step = "list"]) \/ Set(c, [j EXCEPT !.step = "write"])
    BY <1>9 DEF SetHead
  <2> QED
    BY <1>5, <2>1, <2>2
<1>10. CASE WriteChecked(c)
  <2>1. u = t /\ Set(c, [j EXCEPT !.step = "list"])
    BY <1>10 DEF WriteChecked, SendHead, PutHead, u
  <2> QED
    BY <1>5, <2>1
<1>11. CASE ListTags(c)
  <2> DEFINE left == Items("tags", tags[c])
             new  == [j EXCEPT !.left = left, !.step = "tags"]
  <2>1. Set(c, new) /\ u = t
    BY <1>11 DEF ListTags, peers, u
  <2>2. n = new
    <3> HIDE DEF new
    <3> QED
      BY <1>3, <2>1
  <2> HIDE DEF left
  <2>3. new.kind = "push" /\ new.depth = j.depth /\ new.step = "tags"
    BY <1>1, <1>2 DEF Job
  <2> HIDE DEF new
  <2>4. Carries(rank, u, new)
    BY <2>3 DEF Carries, Delivers, Closing, Searching
  <2> QED
    BY <1>4, <2>2, <2>3, <2>4
<1>12. CASE PushTag(c)
  <2>1. u = t /\ ~Finish(c)
    BY <1>1, <1>12 DEF PushTag, peers, u, n, Finish
  <2>2. PICK item \in j.left :
            \/ Set(c, [j EXCEPT !.left = j.left \ {item}])
            \/ Set(c, Walking([j EXCEPT !.left = j.left \ {item}], item))
    BY <1>12, <2>1 DEF PushTag
  <2> DEFINE left == j.left \ {item}
             next == [j EXCEPT !.left = left]
  <2>3. item \in Item /\ left \in SUBSET Item /\ j.step = "tags"
    BY <1>1, <1>12, <2>2 DEF Job, PushTag, At
  <2> HIDE DEF left
  <2>4. /\ next \in Job /\ next.kind = "push" /\ next.depth = j.depth /\ next.step = "tags"
        /\ DOMAIN next = Fields
    BY <1>1, <1>2, <2>3 DEF Job, Fields
  <2>5. CASE Set(c, next)
    <3> HIDE DEF next
    <3>1. Carries(rank, u, next)
      BY <2>4 DEF Carries, Delivers, Closing, Searching
    <3> QED
      BY <1>3, <1>4, <2>4, <2>5, <3>1
  <2>6. CASE Set(c, Walking(next, item))
    <3> DEFINE walk == Walking(next, item)
    <3> HIDE DEF next
    <3>1. /\ walk.kind = "push" /\ walk.step = "walk" /\ walk.item = item
          /\ walk.queue = <<item.tip>> /\ walk.seen = {} /\ walk.list = <<>>
          /\ walk.depth = j.depth
      BY <2>4 DEF Walking, Fields
    <3> HIDE DEF walk
    <3>2. Carries(rank, u, walk)
      BY <2>3, <3>1, WalkingCarries
    <3> QED
      BY <1>3, <1>4, <2>6, <3>1, <3>2 DEF walk
  <2> QED
    BY <2>2, <2>5, <2>6 DEF left
<1>13. CASE SetTag(c)
  <2>1. u = t /\ Set(c, [j EXCEPT !.step = "tags"])
    BY <1>13 DEF SetTag, PutTag, u
  <2> QED
    BY <1>5, <2>1
<1> QED
  BY <1>6, <1>7, <1>8, <1>9, <1>10, <1>11, <1>12, <1>13 DEF PushStep

\* A job that is neither at work on the transfer nor about to write a ref.
LEMMA RestCarries ==
    ASSUME NEW rank, NEW t, NEW j, j.step \notin {"walk", "blobs", "entry", "ref", "write"}
    PROVE  Carries(rank, t, j)
BY DEF Carries, Delivers, Closing, Searching

LEMMA CarriesFetch ==
    ASSUME PeersAssumption, SyncAssumption, SyncTyped, NEW rank, Even(rank),
           NEW c \in Client, FetchStep(c), job[c] # NoJob,
           Carried(rank, c, timeline[c], job[c]), job'[c] # NoJob
    PROVE  job'[c].kind # "push" /\ Carried(rank, c, timeline'[c], job'[c])
<1> DEFINE j == job[c]
           n == job'[c]
           t == timeline[c]
           u == timeline'[c]
<1>1. j \in Job /\ Underway(j) /\ c \in DOMAIN job /\ c \in DOMAIN timeline
  BY DEF SyncTyped, JobsTyped, PeersTyped, Repos
<1>2. j.kind # "push" /\ Permitted(uses[c], j) /\ Carries(rank, t, j)
  BY DEF FetchStep, Pick, GetBlobs, GetEntry, SaveBoundary, Track, TrackAll, CheckoutClone,
         FetchTags, At, Carried
<1>3. ASSUME NEW new, Set(c, new) PROVE n = new
  BY <1>1, <1>3 DEF Set
<1>0. SUFFICES n.kind # "push" /\ Carried(rank, c, u, n)
  BY DEF u, n
<1>4. ASSUME NEW new, n = new, new.kind = j.kind, new.depth = j.depth, Carries(rank, u, new)
      PROVE  n.kind # "push" /\ Carried(rank, c, u, n)
  BY <1>2, <1>4 DEF Carried, Permitted
<1> HIDE DEF u, n
<1>5. ASSUME NEW step \in {"entry", "track", "pick", "checkout"},
             Set(c, [j EXCEPT !.step = step]), u = t, step = "entry" => j.step = "blobs"
      PROVE  n.kind # "push" /\ Carried(rank, c, u, n)
  <2> DEFINE new == [j EXCEPT !.step = step]
  <2>1. new.kind = j.kind /\ new.depth = j.depth
    BY <1>1 DEF Job
  <2>2. Carries(rank, t, new)
    BY <1>1, <1>2, <1>5, StepCarries
  <2>3. n = new
    BY <1>3, <1>5
  <2> HIDE DEF new
  <2> QED
    BY <1>4, <1>5, <2>1, <2>2, <2>3
<1>6. CASE Pick(c)
  <2>1. PICK item \in j.left :
            LET walk == Ancestry(item.tip, j.depth)
                list == Missing(c, walk)
            IN  Set(c, [j EXCEPT
                    !.item = item, !.left = @ \ {item}, !.list = list,
                    !.fetched = {list[i] : i \in DOMAIN list},
                    !.boundary = Boundary(walk, j.depth),
                    !.step = IF list = <<>> THEN "boundary" ELSE "blobs"])
    BY <1>6 DEF Pick
  <2> DEFINE walk  == Ancestry(item.tip, j.depth)
             list  == Missing(c, walk)
             got   == {list[i] : i \in DOMAIN list}
             limit == Boundary(walk, j.depth)
             left  == j.left \ {item}
             step  == IF list = <<>> THEN "boundary" ELSE "blobs"
             new   == [j EXCEPT !.item = item, !.left = left, !.list = list, !.fetched = got,
                                !.boundary = limit, !.step = step]
  <2>2. n = new
    <3>1. Set(c, new)
      BY <1>1, <2>1 DEF Job
    <3> HIDE DEF new
    <3> QED
      BY <1>3, <3>1
  <2>3. u = t
    BY <1>6 DEF Pick, peers, u
  <2>4. item \in Item /\ item.tip \in State /\ j.depth \in Nat \ {0}
    BY <1>1 DEF Job, Item, Underway
  <2>5. walk \in Seq(State) /\ Descends(rank, walk)
    BY <2>4, AncestryType, AncestryDescends
  <2>6. ASSUME j.depth = NoDepth PROVE ParentClosed(Parents, ToSet(walk))
    <3>1. NoDepth \in Nat \ {0} /\ NoDepth > Cardinality(State)
      BY DepthsFit DEF SyncAssumption, Limits
    <3> QED
      BY <2>4, <2>6, <3>1, AncestryWhole
  <2> HIDE DEF walk
  <2>7. ToSet(list) = ToSet(walk) \ t /\ Ascends(rank, list)
    BY <2>5, MissingIs, MissingAscends
  <2>8. ASSUME j.depth = NoDepth
        PROVE  \A s \in ToSet(list) : Parents[s] \subseteq t \cup ToSet(list)
    BY <2>6, <2>7, <2>8 DEF ParentClosed
  <2> HIDE DEF list, got, limit, left
  <2>9. /\ new.step = step /\ new.kind = j.kind
        /\ new.depth = j.depth /\ new.item = item /\ new.list = list
    BY <1>1 DEF Job
  <2> HIDE DEF new
  <2>10. Delivers(t, new)
    BY <1>2, <2>9 DEF Delivers
  <2>11. Closing(rank, t, new)
    BY <1>2, <2>7, <2>8, <2>9 DEF Closing
  <2>12. Searching(rank, t, new)
    BY <2>9 DEF Searching
  <2>13. Carries(rank, t, new)
    BY <2>10, <2>11, <2>12 DEF Carries
  <2> QED
    BY <1>4, <2>2, <2>3, <2>9, <2>13
<1>7. CASE GetBlobs(c)
  <2>1. u = t
    BY <1>7 DEF GetBlobs, u
  <2> QED
    BY <1>5, <1>7, <2>1 DEF GetBlobs, At
<1>8. CASE GetEntry(c)
  <2> DEFINE rest == Tail(j.list)
             step == IF rest = <<>> THEN "boundary" ELSE "blobs"
             new  == [j EXCEPT !.list = rest, !.step = step]
  <2>1. j.step = "entry" /\ j.list # <<>>
    BY <1>1, <1>8 DEF GetEntry, At, Underway
  <2>2. Set(c, new)
    BY <1>1, <1>8 DEF GetEntry, Job
  <2>3. u = t \cup {Head(j.list)}
    BY <1>1, <1>8 DEF GetEntry, u
  <2>4. Carries(rank, u, new)
    BY <1>1, <1>2, <2>1, <2>3, ArrivalCarries
  <2>5. new.kind = j.kind /\ new.depth = j.depth
    <3> HIDE DEF rest, step
    <3> QED
      BY <1>1 DEF Job
  <2> HIDE DEF new
  <2> QED
    BY <1>3, <1>4, <2>2, <2>4, <2>5
<1>9. CASE SaveBoundary(c)
  <2>1. u = t
    BY <1>9 DEF SaveBoundary, u
  <2> QED
    BY <1>5, <1>9, <2>1 DEF SaveBoundary
<1>10. CASE Track(c)
  <2>1. u = t
    BY <1>10 DEF Track, u
  <2> QED
    BY <1>5, <1>10, <2>1 DEF Track
<1>11. CASE TrackAll(c)
  <2>1. u = t
    BY <1>11 DEF TrackAll, u
  <2> QED
    BY <1>5, <1>11, <2>1 DEF TrackAll
<1>12. CASE CheckoutClone(c)
  <2>1. u = t
    BY <1>12 DEF CheckoutClone, u
  <2> QED
    BY <1>5, <1>12, <2>1 DEF CheckoutClone
<1>13. CASE FetchTags(c)
  <2> DEFINE left == Items("tags", tags[Server])
             new  == [j EXCEPT !.left = left, !.tagged = TRUE]
  <2>1. ~Finish(c)
    BY <1>1 DEF Finish, n
  <2>2. Set(c, new) /\ j.step = "pick"
    BY <1>13, <2>1 DEF FetchTags, At
  <2> HIDE DEF left
  <2>3. new.step = "pick" /\ new.kind = j.kind /\ new.depth = j.depth
    BY <1>1, <2>2 DEF Job
  <2> HIDE DEF new
  <2> QED
    BY <1>3, <1>4, <2>2, <2>3, RestCarries
<1> QED
  BY <1>6, <1>7, <1>8, <1>9, <1>10, <1>11, <1>12, <1>13 DEF FetchStep

LEMMA CarriesCommand ==
    ASSUME SyncAssumption, PeersAssumption, SyncTyped, NEW rank, Even(rank),
           NEW c \in Client, SyncCommand(c), NEW t
    PROVE  Carried(rank, c, t, job'[c])
<1> DEFINE n == job'[c]
<1>1. c \in DOMAIN job
  BY DEF SyncTyped, JobsTyped
<1>2. ASSUME NEW new, Set(c, new) PROVE n = new
  BY <1>1, <1>2 DEF Set
<1>0. SUFFICES Carried(rank, c, t, n)
  BY DEF n
<1> HIDE DEF n
<1>10. ASSUME NEW d \in Limits(c), "depth" \notin uses[c] PROVE d = NoDepth
  BY <1>10 DEF Limits
<1>3. ASSUME NEW b \in Branch, NEW force \in BOOLEAN, PushStart(c, b, force)
      PROVE  Carried(rank, c, t, n)
  <2> DEFINE item == [in |-> "heads", name |-> b, tip |-> heads[c][b]]
             walk == Walking(NewJob("push", "walk"), item)
             held == KeepsLock(c)
             new  == [walk EXCEPT !.force = force, !.held = held]
  <2>1. Set(c, new)
    BY <1>3 DEF PushStart
  <2>2. item \in Item
    <3>1. heads[c][b] \in State
      BY <1>3 DEF PushStart, SyncTyped, PeersTyped, Repos, Refs
    <3> QED
      BY <3>1 DEF Item
  <2> HIDE DEF item, held
  <2>3. /\ walk.kind = "push" /\ walk.step = "walk" /\ walk.item = item
        /\ walk.queue = <<item.tip>> /\ walk.seen = {} /\ walk.list = <<>>
        /\ walk.depth = NoDepth /\ DOMAIN walk = Fields
    BY DEF Walking, NewJob, Fields
  <2> HIDE DEF walk
  <2>4. /\ new.kind = "push" /\ new.step = "walk" /\ new.item = item
        /\ new.queue = <<item.tip>> /\ new.seen = {} /\ new.list = <<>>
        /\ new.depth = NoDepth
    BY <2>3 DEF Fields
  <2> HIDE DEF new
  <2>5. Carries(rank, t, new)
    BY <2>2, <2>4, WalkingCarries
  <2> QED
    BY <1>2, <2>1, <2>4, <2>5 DEF Carried, Permitted
<1>4. ASSUME NEW names, NEW d \in Limits(c), FetchStart(c, names, d)
      PROVE  Carried(rank, c, t, n)
  <2> DEFINE new  == NewJob("fetch", "pick")
             left == {i \in Items("heads", heads[Server]) : i.name \in names}
             j    == [new EXCEPT !.left = left, !.depth = d]
  <2>1. Set(c, j)
    BY <1>4 DEF FetchStart
  <2>2. new.step = "pick" /\ new.kind = "fetch" /\ {"step", "kind", "depth"} \subseteq DOMAIN new
    BY DEF NewJob
  <2> HIDE DEF new, left
  <2>3. j.step = "pick" /\ j.kind = "fetch" /\ j.depth = d
    BY <2>2
  <2> HIDE DEF j
  <2> QED
    BY <1>2, <1>10, <2>1, <2>3, RestCarries DEF Carried, Permitted
<1>5. ASSUME NEW b, NEW d \in Limits(c), CloneStart(c, b, d) PROVE Carried(rank, c, t, n)
  <2> DEFINE new  == NewJob("clone", "pick")
             left == {i \in Items("heads", heads[Server]) : i.name = b}
             refs == heads[Server]
             j    == [new EXCEPT !.left = left, !.refs = refs, !.depth = d]
  <2>1. Set(c, j) /\ "clone" \in uses[c]
    BY <1>5 DEF CloneStart
  <2>2. new.step = "pick" /\ new.kind = "clone" /\ {"step", "kind", "depth"} \subseteq DOMAIN new
    BY DEF NewJob
  <2> HIDE DEF new, left, refs
  <2>3. j.step = "pick" /\ j.kind = "clone" /\ j.depth = d
    BY <2>2
  <2> HIDE DEF j
  <2> QED
    BY <1>2, <1>10, <2>1, <2>3, RestCarries DEF Carried, Permitted
<1> QED
  BY <1>3, <1>4, <1>5 DEF SyncCommand

\* Which commands are run is part of the start.
LEMMA UsesStay == ASSUME [SyncNext]_syncVars PROVE uses' = uses
<1>1. ASSUME NEW c \in Client, SyncCommand(c) PROVE uses' = uses
  BY <1>1 DEF SyncCommand, PushStart, FetchStart, CloneStart, peers
<1>2. ASSUME NEW c \in Client, PushStep(c) PROVE uses' = uses
  BY <1>2 DEF PushStep, Walk, SendBlobs, SendEntry, SetHead, WriteChecked, ListTags, PushTag,
       SetTag, PutBlobs, PutTimeline, PutTag, SendHead, PutHead, peers
<1>3. ASSUME NEW c \in Client, FetchStep(c) PROVE uses' = uses
  BY <1>3 DEF FetchStep, Pick, GetBlobs, GetEntry, SaveBoundary, Track, TrackAll,
       CheckoutClone, FetchTags, peers
<1>4. ASSUME NEW c \in Client, Fail(c) \/ CleanUp(c) PROVE uses' = uses
  BY <1>4 DEF Fail, CleanUp, peers
<1>5. ASSUME NEW r \in Repos, Local(r) PROVE uses' = uses
  BY <1>5 DEF Local, LocalCommand, Commit, PointBranch, Merge, CreateTag, Gc, Record
<1> QED
  BY <1>1, <1>2, <1>3, <1>4, <1>5 DEF SyncNext, SyncStep, syncVars, peers

\* What every job in flight keeps true of the repository it fills.
Carrying(rank) ==
    \A c \in Client :
        job[c] # NoJob => Carried(rank, c, timeline[Target(c, job[c])], job[c])

LEMMA CarryingNext ==
    ASSUME PeersAssumption, SyncAssumption, SyncTyped, NEW rank, Even(rank), Carrying(rank),
           [SyncNext]_syncVars, NEW k \in Client, job'[k] # NoJob
    PROVE  /\ Carries(rank, timeline'[Target(k, job'[k])], job'[k])
           /\ Permitted(uses'[k], job'[k])
<1>1. uses' = uses
  BY UsesStay
<1>2. SUFFICES Carried(rank, k, timeline'[Target(k, job'[k])], job'[k])
  BY <1>1 DEF Carried
<1>3. CASE job'[k] = job[k]
  <2> DEFINE r == Target(k, job[k])
  <2>1. timeline[r] \subseteq timeline'[r]
    <3>1. CASE r = k
      BY <1>3, <3>1, BusyStay DEF SyncTyped
    <3>2. CASE r # k
      <4>1. r = Server /\ job[k].kind = "push" /\ Server \in Repos /\ Server \notin Client
        BY <3>2 DEF Target, Repos, PeersAssumption
      <4>2. ~Quiet(Server)
        BY <1>3, <4>1 DEF Quiet
      <4> QED
        BY <4>1, <4>2, EntriesStay DEF SyncTyped
    <3> QED
      BY <3>1, <3>2
  <2>2. Carried(rank, k, timeline[r], job[k])
    BY <1>3 DEF Carrying
  <2> QED
    BY <1>3, <2>1, <2>2, CarriesMore DEF Carried
<1>4. CASE job'[k] # job[k]
  <2>1. SyncCommand(k) \/ PushStep(k) \/ FetchStep(k)
    BY <1>4, JobSteps DEF SyncTyped
  <2>2. CASE SyncCommand(k)
    BY <2>2, CarriesCommand
  <2>3. CASE PushStep(k)
    <3>1. job[k] # NoJob /\ job[k].kind = "push" /\ job'[k].kind = "push"
      BY <2>3, PushKind DEF SyncTyped, PushGoesOn
    <3>2. Carried(rank, k, timeline[Server], job[k])
      BY <3>1 DEF Carrying, Target
    <3>3. Carried(rank, k, timeline'[Server], job'[k])
      BY <2>3, <3>1, <3>2, CarriesPush
    <3> QED
      BY <3>1, <3>3 DEF Target
  <2>4. CASE FetchStep(k)
    <3>1. job[k] # NoJob /\ job[k].kind # "push"
      BY <2>4 DEF FetchStep, Pick, GetBlobs, GetEntry, SaveBoundary, Track, TrackAll,
           CheckoutClone, FetchTags, At
    <3>2. Carried(rank, k, timeline[k], job[k])
      BY <3>1 DEF Carrying, Target
    <3>3. job'[k].kind # "push" /\ Carried(rank, k, timeline'[k], job'[k])
      BY <2>4, <3>1, <3>2, CarriesFetch
    <3> QED
      BY <3>3 DEF Target
  <2> QED
    BY <2>1, <2>2, <2>3, <2>4
<1> QED
  BY <1>3, <1>4

-----------------------------------------------------------------------------
(* What repositories hold. *)

\* The refs that must be whole.
Followed(r) == IF "clone" \in uses[r] THEN OwnTips(r) ELSE Tips(r)

\* The entries of a repository that never limits a fetch have no gap, and hold its refs.
Gapless(r) ==
    "depth" \notin uses[r] =>
        ParentClosed(Parents, timeline[r]) /\ Followed(r) \subseteq timeline[r]

EntriesWhole == \A r \in Repos : Gapless(r)

LEMMA GaplessGrows ==
    ASSUME EntriesWhole, uses' = uses, NEW q \in Repos, NEW new, NEW tips,
           \A r \in Repos : timeline'[r] = timeline[r] \cup IF r = q THEN new ELSE {},
           \A r \in Repos : Followed(r)' \subseteq Followed(r) \cup IF r = q THEN tips ELSE {},
           "depth" \notin uses[q] =>
               /\ tips \subseteq timeline[q] \cup new
               /\ \A s \in new : Parents[s] \subseteq timeline[q] \cup new
    PROVE  EntriesWhole'
<1> SUFFICES ASSUME NEW r \in Repos, "depth" \notin uses[r]
             PROVE  ParentClosed(Parents, timeline'[r]) /\ Followed(r)' \subseteq timeline'[r]
  BY DEF EntriesWhole, Gapless
<1>1. ParentClosed(Parents, timeline[r]) /\ Followed(r) \subseteq timeline[r]
  BY DEF EntriesWhole, Gapless
<1>2. Followed(r)' \subseteq Followed(r) \cup IF r = q THEN tips ELSE {}
  OBVIOUS
<1>3. timeline'[r] = timeline[r] \cup IF r = q THEN new ELSE {}
  OBVIOUS
<1>4. Followed(r)' \subseteq timeline'[r]
  BY <1>1, <1>2, <1>3
<1>5. ParentClosed(Parents, timeline'[r])
  BY <1>1, <1>3 DEF ParentClosed
<1> QED
  BY <1>4, <1>5

LEMMA HeadFollowed ==
    ASSUME PeersTyped, NEW q, NEW b, NEW tip, uses' = uses,
           heads' = [heads EXCEPT ![q][b] = tip], tags' = tags, tracking' = tracking,
           NEW r \in Repos
    PROVE  Followed(r)' \subseteq Followed(r) \cup IF r = q THEN {tip} ELSE {}
<1>1. r \in DOMAIN heads
  BY DEF PeersTyped
<1>2. \A a \in Branch : heads'[r][a] = heads[r][a] \/ (r = q /\ heads'[r][a] = tip)
  BY <1>1 DEF PeersTyped, Refs
<1>3. OwnTips(r)' \subseteq OwnTips(r) \cup IF r = q THEN {tip} ELSE {}
  BY <1>2 DEF OwnTips
<1>4. Tips(r)' \subseteq Tips(r) \cup IF r = q THEN {tip} ELSE {}
  BY <1>3 DEF Tips
<1> QED
  BY <1>3, <1>4 DEF Followed

LEMMA TagFollowed ==
    ASSUME PeersTyped, NEW q, NEW b, NEW tip, uses' = uses,
           tags' = [tags EXCEPT ![q][b] = tip], heads' = heads, tracking' = tracking,
           NEW r \in Repos
    PROVE  Followed(r)' \subseteq Followed(r) \cup IF r = q THEN {tip} ELSE {}
<1>1. r \in DOMAIN tags
  BY DEF PeersTyped
<1>2. \A a \in Tag : tags'[r][a] = tags[r][a] \/ (r = q /\ tags'[r][a] = tip)
  BY <1>1 DEF PeersTyped, Refs
<1>3. OwnTips(r)' \subseteq OwnTips(r) \cup IF r = q THEN {tip} ELSE {}
  BY <1>2 DEF OwnTips
<1>4. Tips(r)' \subseteq Tips(r) \cup IF r = q THEN {tip} ELSE {}
  BY <1>3 DEF Tips
<1> QED
  BY <1>3, <1>4 DEF Followed

LEMMA TrackingFollowed ==
    ASSUME PeersTyped, NEW q, NEW refs, uses' = uses, "clone" \in uses[q],
           tracking' = [tracking EXCEPT ![q] = refs], heads' = heads, tags' = tags,
           NEW r \in Repos
    PROVE  Followed(r)' \subseteq Followed(r)
<1>1. OwnTips(r)' = OwnTips(r)
  BY DEF OwnTips
<1>2. r # q => Tips(r)' = Tips(r)
  BY <1>1 DEF Tips, PeersTyped
<1> QED
  BY <1>1, <1>2 DEF Followed

LEMMA OneTracked ==
    ASSUME PeersTyped, NEW q, NEW b, NEW tip, uses' = uses,
           tracking' = [tracking EXCEPT ![q][b] = tip], heads' = heads, tags' = tags,
           NEW r \in Repos
    PROVE  Followed(r)' \subseteq Followed(r) \cup IF r = q THEN {tip} ELSE {}
<1>1. OwnTips(r)' = OwnTips(r)
  BY DEF OwnTips
<1>2. r \in Client => \A a \in Branch :
          tracking'[r][a] = tracking[r][a] \/ (r = q /\ tracking'[r][a] = tip)
  BY DEF PeersTyped, Refs
<1>3. Tips(r)' \subseteq Tips(r) \cup IF r = q THEN {tip} ELSE {}
  BY <1>1, <1>2 DEF Tips
<1> QED
  BY <1>1, <1>3 DEF Followed

LEMMA SameFollowed ==
    ASSUME UNCHANGED <<heads, tags, tracking, uses>>, NEW r
    PROVE  Followed(r)' = Followed(r)
BY DEF Followed, OwnTips, Tips

\* A ref that is set to a state that is there.
LEMMA RefArrives ==
    ASSUME EntriesWhole, NEW q \in Repos, NEW tip, UNCHANGED <<timeline, uses>>,
           \A r \in Repos : Followed(r)' \subseteq Followed(r) \cup IF r = q THEN {tip} ELSE {},
           "depth" \notin uses[q] => tip \in timeline[q]
    PROVE  EntriesWhole'
<1> SUFFICES ASSUME NEW r \in Repos, "depth" \notin uses[r]
             PROVE  ParentClosed(Parents, timeline[r]) /\ Followed(r)' \subseteq timeline[r]
  BY DEF EntriesWhole, Gapless
<1>1. ParentClosed(Parents, timeline[r]) /\ Followed(r) \subseteq timeline[r]
  BY DEF EntriesWhole, Gapless
<1>2. Followed(r)' \subseteq Followed(r) \cup IF r = q THEN {tip} ELSE {}
  OBVIOUS
<1> QED
  BY <1>1, <1>2

LEMMA WholeUnmoved ==
    ASSUME EntriesWhole, UNCHANGED <<timeline, heads, tags, tracking, uses>>
    PROVE  EntriesWhole'
<1>1. \A r \in Repos : Followed(r)' = Followed(r)
  BY SameFollowed
<1> QED
  BY <1>1 DEF EntriesWhole, Gapless

LEMMA EntryArrives ==
    ASSUME PeersTyped, EntriesWhole, NEW q \in Repos, NEW s,
           UNCHANGED <<heads, tags, tracking, uses>>,
           timeline' = [timeline EXCEPT ![q] = @ \cup {s}],
           "depth" \notin uses[q] => Parents[s] \subseteq timeline[q]
    PROVE  EntriesWhole'
<1>1. \A r \in Repos : timeline'[r] = timeline[r] \cup IF r = q THEN {s} ELSE {}
  BY DEF PeersTyped
<1>2. \A r \in Repos : Followed(r)' \subseteq Followed(r) \cup IF r = q THEN {} ELSE {}
  BY SameFollowed
<1> QED
  BY <1>1, <1>2, GaplessGrows

LEMMA RecordWhole ==
    ASSUME PeersTyped, EntriesWhole, NEW q \in Repos, NEW b, NEW s, Record(q, b, s),
           Parents[s] \subseteq timeline[q]
    PROVE  EntriesWhole'
<1>1. /\ timeline' = [timeline EXCEPT ![q] = @ \cup {s}]
      /\ heads' = [heads EXCEPT ![q][b] = s]
      /\ tags' = tags /\ tracking' = tracking /\ uses' = uses
  BY DEF Record
<1>2. \A r \in Repos : timeline'[r] = timeline[r] \cup IF r = q THEN {s} ELSE {}
  BY <1>1 DEF PeersTyped
<1>3. \A r \in Repos : Followed(r)' \subseteq Followed(r) \cup IF r = q THEN {s} ELSE {}
  BY <1>1, HeadFollowed
<1> QED
  BY <1>1, <1>2, <1>3, GaplessGrows

LEMMA LocalWhole ==
    ASSUME PeersAssumption, PeersTyped, EntriesWhole, NEW q \in Repos, Local(q)
    PROVE  EntriesWhole'
<1>1. ASSUME NEW b \in Branch, Commit(q, b) PROVE EntriesWhole'
  <2>1. PICK s \in State : ParentsOf[s] = <<heads[q][b]>> /\ Record(q, b, s)
    BY <1>1 DEF Commit
  <2>2. heads[q][b] \in timeline[q]
    BY <1>1 DEF Commit, Loadable
  <2>3. Parents[s] \subseteq timeline[q]
    BY <2>1, <2>2 DEF Parents
  <2> QED
    BY <2>1, <2>3, RecordWhole
<1>2. ASSUME NEW b \in Branch, PointBranch(q, b) PROVE EntriesWhole'
  <2>1. PICK s \in Tips(q) \cap timeline[q] : heads' = [heads EXCEPT ![q][b] = s]
    BY <1>2 DEF PointBranch
  <2>2. UNCHANGED <<timeline, tags, tracking, uses>>
    BY <1>2 DEF PointBranch
  <2>3. \A r \in Repos : Followed(r)' \subseteq Followed(r) \cup IF r = q THEN {s} ELSE {}
    BY <2>1, <2>2, HeadFollowed
  <2> QED
    BY <2>1, <2>2, <2>3, RefArrives
<1>3. ASSUME NEW b \in Branch, Merge(q, b) PROVE EntriesWhole'
  <2> DEFINE ours   == heads[q][b]
             theirs == tracking[q][b]
  <2>1. ours \in timeline[q] /\ theirs \in timeline[q]
    BY <1>3 DEF Merge, Loadable
  <2>2. \/ /\ heads' = [heads EXCEPT ![q][b] = theirs]
           /\ UNCHANGED <<timeline, blobs, tags, tracking, shallow, uses>>
        \/ \E s \in State : ParentsOf[s] = <<ours, theirs>> /\ Record(q, b, s)
    BY <1>3 DEF Merge
  <2> HIDE DEF ours, theirs
  <2>3. ASSUME NEW s \in State, ParentsOf[s] = <<ours, theirs>>, Record(q, b, s)
        PROVE  EntriesWhole'
    <3> DEFINE pair == <<ours, theirs>>
    <3>1. /\ DOMAIN pair = 1 .. 2 /\ pair[1] = ours /\ pair[2] = theirs
          /\ \A i \in 1 .. 2 : i = 1 \/ i = 2
      OBVIOUS
    <3> HIDE DEF pair
    <3>2. ParentsOf[s] = pair
      BY <2>3 DEF pair
    <3>3. \A i \in DOMAIN pair : pair[i] \in timeline[q]
      BY <2>1, <3>1
    <3>4. Parents[s] \subseteq timeline[q]
      BY <3>2, <3>3 DEF Parents
    <3> QED
      BY <2>3, <3>4, RecordWhole
  <2>4. ASSUME heads' = [heads EXCEPT ![q][b] = theirs],
               UNCHANGED <<timeline, blobs, tags, tracking, shallow, uses>>
        PROVE  EntriesWhole'
    <3>1. \A r \in Repos : Followed(r)' \subseteq Followed(r) \cup IF r = q THEN {theirs} ELSE {}
      BY <2>4, HeadFollowed
    <3> QED
      BY <2>1, <2>4, <3>1, RefArrives
  <2> QED
    BY <2>2, <2>3, <2>4
<1>4. ASSUME NEW t \in Tag, CreateTag(q, t) PROVE EntriesWhole'
  <2>1. PICK b \in Branch :
            heads[q][b] # NoState /\ tags' = [tags EXCEPT ![q][t] = heads[q][b]]
    BY <1>4 DEF CreateTag
  <2>2. UNCHANGED <<timeline, heads, tracking, uses>>
    BY <1>4 DEF CreateTag
  <2>3. heads[q][b] \in Followed(q)
    BY <2>1 DEF Followed, Tips, OwnTips
  <2>4. "depth" \notin uses[q] => heads[q][b] \in timeline[q]
    BY <2>3 DEF EntriesWhole, Gapless
  <2>5. \A r \in Repos :
            Followed(r)' \subseteq Followed(r) \cup IF r = q THEN {heads[q][b]} ELSE {}
    BY <2>1, <2>2, TagFollowed
  <2> QED
    BY <2>2, <2>4, <2>5, RefArrives
<1>5. ASSUME Gc(q) PROVE EntriesWhole'
  <2> DEFINE tips == Tips(q) \cup {Root}
             kept == Reachable(Parents, tips)
  <2>1. timeline' = [timeline EXCEPT ![q] = kept] /\ UNCHANGED <<heads, tags, tracking, uses>>
    BY <1>5 DEF Gc
  <2>2. Parents \in [State -> SUBSET State]
    BY ParentsAre
  <2>3. tips \in SUBSET State
    BY DEF PeersTyped, PeersAssumption, Tips, OwnTips, Refs, Repos
  <2> HIDE DEF tips
  <2>4. tips \subseteq kept /\ ParentClosed(Parents, kept)
    BY <2>2, <2>3, ReachableTips, ReachableClosed
  <2>5. Followed(q) \subseteq tips
    BY DEF Followed, Tips, tips
  <2>6. timeline'[q] = kept /\ \A r \in Repos \ {q} : timeline'[r] = timeline[r]
    BY <2>1 DEF PeersTyped
  <2>7. \A r \in Repos : Followed(r)' = Followed(r)
    BY <2>1, SameFollowed
  <2> HIDE DEF kept
  <2> QED
    BY <2>1, <2>4, <2>5, <2>6, <2>7 DEF EntriesWhole, Gapless
<1> QED
  BY <1>1, <1>2, <1>3, <1>4, <1>5 DEF Local, LocalCommand

\* A push that is about to write a ref has delivered what it names.
LEMMA Delivered ==
    ASSUME NEW rank, NEW t, NEW j, Carries(rank, t, j), j.kind = "push",
           j.step \in {"ref", "write"}
    PROVE  j.item.tip \in t
<1>1. /\ j.item.tip \in t \cup ToSet(j.list) \cup Waiting(j) /\ j.list = <<>>
      /\ j.step # "walk"
  BY DEF Carries, Delivers
<1>2. ToSet(j.list) = {}
  BY <1>1, SetOfNone, Zenon
<1> QED
  BY <1>1, <1>2 DEF Waiting

LEMMA PushWhole ==
    ASSUME PeersAssumption, SyncTyped, NEW rank, Even(rank), Carrying(rank), EntriesWhole,
           NEW c \in Client, PushStep(c)
    PROVE  EntriesWhole'
<1> DEFINE j == job[c]
           t == timeline[Server]
<1>1. /\ j # NoJob /\ j.kind = "push" /\ j \in Job /\ Underway(j) /\ Server \in Repos
      /\ PeersTyped
  BY PushKind DEF SyncTyped, JobsTyped, Repos
<1>2. Carries(rank, t, j)
  BY <1>1 DEF Carrying, Carried, Target
<1>3. ASSUME j.step \in {"ref", "write"}, SendHead(j) PROVE EntriesWhole'
  <2> DEFINE name == j.item.name
             tip  == j.item.tip
  <2>1. /\ heads' = [heads EXCEPT ![Server][name] = tip]
        /\ UNCHANGED <<timeline, tags, tracking, uses>>
    BY <1>3 DEF SendHead, PutHead
  <2>2. tip \in t
    BY <1>1, <1>2, <1>3, Delivered
  <2> HIDE DEF name, tip
  <2>3. \A r \in Repos : Followed(r)' \subseteq Followed(r) \cup IF r = Server THEN {tip} ELSE {}
    BY <1>1, <2>1, HeadFollowed
  <2> QED
    BY <1>1, <2>1, <2>2, <2>3, RefArrives
<1>4. CASE SendEntry(c)
  <2>1. j.step = "entry" /\ j.list # <<>>
    BY <1>1, <1>4 DEF SendEntry, At, Underway
  <2>2. /\ timeline' = [timeline EXCEPT ![Server] = @ \cup {Head(j.list)}]
        /\ UNCHANGED <<heads, tags, tracking, uses>>
    BY <1>4 DEF SendEntry, PutTimeline
  <2>3. Parents[Head(j.list)] \subseteq t
    BY <1>1, <1>2, <2>1, ArrivalClosed DEF Carries
  <2> QED
    BY <1>1, <2>2, <2>3, EntryArrives
<1>5. CASE SetHead(c)
  <2>1. j.step = "ref" /\ (SendHead(j) \/ UNCHANGED peers)
    BY <1>5 DEF SetHead, Pushing, At
  <2> QED
    BY <1>3, <2>1, WholeUnmoved DEF peers
<1>6. CASE WriteChecked(c)
  BY <1>3, <1>6 DEF WriteChecked, At
<1>7. CASE SetTag(c)
  <2> DEFINE name == j.item.name
             tip  == j.item.tip
  <2>1. /\ tags' = [tags EXCEPT ![Server][name] = tip]
        /\ UNCHANGED <<timeline, heads, tracking, uses>> /\ j.step = "ref"
    BY <1>7 DEF SetTag, PutTag, Pushing, At
  <2>2. tip \in t
    BY <1>1, <1>2, <2>1, Delivered
  <2> HIDE DEF name, tip
  <2>3. \A r \in Repos : Followed(r)' \subseteq Followed(r) \cup IF r = Server THEN {tip} ELSE {}
    BY <1>1, <2>1, TagFollowed
  <2> QED
    BY <1>1, <2>1, <2>2, <2>3, RefArrives
<1>8. CASE Walk(c) \/ SendBlobs(c) \/ ListTags(c) \/ PushTag(c)
  BY <1>8, WholeUnmoved DEF Walk, SendBlobs, PutBlobs, ListTags, PushTag, peers
<1> QED
  BY <1>4, <1>5, <1>6, <1>7, <1>8 DEF PushStep

LEMMA PastOwn ==
    ASSUME PeersAssumption, NEW s \in State
    PROVE  s \in Past(s)
BY ParentsAre, AncestorSelf DEF Past, Pasts

LEMMA FetchWhole ==
    ASSUME PeersAssumption, SyncAssumption, SyncTyped, NEW rank, Even(rank), Healing,
           Carrying(rank), EntriesWhole, NEW c \in Client, FetchStep(c)
    PROVE  EntriesWhole'
<1> DEFINE j == job[c]
           t == timeline[c]
<1>1. j # NoJob /\ j.kind # "push"
  BY DEF FetchStep, Pick, GetBlobs, GetEntry, SaveBoundary, Track, TrackAll, CheckoutClone,
         FetchTags, At
<1>2. j \in Job /\ Underway(j) /\ c \in Repos /\ PeersTyped
  BY <1>1 DEF SyncTyped, JobsTyped, Repos
<1>3. Permitted(uses[c], j) /\ Carries(rank, t, j)
  BY <1>1 DEF Carrying, Carried, Target
<1>4. "depth" \notin uses[c] => j.depth = NoDepth
  BY <1>3 DEF Permitted
<1>5. CASE GetEntry(c)
  <2>1. j.step = "entry" /\ j.list # <<>>
    BY <1>2, <1>5 DEF GetEntry, At, Underway
  <2>2. /\ timeline' = [timeline EXCEPT ![c] = @ \cup {Head(j.list)}]
        /\ UNCHANGED <<heads, tags, tracking, uses>>
    BY <1>5 DEF GetEntry
  <2>3. "depth" \notin uses[c] => Parents[Head(j.list)] \subseteq t
    BY <1>2, <1>3, <1>4, <2>1, ArrivalClosed DEF Carries
  <2> QED
    BY <1>2, <2>2, <2>3, EntryArrives
<1>6. CASE Track(c)
  <2> DEFINE name == j.item.name
             tip  == j.item.tip
  <2>1. At(c, {"fetch", "clone"}, "track") /\ UNCHANGED <<timeline, heads, uses>>
    BY <1>6 DEF Track
  <2>2. "depth" \notin uses[c] => tip \in t
    <3>1. tip \in State
      BY <1>2, <2>1 DEF At, Underway, Item
    <3> QED
      BY <1>4, <2>1, <3>1, HealedBefore, PastOwn DEF Whole
  <2>3. \A r \in Repos : Followed(r)' \subseteq Followed(r) \cup IF r = c THEN {tip} ELSE {}
    <3>1. CASE j.item.in = "heads"
      <4>1. tracking' = [tracking EXCEPT ![c][name] = tip] /\ tags' = tags
        BY <1>6, <3>1 DEF Track
      <4> HIDE DEF name, tip
      <4> QED
        BY <1>2, <2>1, <4>1, OneTracked
    <3>2. CASE j.item.in # "heads"
      <4>1. tags' = [tags EXCEPT ![c][name] = tip] /\ tracking' = tracking
        BY <1>6, <3>2 DEF Track
      <4> HIDE DEF name, tip
      <4> QED
        BY <1>2, <2>1, <4>1, TagFollowed
    <3> QED
      BY <3>1, <3>2
  <2> QED
    BY <1>2, <2>1, <2>2, <2>3, RefArrives
<1>7. CASE TrackAll(c)
  <2>1. /\ tracking' = [tracking EXCEPT ![c] = j.refs]
        /\ UNCHANGED <<timeline, heads, tags, uses>> /\ j.kind = "clone"
    BY <1>7 DEF TrackAll, At
  <2>2. "clone" \in uses[c]
    BY <1>3, <2>1 DEF Permitted
  <2>3. \A r \in Repos : Followed(r)' \subseteq Followed(r)
    BY <1>2, <2>1, <2>2, TrackingFollowed
  <2> QED
    BY <2>1, <2>3 DEF EntriesWhole, Gapless
<1>8. CASE CheckoutClone(c)
  <2> DEFINE name == j.item.name
             tip  == j.item.tip
  <2>1. /\ heads' = [heads EXCEPT ![c][name] = tip]
        /\ UNCHANGED <<timeline, tags, tracking, uses>> /\ tip \in t
    BY <1>8 DEF CheckoutClone, Loadable
  <2> HIDE DEF name, tip
  <2>2. \A r \in Repos : Followed(r)' \subseteq Followed(r) \cup IF r = c THEN {tip} ELSE {}
    BY <1>2, <2>1, HeadFollowed
  <2> QED
    BY <1>2, <2>1, <2>2, RefArrives
<1>9. CASE Pick(c) \/ GetBlobs(c) \/ SaveBoundary(c) \/ FetchTags(c)
  BY <1>9, WholeUnmoved DEF Pick, GetBlobs, SaveBoundary, FetchTags, peers
<1> QED
  BY <1>5, <1>6, <1>7, <1>8, <1>9 DEF FetchStep

\* A repository that begins, with its root, or is removed.
LEMMA StartWhole ==
    ASSUME PeersTyped, EntriesWhole, NEW c \in Client, NEW new, uses' = uses,
           timeline' = [timeline EXCEPT ![c] = new], ParentClosed(Parents, new),
           \A r \in Repos \ {c} : Followed(r)' = Followed(r),
           "depth" \notin uses[c] => Followed(c)' \subseteq new
    PROVE  EntriesWhole'
<1>1. timeline'[c] = new /\ \A r \in Repos \ {c} : timeline'[r] = timeline[r]
  BY DEF PeersTyped, Repos
<1>2. \A r \in Repos \ {c} : Gapless(r)'
  BY <1>1 DEF EntriesWhole, Gapless
<1>3. Gapless(c)'
  BY <1>1 DEF Gapless
<1> QED
  BY <1>2, <1>3 DEF EntriesWhole

LEMMA CommandWhole ==
    ASSUME PeersAssumption, PeersTyped, EntriesWhole, NEW c \in Client, SyncCommand(c)
    PROVE  EntriesWhole'
<1>1. ASSUME NEW b, NEW d, CloneStart(c, b, d), b \in Branch PROVE EntriesWhole'
  <2>1. /\ timeline' = [timeline EXCEPT ![c] = {Root}]
        /\ heads' = [heads EXCEPT ![c] = [Unset(Branch) EXCEPT ![b] = Root]]
        /\ UNCHANGED <<tags, tracking, uses>> /\ "clone" \in uses[c] /\ timeline[c] = {}
    BY <1>1 DEF CloneStart, Present
  <2>2. ParentClosed(Parents, {Root})
    BY ParentsAre DEF ParentClosed
  <2>3. c \in DOMAIN heads /\ c \in Repos
    BY DEF PeersTyped, Repos
  <2>4. \A r \in Repos \ {c} : Followed(r)' = Followed(r)
    <3>1. \A r \in Repos \ {c} : heads'[r] = heads[r]
      BY <2>1 DEF PeersTyped
    <3> QED
      BY <2>1, <3>1 DEF Followed, Tips, OwnTips
  <2>5. ASSUME "depth" \notin uses[c] PROVE Followed(c)' \subseteq {Root}
    <3>1. OwnTips(c) \subseteq {}
      BY <2>1, <2>3, <2>5 DEF EntriesWhole, Gapless, Followed
    <3>2. \A a \in Branch : heads'[c][a] \in {Root, NoState}
      BY <2>1, <2>3 DEF Unset
    <3>3. OwnTips(c)' \subseteq {Root}
      BY <2>1, <3>1, <3>2 DEF OwnTips
    <3> QED
      BY <2>1, <3>3 DEF Followed
  <2> QED
    BY <2>1, <2>2, <2>4, <2>5, StartWhole
<1> QED
  BY <1>1, WholeUnmoved DEF SyncCommand, PushStart, FetchStart, peers

LEMMA CleanUpWhole ==
    ASSUME PeersAssumption, PeersTyped, EntriesWhole, NEW c \in Client, CleanUp(c)
    PROVE  EntriesWhole'
<1>1. /\ timeline' = [timeline EXCEPT ![c] = {}]
      /\ heads' = [heads EXCEPT ![c] = Unset(Branch)]
      /\ tags' = [tags EXCEPT ![c] = Unset(Tag)]
      /\ tracking' = [tracking EXCEPT ![c] = Unset(Branch)] /\ uses' = uses
  BY DEF CleanUp
<1>2. c \in Repos
  BY DEF Repos
<1>3. \A r \in Repos \ {c} : Followed(r)' = Followed(r)
  <2>1. \A r \in Repos \ {c} :
            /\ heads'[r] = heads[r] /\ tags'[r] = tags[r]
            /\ r \in Client => tracking'[r] = tracking[r]
    BY <1>1 DEF PeersTyped
  <2> QED
    BY <1>1, <2>1 DEF Followed, Tips, OwnTips
<1>4. Followed(c)' \subseteq {}
  <2>1. /\ \A b \in Branch : heads'[c][b] = NoState
        /\ \A b \in Branch : tracking'[c][b] = NoState
        /\ \A b \in Tag : tags'[c][b] = NoState
    BY <1>1, <1>2 DEF PeersTyped, Unset
  <2> QED
    BY <2>1 DEF Followed, Tips, OwnTips
<1>5. ParentClosed(Parents, {})
  BY DEF ParentClosed
<1> QED
  BY <1>1, <1>3, <1>4, <1>5, StartWhole

LEMMA EntriesWholeNext ==
    ASSUME PeersAssumption, SyncAssumption, SyncTyped, NEW rank, Even(rank), Healing,
           Carrying(rank), EntriesWhole, [SyncNext]_syncVars
    PROVE  EntriesWhole'
<1>1. PeersTyped
  BY DEF SyncTyped
<1>2. ASSUME NEW c \in Client, Fail(c) PROVE EntriesWhole'
  BY <1>2, WholeUnmoved DEF Fail, peers
<1>3. CASE UNCHANGED syncVars
  BY <1>3, WholeUnmoved DEF syncVars, peers
<1> QED
  BY <1>1, <1>2, <1>3, CommandWhole, PushWhole, FetchWhole, CleanUpWhole, LocalWhole
     DEF SyncNext, SyncStep

LEMMA EntriesWholeInit ==
    ASSUME PeersAssumption, SyncInit
    PROVE  EntriesWhole
<1>1. PICK start \in Starts :
        /\ timeline = [r \in Repos |-> start.holds[r]]
        /\ heads = [r \in Repos |-> start.heads[r]]
        /\ tags = [r \in Repos |-> Unset(Tag)]
        /\ tracking = [c \in Client |-> Unset(Branch)]
  BY DEF SyncInit, PeersInit
<1>2. /\ \A r \in Repos : ParentClosed(Parents, start.holds[r])
      /\ \A r \in Repos : \A b \in Branch : start.heads[r][b] \in start.holds[r] \cup {NoState}
  BY <1>1 DEF PeersAssumption
<1>3. ASSUME NEW r \in Repos PROVE Gapless(r)
  <2>1. /\ timeline[r] = start.holds[r]
        /\ \A b \in Branch : heads[r][b] \in timeline[r] \cup {NoState}
        /\ \A t \in Tag : tags[r][t] = NoState
        /\ r \in Client => \A b \in Branch : tracking[r][b] = NoState
    BY <1>1, <1>2 DEF Unset
  <2> QED
    BY <1>2, <2>1 DEF Gapless, Followed, Tips, OwnTips
<1> QED
  BY <1>3 DEF EntriesWhole

LEMMA WholeOfEntries ==
    ASSUME PeersAssumption, PeersTyped, EntriesWhole, EntriesHaveBlobs
    PROVE  RefsWhole
<1>1. SUFFICES ASSUME NEW r \in Repos, "depth" \notin uses[r], NEW s \in Followed(r)
               PROVE  Whole(r, s)
  BY DEF RefsWhole, Followed
<1>2. ParentClosed(Parents, timeline[r]) /\ s \in timeline[r]
  BY <1>1 DEF EntriesWhole, Gapless
<1>3. timeline[r] \in SUBSET State /\ DOMAIN Parents = State
  BY ParentsAre DEF PeersTyped
<1>4. Reachable(Parents, {s}) \subseteq timeline[r]
  BY <1>2, <1>3, ReachableLeast
<1> QED
  BY <1>2, <1>3, <1>4 DEF Whole, Past, Pasts

\* In every even history, with any number of clients, branches and tags: whatever stops,
\* and wherever, each ref of the server, and of a client that never limits a fetch, can be
\* followed to the root and checked out.
THEOREM RefsStayWhole ==
    ASSUME EvenHistory
    PROVE  SyncSpec => []RefsWhole
<1> PICK rank : Even(rank)
  BY DEF EvenHistory
<1> DEFINE Inv == SyncTyped /\ Healing /\ Carrying(rank) /\ EntriesWhole /\ BlobsFirst
<1>1. SyncInit => Inv
  BY PeersAssumption, SyncTypedInit, EntriesWholeInit, BlobsFirstInit
     DEF SyncInit, Healing, Carrying
<1>2. Inv /\ [SyncNext]_syncVars => Inv'
  <2>1. ASSUME Inv, [SyncNext]_syncVars PROVE Carrying(rank)'
    BY <2>1, PeersAssumption, SyncAssumption, CarryingNext DEF Carrying, Carried
  <2> QED
    BY <2>1, PeersAssumption, SyncAssumption, SyncTypedNext, HealingNext, EntriesWholeNext,
       BlobsFirstNext
<1>3. Inv => RefsWhole
  <2>1. BlobsFirst => EntriesHaveBlobs
    BY DEF BlobsFirst, EntriesHaveBlobs, Loadable
  <2> QED
    BY <2>1, PeersAssumption, WholeOfEntries DEF SyncTyped
<1> HIDE DEF Inv
<1> QED
  BY <1>1, <1>2, <1>3, PTL DEF SyncSpec

-----------------------------------------------------------------------------
(* The refs of clients, in every history. *)

\* A client that never limits a fetch, and sets no branch to a remote branch that its
\* clone has recorded without the history.
Steady(c) ==
    "depth" \notin uses[c] /\ ("clone" \in uses[c] => uses[c] \cap {"merge", "branch"} = {})

\* The refs of such a client can be followed to the root.
ClientRefsWhole == \A c \in Client : Steady(c) => \A s \in Followed(c) : Whole(c, s)

\* Only what is asked for is fetched.
Asked == \A c \in Client : job[c] # NoJob /\ job[c].kind # "push" => Permitted(uses[c], job[c])

LEMMA AskedCommand ==
    ASSUME JobsTyped, NEW c \in Client, SyncCommand(c)
    PROVE  Permitted(uses[c], job'[c])
<1> DEFINE n == job'[c]
<1>1. c \in DOMAIN job
  BY DEF JobsTyped
<1>2. ASSUME NEW new, Set(c, new) PROVE n = new
  BY <1>1, <1>2 DEF Set
<1>0. SUFFICES Permitted(uses[c], n)
  BY DEF n
<1> HIDE DEF n
<1>3. ASSUME NEW d \in Limits(c), "depth" \notin uses[c] PROVE d = NoDepth
  BY <1>3 DEF Limits
<1>4. ASSUME NEW b \in Branch, NEW force \in BOOLEAN, PushStart(c, b, force)
      PROVE  Permitted(uses[c], n)
  <2> DEFINE item == [in |-> "heads", name |-> b, tip |-> heads[c][b]]
             walk == Walking(NewJob("push", "walk"), item)
             held == KeepsLock(c)
             new  == [walk EXCEPT !.force = force, !.held = held]
  <2>1. Set(c, new)
    BY <1>4 DEF PushStart
  <2> HIDE DEF item, held
  <2>2. walk.kind = "push" /\ walk.depth = NoDepth /\ DOMAIN walk = Fields
    BY DEF Walking, NewJob, Fields
  <2> HIDE DEF walk
  <2>3. new.kind = "push" /\ new.depth = NoDepth
    BY <2>2 DEF Fields
  <2> HIDE DEF new
  <2> QED
    BY <1>2, <2>1, <2>3 DEF Permitted
<1>5. ASSUME NEW names, NEW d \in Limits(c), FetchStart(c, names, d)
      PROVE  Permitted(uses[c], n)
  <2> DEFINE new  == NewJob("fetch", "pick")
             left == {i \in Items("heads", heads[Server]) : i.name \in names}
             j    == [new EXCEPT !.left = left, !.depth = d]
  <2>1. Set(c, j)
    BY <1>5 DEF FetchStart
  <2>2. new.kind = "fetch" /\ {"kind", "depth"} \subseteq DOMAIN new
    BY DEF NewJob
  <2> HIDE DEF new, left
  <2>3. j.kind = "fetch" /\ j.depth = d
    BY <2>2
  <2> HIDE DEF j
  <2> QED
    BY <1>2, <1>3, <2>1, <2>3 DEF Permitted
<1>6. ASSUME NEW b, NEW d \in Limits(c), CloneStart(c, b, d) PROVE Permitted(uses[c], n)
  <2> DEFINE new  == NewJob("clone", "pick")
             left == {i \in Items("heads", heads[Server]) : i.name = b}
             refs == heads[Server]
             j    == [new EXCEPT !.left = left, !.refs = refs, !.depth = d]
  <2>1. Set(c, j) /\ "clone" \in uses[c]
    BY <1>6 DEF CloneStart
  <2>2. new.kind = "clone" /\ {"kind", "depth"} \subseteq DOMAIN new
    BY DEF NewJob
  <2> HIDE DEF new, left, refs
  <2>3. j.kind = "clone" /\ j.depth = d
    BY <2>2
  <2> HIDE DEF j
  <2> QED
    BY <1>2, <1>3, <2>1, <2>3 DEF Permitted
<1> QED
  BY <1>4, <1>5, <1>6 DEF SyncCommand

LEMMA AskedNext ==
    ASSUME SyncTyped, Asked, [SyncNext]_syncVars
    PROVE  Asked'
<1>1. uses' = uses /\ JobsTyped
  BY UsesStay DEF SyncTyped
<1>2. SUFFICES ASSUME NEW k \in Client, job'[k] # NoJob, job'[k].kind # "push"
               PROVE  Permitted(uses[k], job'[k])
  BY <1>1 DEF Asked
<1>3. CASE job'[k] = job[k]
  BY <1>2, <1>3 DEF Asked
<1>4. CASE job'[k] # job[k]
  <2>1. SyncCommand(k) \/ PushStep(k) \/ FetchStep(k)
    BY <1>1, <1>2, <1>4, JobSteps
  <2>2. CASE SyncCommand(k)
    BY <1>1, <2>2, AskedCommand
  <2>3. CASE PushStep(k)
    BY <1>1, <1>2, <2>3, PushKind DEF PushGoesOn
  <2>4. CASE FetchStep(k)
    <3>1. job[k] # NoJob
      BY <2>4 DEF FetchStep, Pick, GetBlobs, GetEntry, SaveBoundary, Track, TrackAll,
           CheckoutClone, FetchTags, At
    <3>2. job'[k].kind = job[k].kind /\ job'[k].depth = job[k].depth
      BY <1>1, <1>2, <2>4, <3>1, FetchKind
    <3> QED
      BY <1>2, <3>1, <3>2 DEF Asked, Permitted
  <2> QED
    BY <2>1, <2>2, <2>3, <2>4
<1> QED
  BY <1>3, <1>4

-----------------------------------------------------------------------------
(* What changes the refs of one client. *)

LEMMA OneClient ==
    ASSUME ClientRefsWhole, uses' = uses, NEW q,
           \A r \in Client \ {q} :
              timeline[r] \subseteq timeline'[r] /\ Followed(r)' \subseteq Followed(r),
           q \in Client /\ Steady(q) => \A s \in Followed(q)' : Past(s) \subseteq timeline'[q]
    PROVE  ClientRefsWhole'
<1> SUFFICES ASSUME NEW c \in Client, Steady(c), NEW s \in Followed(c)'
             PROVE  Past(s) \subseteq timeline'[c]
  BY DEF ClientRefsWhole, Steady, Whole
<1>1. CASE c = q
  BY <1>1
<1>2. CASE c # q
  <2>1. s \in Followed(c) /\ timeline[c] \subseteq timeline'[c]
    BY <1>2
  <2> QED
    BY <2>1 DEF ClientRefsWhole, Whole
<1> QED
  BY <1>1, <1>2

\* A ref is set to a state whose history is there.
LEMMA RefFollows ==
    ASSUME ClientRefsWhole, uses' = uses, NEW q \in Repos, NEW tip,
           \A r \in Client : timeline[r] \subseteq timeline'[r],
           \A r \in Repos : Followed(r)' \subseteq Followed(r) \cup IF r = q THEN {tip} ELSE {},
           q \in Client /\ Steady(q) => Past(tip) \subseteq timeline'[q]
    PROVE  ClientRefsWhole'
<1>1. \A r \in Client : r \in Repos
  BY DEF Repos
<1>2. \A r \in Client \ {q} : Followed(r)' \subseteq Followed(r)
  BY <1>1
<1>3. ASSUME q \in Client, Steady(q), NEW s \in Followed(q)'
      PROVE  Past(s) \subseteq timeline'[q]
  <2>1. s \in Followed(q) \cup {tip}
    OBVIOUS
  <2> QED
    BY <1>3, <2>1 DEF ClientRefsWhole, Whole
<1> QED
  BY <1>2, <1>3, OneClient

LEMMA ClientsUnmoved ==
    ASSUME ClientRefsWhole, UNCHANGED <<heads, tags, tracking, uses>>,
           \A r \in Client : timeline[r] \subseteq timeline'[r]
    PROVE  ClientRefsWhole'
<1>1. \A r \in Client : Followed(r)' = Followed(r)
  BY SameFollowed
<1> QED
  BY <1>1 DEF ClientRefsWhole, Steady, Whole

\* The past of a state is its own and that of its parents.
LEMMA PastStep ==
    ASSUME PeersAssumption, NEW s \in State, NEW have, s \in have,
           \A p \in Parents[s] : Past(p) \subseteq have
    PROVE  Past(s) \subseteq have
<1>1. Parents \in [State -> SUBSET State]
  BY ParentsAre
<1>2. \A t \in State : Past(t) = Reachable(Parents, {t})
  BY DEF Past, Pasts
<1> SUFFICES ASSUME NEW a \in Past(s), a # s PROVE a \in have
  OBVIOUS
<1>3. PICK t \in Parents[s] : a \in Reachable(Parents, {t})
  BY <1>1, <1>2, AncestorStep
<1>4. t \in State
  BY <1>1
<1> QED
  BY <1>2, <1>3, <1>4

LEMMA RecordFollows ==
    ASSUME PeersAssumption, PeersTyped, ClientRefsWhole, NEW q \in Repos, NEW b,
           NEW s \in State, Record(q, b, s),
           q \in Client /\ Steady(q) => \A p \in Parents[s] : Past(p) \subseteq timeline[q]
    PROVE  ClientRefsWhole'
<1>1. /\ timeline' = [timeline EXCEPT ![q] = @ \cup {s}]
      /\ heads' = [heads EXCEPT ![q][b] = s]
      /\ tags' = tags /\ tracking' = tracking /\ uses' = uses
  BY DEF Record
<1>2. \A r \in Repos : timeline'[r] = timeline[r] \cup IF r = q THEN {s} ELSE {}
  BY <1>1 DEF PeersTyped
<1>3. \A r \in Repos : Followed(r)' \subseteq Followed(r) \cup IF r = q THEN {s} ELSE {}
  BY <1>1, HeadFollowed
<1>4. q \in Client /\ Steady(q) => Past(s) \subseteq timeline'[q]
  <2>1. timeline'[q] = timeline[q] \cup {s}
    BY <1>2
  <2>2. s \in timeline'[q] /\ \A h \in SUBSET timeline[q] : h \subseteq timeline'[q]
    BY <2>1
  <2>3. q \in Client /\ Steady(q) => \A p \in Parents[s] : Past(p) \subseteq timeline'[q]
    BY <2>2
  <2> QED
    BY <2>2, <2>3, PastStep
<1>5. \A r \in Client : timeline[r] \subseteq timeline'[r]
  BY <1>2 DEF Repos
<1> QED
  BY <1>1, <1>3, <1>4, <1>5, RefFollows

LEMMA LocalFollows ==
    ASSUME PeersAssumption, PeersTyped, ClientRefsWhole, NEW q \in Repos, Local(q)
    PROVE  ClientRefsWhole'
<1>0. \A r \in Client : r \in Repos
  BY DEF Repos
<1>1. ASSUME NEW s \in Followed(q), q \in Client, Steady(q) PROVE Past(s) \subseteq timeline[q]
  BY <1>1 DEF ClientRefsWhole, Whole
<1>2. ASSUME NEW b \in Branch, heads[q][b] # NoState PROVE heads[q][b] \in Followed(q)
  BY <1>2 DEF Followed, Tips, OwnTips
<1>3. ASSUME NEW b \in Branch, Commit(q, b) PROVE ClientRefsWhole'
  <2>1. heads[q][b] # NoState
    BY <1>3 DEF Commit
  <2>2. PICK s \in State : ParentsOf[s] = <<heads[q][b]>> /\ Record(q, b, s)
    BY <1>3 DEF Commit
  <2>3. Parents[s] = {heads[q][b]}
    BY <2>2 DEF Parents
  <2>4. q \in Client /\ Steady(q) => \A p \in Parents[s] : Past(p) \subseteq timeline[q]
    BY <1>1, <1>2, <2>1, <2>3
  <2> QED
    BY <2>2, <2>4, RecordFollows
<1>4. ASSUME NEW b \in Branch, PointBranch(q, b) PROVE ClientRefsWhole'
  <2>1. PICK s \in Tips(q) : heads' = [heads EXCEPT ![q][b] = s]
    BY <1>4 DEF PointBranch
  <2>2. UNCHANGED <<timeline, tags, tracking, uses>> /\ "branch" \in uses[q]
    BY <1>4 DEF PointBranch
  <2>3. \A r \in Repos : Followed(r)' \subseteq Followed(r) \cup IF r = q THEN {s} ELSE {}
    BY <2>1, <2>2, HeadFollowed
  <2>4. q \in Client /\ Steady(q) => Past(s) \subseteq timeline[q]
    BY <1>1, <2>1, <2>2 DEF Steady, Followed
  <2> QED
    BY <2>2, <2>3, <2>4, RefFollows
<1>5. ASSUME NEW b \in Branch, q \in Client, Merge(q, b) PROVE ClientRefsWhole'
  <2> DEFINE ours   == heads[q][b]
             theirs == tracking[q][b]
  <2>1. ours # NoState /\ theirs # NoState /\ "merge" \in uses[q]
    BY <1>5 DEF Merge
  <2>2. \/ /\ heads' = [heads EXCEPT ![q][b] = theirs]
           /\ UNCHANGED <<timeline, blobs, tags, tracking, shallow, uses>>
        \/ \E s \in State : ParentsOf[s] = <<ours, theirs>> /\ Record(q, b, s)
    BY <1>5 DEF Merge
  <2>3. ours \in Followed(q) /\ (Steady(q) => theirs \in Followed(q))
    BY <1>2, <1>5, <2>1 DEF Steady, Followed, Tips
  <2> HIDE DEF ours, theirs
  <2>4. ASSUME NEW s \in State, ParentsOf[s] = <<ours, theirs>>, Record(q, b, s)
        PROVE  ClientRefsWhole'
    <3> DEFINE pair == <<ours, theirs>>
    <3>1. /\ DOMAIN pair = 1 .. 2 /\ pair[1] = ours /\ pair[2] = theirs
          /\ \A i \in 1 .. 2 : i = 1 \/ i = 2
      OBVIOUS
    <3> HIDE DEF pair
    <3>2. ParentsOf[s] = pair
      BY <2>4 DEF pair
    <3>3. \A i \in DOMAIN pair : pair[i] \in {ours, theirs}
      BY <3>1
    <3>4. Parents[s] \subseteq {ours, theirs}
      BY <3>2, <3>3 DEF Parents
    <3>5. Steady(q) => \A p \in Parents[s] : Past(p) \subseteq timeline[q]
      BY <1>1, <1>5, <2>3, <3>4
    <3> QED
      BY <2>4, <3>5, RecordFollows
  <2>5. ASSUME heads' = [heads EXCEPT ![q][b] = theirs],
               UNCHANGED <<timeline, blobs, tags, tracking, shallow, uses>>
        PROVE  ClientRefsWhole'
    <3>1. \A r \in Repos : Followed(r)' \subseteq Followed(r) \cup IF r = q THEN {theirs} ELSE {}
      BY <2>5, HeadFollowed
    <3>2. Steady(q) => Past(theirs) \subseteq timeline[q]
      BY <1>1, <1>5, <2>3
    <3> QED
      BY <2>5, <3>1, <3>2, RefFollows
  <2> QED
    BY <2>2, <2>4, <2>5
<1>6. ASSUME NEW t \in Tag, CreateTag(q, t) PROVE ClientRefsWhole'
  <2>1. PICK b \in Branch :
            heads[q][b] # NoState /\ tags' = [tags EXCEPT ![q][t] = heads[q][b]]
    BY <1>6 DEF CreateTag
  <2>2. UNCHANGED <<timeline, heads, tracking, uses>>
    BY <1>6 DEF CreateTag
  <2>3. q \in Client /\ Steady(q) => Past(heads[q][b]) \subseteq timeline[q]
    BY <1>1, <1>2, <2>1
  <2>4. \A r \in Repos :
            Followed(r)' \subseteq Followed(r) \cup IF r = q THEN {heads[q][b]} ELSE {}
    BY <2>1, <2>2, TagFollowed
  <2> QED
    BY <2>2, <2>3, <2>4, RefFollows
<1>7. ASSUME Gc(q) PROVE ClientRefsWhole'
  <2> DEFINE tips == Tips(q) \cup {Root}
             kept == Reachable(Parents, tips)
  <2>1. timeline' = [timeline EXCEPT ![q] = kept] /\ UNCHANGED <<heads, tags, tracking, uses>>
    BY <1>7 DEF Gc
  <2>2. Parents \in [State -> SUBSET State]
    BY ParentsAre
  <2>3. tips \in SUBSET State
    BY DEF PeersTyped, PeersAssumption, Tips, OwnTips, Refs, Repos
  <2>4. Followed(q) \subseteq tips
    BY DEF Followed, Tips
  <2> HIDE DEF tips
  <2>5. tips \subseteq kept /\ ParentClosed(Parents, kept) /\ kept \in SUBSET State
    <3>1. tips \subseteq kept /\ ParentClosed(Parents, kept)
      BY <2>2, <2>3, ReachableTips, ReachableClosed
    <3>2. kept \in SUBSET State
      BY <2>2 DEF Reachable
    <3> QED
      BY <3>1, <3>2
  <2>6. timeline'[q] = kept /\ \A r \in Repos \ {q} : timeline'[r] = timeline[r]
    BY <2>1 DEF PeersTyped
  <2>7. \A r \in Repos : Followed(r)' = Followed(r)
    BY <2>1, SameFollowed
  <2> HIDE DEF kept
  <2>8. ASSUME NEW s \in Followed(q)' PROVE Past(s) \subseteq timeline'[q]
    <3>1. s \in kept /\ s \in State /\ DOMAIN Parents = State
      BY <2>2, <2>4, <2>5, <2>7
    <3>2. Reachable(Parents, {s}) \subseteq kept
      BY <2>5, <3>1, ReachableLeast
    <3> QED
      BY <2>6, <3>1, <3>2 DEF Past, Pasts
  <2> QED
    BY <1>0, <2>1, <2>6, <2>7, <2>8, OneClient
<1> QED
  BY <1>3, <1>4, <1>5, <1>6, <1>7 DEF Local, LocalCommand

LEMMA PushFollows ==
    ASSUME PeersAssumption, SyncTyped, ClientRefsWhole, NEW c \in Client, PushStep(c)
    PROVE  ClientRefsWhole'
<1>1. Server \notin Client /\ Server \in Repos /\ PeersTyped
  BY DEF PeersAssumption, Repos, SyncTyped
<1>2. ASSUME NEW name, NEW tip, heads' = [heads EXCEPT ![Server][name] = tip],
             UNCHANGED <<timeline, tags, tracking, uses>>
      PROVE  ClientRefsWhole'
  <2>1. \A r \in Repos : Followed(r)' \subseteq Followed(r) \cup IF r = Server THEN {tip} ELSE {}
    BY <1>1, <1>2, HeadFollowed
  <2> QED
    BY <1>1, <1>2, <2>1, RefFollows
<1>3. CASE SetTag(c)
  <2> DEFINE name == job[c].item.name
             tip  == job[c].item.tip
  <2>1. /\ tags' = [tags EXCEPT ![Server][name] = tip]
        /\ UNCHANGED <<timeline, heads, tracking, uses>>
    BY <1>3 DEF SetTag, PutTag
  <2> HIDE DEF name, tip
  <2>2. \A r \in Repos : Followed(r)' \subseteq Followed(r) \cup IF r = Server THEN {tip} ELSE {}
    BY <1>1, <2>1, TagFollowed
  <2> QED
    BY <1>1, <2>1, <2>2, RefFollows
<1>4. CASE SetHead(c) \/ WriteChecked(c)
  <2>1. SendHead(job[c]) \/ UNCHANGED peers
    BY <1>4 DEF SetHead, WriteChecked
  <2>2. CASE SendHead(job[c])
    BY <1>2, <2>2 DEF SendHead, PutHead
  <2> QED
    BY <2>1, <2>2, ClientsUnmoved DEF peers
<1>5. CASE SendEntry(c)
  <2>1. /\ timeline' = [timeline EXCEPT ![Server] = @ \cup {Head(job[c].list)}]
        /\ UNCHANGED <<heads, tags, tracking, uses>>
    BY <1>5 DEF SendEntry, PutTimeline
  <2>2. \A r \in Client : timeline'[r] = timeline[r]
    BY <1>1, <2>1 DEF PeersTyped, Repos
  <2> QED
    BY <2>1, <2>2, ClientsUnmoved
<1>6. CASE Walk(c) \/ SendBlobs(c) \/ ListTags(c) \/ PushTag(c)
  BY <1>6, ClientsUnmoved DEF Walk, SendBlobs, PutBlobs, ListTags, PushTag, peers
<1> QED
  BY <1>3, <1>4, <1>5, <1>6 DEF PushStep

LEMMA FetchFollows ==
    ASSUME PeersAssumption, SyncTyped, Healing, Asked, ClientRefsWhole, NEW c \in Client,
           FetchStep(c)
    PROVE  ClientRefsWhole'
<1> DEFINE j == job[c]
<1>1. j # NoJob /\ j.kind # "push"
  BY DEF FetchStep, Pick, GetBlobs, GetEntry, SaveBoundary, Track, TrackAll, CheckoutClone,
         FetchTags, At
<1>2. c \in Repos /\ PeersTyped /\ Permitted(uses[c], j)
  BY <1>1 DEF SyncTyped, Repos, Asked
<1>3. Steady(c) => j.depth = NoDepth
  BY <1>2 DEF Permitted, Steady
<1>4. CASE GetEntry(c)
  <2>1. /\ timeline' = [timeline EXCEPT ![c] = @ \cup {Head(j.list)}]
        /\ UNCHANGED <<heads, tags, tracking, uses>>
    BY <1>4 DEF GetEntry
  <2>2. \A r \in Client : timeline[r] \subseteq timeline'[r]
    BY <2>1 DEF PeersTyped, Repos
  <2> QED
    BY <2>1, <2>2, ClientsUnmoved
<1>5. CASE Track(c)
  <2> DEFINE name == j.item.name
             tip  == j.item.tip
  <2>1. At(c, {"fetch", "clone"}, "track") /\ UNCHANGED <<timeline, heads, uses>>
    BY <1>5 DEF Track
  <2>2. Steady(c) => Past(tip) \subseteq timeline[c]
    BY <1>3, <2>1, HealedBefore DEF Whole
  <2>3. \A r \in Repos : Followed(r)' \subseteq Followed(r) \cup IF r = c THEN {tip} ELSE {}
    <3>1. CASE j.item.in = "heads"
      <4>1. tracking' = [tracking EXCEPT ![c][name] = tip] /\ tags' = tags
        BY <1>5, <3>1 DEF Track
      <4> HIDE DEF name, tip
      <4> QED
        BY <1>2, <2>1, <4>1, OneTracked
    <3>2. CASE j.item.in # "heads"
      <4>1. tags' = [tags EXCEPT ![c][name] = tip] /\ tracking' = tracking
        BY <1>5, <3>2 DEF Track
      <4> HIDE DEF name, tip
      <4> QED
        BY <1>2, <2>1, <4>1, TagFollowed
    <3> QED
      BY <3>1, <3>2
  <2> QED
    BY <1>2, <2>1, <2>2, <2>3, RefFollows
<1>6. CASE TrackAll(c)
  <2>1. /\ tracking' = [tracking EXCEPT ![c] = j.refs]
        /\ UNCHANGED <<timeline, heads, tags, uses>> /\ j.kind = "clone"
    BY <1>6 DEF TrackAll, At
  <2>2. \A r \in Repos : Followed(r)' \subseteq Followed(r)
    BY <1>2, <2>1, TrackingFollowed DEF Permitted
  <2>3. \A r \in Client : r \in Repos
    BY DEF Repos
  <2>4. Steady(c) => \A s \in Followed(c)' : Past(s) \subseteq timeline[c]
    BY <1>2, <2>2 DEF ClientRefsWhole, Whole
  <2> QED
    BY <2>1, <2>2, <2>3, <2>4, OneClient
<1>7. CASE CheckoutClone(c)
  <2> DEFINE name == j.item.name
             tip  == j.item.tip
  <2>1. /\ heads' = [heads EXCEPT ![c][name] = tip]
        /\ UNCHANGED <<timeline, tags, tracking, uses>>
    BY <1>7 DEF CheckoutClone
  <2>2. Steady(c) => Past(tip) \subseteq timeline[c]
    <3>1. j.step = "checkout" /\ Heals(timeline[c], j)
      BY <1>1, <1>7 DEF CheckoutClone, At, Healing
    <3>2. ASSUME Steady(c) PROVE Past(tip) \subseteq timeline[c] \cup ToSet(j.list) /\ j.list = <<>>
      BY <1>1, <1>3, <3>1, <3>2 DEF Heals
    <3> QED
      BY <3>2, SetOfNone, Zenon
  <2> HIDE DEF name, tip
  <2>3. \A r \in Repos : Followed(r)' \subseteq Followed(r) \cup IF r = c THEN {tip} ELSE {}
    BY <1>2, <2>1, HeadFollowed
  <2> QED
    BY <1>2, <2>1, <2>2, <2>3, RefFollows
<1>8. CASE Pick(c) \/ GetBlobs(c) \/ SaveBoundary(c) \/ FetchTags(c)
  BY <1>8, ClientsUnmoved DEF Pick, GetBlobs, SaveBoundary, FetchTags, peers
<1> QED
  BY <1>4, <1>5, <1>6, <1>7, <1>8 DEF FetchStep

LEMMA CommandFollows ==
    ASSUME PeersAssumption, PeersTyped, ClientRefsWhole, NEW c \in Client, SyncCommand(c)
    PROVE  ClientRefsWhole'
<1>1. ASSUME NEW b \in Branch, NEW d, CloneStart(c, b, d) PROVE ClientRefsWhole'
  <2>1. /\ timeline' = [timeline EXCEPT ![c] = {Root}]
        /\ heads' = [heads EXCEPT ![c] = [Unset(Branch) EXCEPT ![b] = Root]]
        /\ UNCHANGED <<tags, tracking, uses>> /\ "clone" \in uses[c] /\ timeline[c] = {}
    BY <1>1 DEF CloneStart, Present
  <2>2. c \in DOMAIN heads /\ c \in Repos /\ Root \in State
    BY DEF PeersTyped, PeersAssumption, Repos
  <2>3. \A r \in Client \ {c} : timeline'[r] = timeline[r] /\ Followed(r)' = Followed(r)
    <3>1. \A r \in Client \ {c} : heads'[r] = heads[r] /\ timeline'[r] = timeline[r]
      BY <2>1 DEF PeersTyped, Repos
    <3> QED
      BY <2>1, <3>1 DEF Followed, Tips, OwnTips
  <2>4. ASSUME Steady(c), NEW s \in Followed(c)' PROVE Past(s) \subseteq timeline'[c]
    <3>0. OwnTips(c) = Followed(c)
      BY <2>1 DEF Followed
    <3>1. \A a \in OwnTips(c) : Past(a) \subseteq timeline[c]
      BY <2>4, <3>0 DEF ClientRefsWhole, Whole
    <3>2. OwnTips(c) = {}
      <4>1. OwnTips(c) \subseteq State
        BY <2>2 DEF OwnTips, PeersTyped, Refs
      <4> QED
        BY <2>1, <3>1, <4>1, PastOwn
    <3>3. \A a \in Branch : heads'[c][a] \in {Root, NoState}
      BY <2>1, <2>2 DEF Unset
    <3>4. OwnTips(c)' \subseteq {Root}
      BY <2>1, <3>2, <3>3 DEF OwnTips
    <3>5. s = Root
      BY <2>1, <2>4, <3>4 DEF Followed
    <3>6. timeline'[c] = {Root}
      BY <2>1, <2>2 DEF PeersTyped
    <3>7. \A p \in Parents[Root] : Past(p) \subseteq {Root}
      BY ParentsAre
    <3> QED
      BY <2>2, <3>5, <3>6, <3>7, PastStep
  <2> QED
    BY <2>1, <2>3, <2>4, OneClient
<1> QED
  BY <1>1, ClientsUnmoved DEF SyncCommand, PushStart, FetchStart, peers

LEMMA CleanUpFollows ==
    ASSUME PeersAssumption, PeersTyped, ClientRefsWhole, NEW c \in Client, CleanUp(c)
    PROVE  ClientRefsWhole'
<1>1. /\ timeline' = [timeline EXCEPT ![c] = {}]
      /\ heads' = [heads EXCEPT ![c] = Unset(Branch)]
      /\ tags' = [tags EXCEPT ![c] = Unset(Tag)]
      /\ tracking' = [tracking EXCEPT ![c] = Unset(Branch)] /\ uses' = uses
  BY DEF CleanUp
<1>2. \A r \in Client \ {c} : timeline'[r] = timeline[r] /\ Followed(r)' = Followed(r)
  <2>1. \A r \in Client \ {c} :
            /\ heads'[r] = heads[r] /\ tags'[r] = tags[r] /\ timeline'[r] = timeline[r]
            /\ tracking'[r] = tracking[r]
    BY <1>1 DEF PeersTyped, Repos
  <2> QED
    BY <1>1, <2>1 DEF Followed, Tips, OwnTips
<1>3. Followed(c)' \subseteq {}
  <2>1. /\ \A b \in Branch : heads'[c][b] = NoState
        /\ \A b \in Branch : tracking'[c][b] = NoState
        /\ \A b \in Tag : tags'[c][b] = NoState
    BY <1>1 DEF PeersTyped, Repos, Unset
  <2> QED
    BY <2>1 DEF Followed, Tips, OwnTips
<1> QED
  BY <1>1, <1>2, <1>3, OneClient

LEMMA ClientRefsNext ==
    ASSUME PeersAssumption, SyncTyped, Healing, Asked, ClientRefsWhole, [SyncNext]_syncVars
    PROVE  ClientRefsWhole'
<1>1. PeersTyped
  BY DEF SyncTyped
<1>2. ASSUME NEW c \in Client, Fail(c) PROVE ClientRefsWhole'
  BY <1>2, ClientsUnmoved DEF Fail, peers
<1>3. CASE UNCHANGED syncVars
  BY <1>3, ClientsUnmoved DEF syncVars, peers
<1> QED
  BY <1>1, <1>2, <1>3, CommandFollows, PushFollows, FetchFollows, CleanUpFollows, LocalFollows
     DEF SyncNext, SyncStep

LEMMA ClientRefsInit ==
    ASSUME PeersAssumption, SyncInit
    PROVE  ClientRefsWhole
<1>1. EntriesWhole /\ PeersTyped
  BY EntriesWholeInit, SyncTypedInit DEF SyncTyped
<1> SUFFICES ASSUME NEW c \in Client, Steady(c), NEW s \in Followed(c) PROVE Whole(c, s)
  BY DEF ClientRefsWhole
<1>2. c \in Repos
  BY DEF Repos
<1>3. ParentClosed(Parents, timeline[c]) /\ s \in timeline[c]
  BY <1>1, <1>2 DEF EntriesWhole, Gapless, Steady
<1>4. timeline[c] \in SUBSET State /\ DOMAIN Parents = State
  BY <1>1, <1>2, ParentsAre DEF PeersTyped
<1>5. Reachable(Parents, {s}) \subseteq timeline[c]
  BY <1>3, <1>4, ReachableLeast
<1> QED
  BY <1>3, <1>4, <1>5 DEF Whole, Past, Pasts

\* In every history, even or not: each ref of a client that never limits a fetch can be
\* followed to the root, wherever its fetches stop, if only it sets no branch to what its
\* clone has recorded of the other branches of the server.
THEOREM ClientsStayWhole == SyncSpec => []ClientRefsWhole
<1> DEFINE Inv == SyncTyped /\ Healing /\ Asked /\ ClientRefsWhole
<1>1. SyncInit => Inv
  BY PeersAssumption, SyncTypedInit, ClientRefsInit DEF SyncInit, Healing, Asked
<1>2. Inv /\ [SyncNext]_syncVars => Inv'
  BY PeersAssumption, SyncAssumption, SyncTypedNext, HealingNext, AskedNext, ClientRefsNext
<1>3. Inv => ClientRefsWhole
  OBVIOUS
<1> HIDE DEF Inv
<1> QED
  BY <1>1, <1>2, <1>3, PTL DEF SyncSpec

=============================================================================
