----------------------------- MODULE SyncProofs -----------------------------
(***************************************************************************)
(* What transfers keep for every history, however many clients there are,  *)
(* and wherever each of them stops: types, blobs before their entries, the *)
(* branches of a server over http, and that a fetch without a limit heals. *)
(***************************************************************************)
EXTENDS Sync, HistoryProofs, FiniteSetTheorems, SequenceTheorems

-----------------------------------------------------------------------------
(* Sequences of states, and the walk of timeline_ancestry. *)

\* The members of one sequence are met in their order in the other.
InOrder(w, seq) ==
    \A i, j \in DOMAIN w : i < j =>
        \E a, b \in DOMAIN seq : a < b /\ w[i] = seq[a] /\ w[j] = seq[b]

\* w holds, in order, those of the first n members of a sequence that are not in a set.
Picks(w, seq, n, set) ==
    /\ \A i \in 1 .. Len(w) : w[i] \notin set /\ \E a \in 1 .. n : w[i] = seq[a]
    /\ \A a \in 1 .. n : seq[a] \notin set => \E i \in 1 .. Len(w) : w[i] = seq[a]
    /\ \A i, j \in 1 .. Len(w) : i < j =>
          \E a, b \in 1 .. n : a < b /\ w[i] = seq[a] /\ w[j] = seq[b]

LEMMA PicksNot ==
    ASSUME NEW S, NEW seq \in Seq(S), NEW set, NEW n \in 1 .. Len(seq), NEW w \in Seq(S),
           Picks(w, seq, n - 1, set), seq[n] \in set
    PROVE  Picks(w, seq, n, set)
<1>1. /\ \A a \in 1 .. n : a = n \/ a \in 1 .. n - 1
      /\ \A a \in 1 .. n - 1 : a \in 1 .. n
  OBVIOUS
<1>2. \A i \in 1 .. Len(w) : w[i] \notin set /\ \E a \in 1 .. n : w[i] = seq[a]
  BY <1>1 DEF Picks
<1>3. \A a \in 1 .. n : seq[a] \notin set => \E i \in 1 .. Len(w) : w[i] = seq[a]
  BY <1>1 DEF Picks
<1>4. \A i, j \in 1 .. Len(w) : i < j =>
          \E a, b \in 1 .. n : a < b /\ w[i] = seq[a] /\ w[j] = seq[b]
  BY <1>1 DEF Picks
<1> QED
  BY <1>2, <1>3, <1>4 DEF Picks

LEMMA PicksMore ==
    ASSUME NEW S, NEW seq \in Seq(S), NEW set, NEW n \in 1 .. Len(seq), NEW w \in Seq(S),
           Picks(w, seq, n - 1, set), seq[n] \notin set
    PROVE  Picks(Append(w, seq[n]), seq, n, set)
<1> DEFINE v == Append(w, seq[n])
<1>1. /\ \A a \in 1 .. n : a = n \/ a \in 1 .. n - 1
      /\ \A a \in 1 .. n - 1 : a \in 1 .. n /\ a < n
      /\ n \in 1 .. n
  OBVIOUS
<1>2. /\ Len(v) = Len(w) + 1 /\ v[Len(w) + 1] = seq[n]
      /\ \A i \in 1 .. Len(w) : v[i] = w[i] /\ i \in 1 .. Len(v)
      /\ \A i \in 1 .. Len(v) : i \in 1 .. Len(w) \/ i = Len(w) + 1
      /\ Len(w) \in Nat /\ Len(w) + 1 \in 1 .. Len(v)
  OBVIOUS
<1> HIDE DEF v
<1>3. ASSUME NEW i \in 1 .. Len(v)
      PROVE  v[i] \notin set /\ \E a \in 1 .. n : v[i] = seq[a]
  <2>1. CASE i \in 1 .. Len(w)
    <3>1. w[i] \notin set
      BY <2>1, Zenon DEF Picks
    <3>2. PICK a \in 1 .. n - 1 : w[i] = seq[a]
      BY <2>1, Zenon DEF Picks
    <3> QED
      BY <1>1, <1>2, <2>1, <3>1, <3>2
  <2>2. CASE i = Len(w) + 1
    BY <1>1, <1>2, <2>2
  <2> QED
    BY <1>2, <2>1, <2>2
<1>4. ASSUME NEW a \in 1 .. n, seq[a] \notin set
      PROVE  \E i \in 1 .. Len(v) : v[i] = seq[a]
  <2>1. CASE a = n
    BY <1>2, <2>1
  <2>2. CASE a \in 1 .. n - 1
    <3>1. PICK i \in 1 .. Len(w) : w[i] = seq[a]
      BY <1>4, <2>2 DEF Picks
    <3> QED
      BY <1>2, <3>1
  <2> QED
    BY <1>1, <2>1, <2>2
<1>5. ASSUME NEW i \in 1 .. Len(v), NEW j \in 1 .. Len(v), i < j
      PROVE  \E a, b \in 1 .. n : a < b /\ v[i] = seq[a] /\ v[j] = seq[b]
  <2>1. i \in 1 .. Len(w)
    BY <1>2, <1>5
  <2>2. CASE j \in 1 .. Len(w)
    <3>1. PICK a \in 1 .. n - 1, b \in 1 .. n - 1 : a < b /\ w[i] = seq[a] /\ w[j] = seq[b]
      BY <1>5, <2>1, <2>2 DEF Picks
    <3> QED
      BY <1>1, <1>2, <2>1, <2>2, <3>1
  <2>3. CASE j = Len(w) + 1
    <3>1. PICK a \in 1 .. n - 1 : w[i] = seq[a]
      BY <2>1 DEF Picks
    <3> QED
      BY <1>1, <1>2, <2>1, <2>3, <3>1
  <2> QED
    BY <1>2, <2>2, <2>3
<1>6. Picks(v, seq, n, set)
  BY <1>3, <1>4, <1>5 DEF Picks
<1> QED
  BY <1>6 DEF v

LEMMA PicksAll ==
    ASSUME NEW S, NEW seq \in Seq(S), NEW set, NEW w \in Seq(S), Picks(w, seq, Len(seq), set)
    PROVE  ToSet(w) = ToSet(seq) \ set /\ InOrder(w, seq)
<1>1. DOMAIN seq = 1 .. Len(seq) /\ DOMAIN w = 1 .. Len(w)
  OBVIOUS
<1>2. /\ \A i \in 1 .. Len(w) : w[i] \notin set /\ \E a \in 1 .. Len(seq) : w[i] = seq[a]
      /\ \A a \in 1 .. Len(seq) : seq[a] \notin set => \E i \in 1 .. Len(w) : w[i] = seq[a]
  BY Zenon DEF Picks
<1>3. ToSet(w) \subseteq ToSet(seq) \ set
  BY <1>1, <1>2 DEF ToSet
<1>4. ToSet(seq) \ set \subseteq ToSet(w)
  BY <1>1, <1>2 DEF ToSet
<1>6. \A i, j \in 1 .. Len(w) : i < j =>
          \E a, b \in 1 .. Len(seq) : a < b /\ w[i] = seq[a] /\ w[j] = seq[b]
  BY Zenon DEF Picks
<1>7. ASSUME NEW i \in DOMAIN w, NEW j \in DOMAIN w, i < j
      PROVE  \E a, b \in DOMAIN seq : a < b /\ w[i] = seq[a] /\ w[j] = seq[b]
  <2>0. i \in 1 .. Len(w) /\ j \in 1 .. Len(w)
    BY <1>1, <1>7
  <2>1. PICK a \in 1 .. Len(seq), b \in 1 .. Len(seq) : a < b /\ w[i] = seq[a] /\ w[j] = seq[b]
    BY <1>6, <1>7, <2>0, Zenon
  <2> QED
    BY <1>1, <2>1
<1>8. InOrder(w, seq)
  BY <1>7, Zenon DEF InOrder
<1> QED
  BY <1>3, <1>4, <1>8

\* What Without computes at each member.
Kept(seq, set, kept) ==
    kept = [n \in 0 .. Len(seq) |->
              IF n = 0 THEN <<>>
              ELSE IF seq[n] \in set THEN kept[n - 1]
              ELSE Append(kept[n - 1], seq[n])]

LEMMA KeptExists ==
    ASSUME NEW S, NEW seq \in Seq(S), NEW set
    PROVE  \E kept : Kept(seq, set, kept)
<1> DEFINE X == Seq(S)
           N == Len(seq)
           step == [n \in 1 .. N |-> [w \in X |-> IF seq[n] \in set THEN w ELSE Append(w, seq[n])]]
<1>1. N \in Nat /\ <<>> \in X
  OBVIOUS
<1>2. step \in [1 .. N -> [X -> X]]
  OBVIOUS
<1>3. \A n \in 1 .. N : \A w \in X :
          step[n][w] = IF seq[n] \in set THEN w ELSE Append(w, seq[n])
  OBVIOUS
<1> HIDE DEF X, N, step
<1>4. PICK f \in [0 .. N -> X] : f[0] = <<>> /\ \A n \in 1 .. N : f[n] = step[n][f[n - 1]]
  BY <1>1, <1>2, StepsExist
<1>5. ASSUME NEW n \in 0 .. N
      PROVE  f[n] = IF n = 0 THEN <<>>
                    ELSE IF seq[n] \in set THEN f[n - 1]
                    ELSE Append(f[n - 1], seq[n])
  <2>1. CASE n = 0
    BY <1>4, <2>1
  <2>2. CASE n # 0
    <3>1. n \in 1 .. N /\ n - 1 \in 0 .. N
      BY <1>1, <2>2
    <3>2. f[n - 1] \in X
      BY <3>1
    <3> QED
      BY <1>3, <1>4, <2>2, <3>1, <3>2
  <2> QED
    BY <2>1, <2>2
<1>6. f = [n \in 0 .. N |-> f[n]]
  OBVIOUS
<1>7. f = [n \in 0 .. N |-> IF n = 0 THEN <<>>
                            ELSE IF seq[n] \in set THEN f[n - 1]
                            ELSE Append(f[n - 1], seq[n])]
  BY <1>5, <1>6
<1>8. Kept(seq, set, f)
  BY <1>7, Zenon DEF Kept, N
<1> QED
  BY <1>8

\* Without keeps what is not in the set, in order.
LEMMA WithoutIs ==
    ASSUME NEW S, NEW seq \in Seq(S), NEW set
    PROVE  /\ Without(seq, set) \in Seq(S)
           /\ ToSet(Without(seq, set)) = ToSet(seq) \ set
           /\ InOrder(Without(seq, set), seq)
<1> DEFINE N == Len(seq)
           g == CHOOSE kept : Kept(seq, set, kept)
<1>1. N \in Nat /\ \A n \in 1 .. N : seq[n] \in S
  OBVIOUS
<1>2. Without(seq, set) = g[N]
  BY DEF Without, Kept
<1>3. Kept(seq, set, g)
  BY KeptExists
<1> HIDE DEF N, g
<1>4. \A n \in 0 .. N : g[n] = IF n = 0 THEN <<>>
                               ELSE IF seq[n] \in set THEN g[n - 1]
                               ELSE Append(g[n - 1], seq[n])
  <2>1. g = [n \in 0 .. N |-> IF n = 0 THEN <<>>
                              ELSE IF seq[n] \in set THEN g[n - 1]
                              ELSE Append(g[n - 1], seq[n])]
    BY <1>3, Zenon DEF Kept, N
  <2> QED
    BY <2>1, Zenon
<1> DEFINE Good(n) == g[n] \in Seq(S) /\ Picks(g[n], seq, n, set)
<1>5. Good(0)
  <2>1. g[0] = <<>> /\ Len(<<>>) = 0 /\ 1 .. 0 = {} /\ <<>> \in Seq(S)
    BY <1>1, <1>4
  <2>2. Picks(<<>>, seq, 0, set)
    BY <2>1 DEF Picks
  <2> QED
    BY <2>1, <2>2
<1>6. ASSUME NEW n \in 1 .. N, Good(n - 1) PROVE Good(n)
  <2>1. n \in 0 .. N /\ n # 0 /\ n \in 1 .. Len(seq) /\ seq[n] \in S
    BY <1>1 DEF N
  <2>2. CASE seq[n] \in set
    <3>1. g[n] = g[n - 1]
      BY <1>4, <2>1, <2>2
    <3> QED
      BY <1>6, <2>1, <2>2, <3>1, PicksNot
  <2>3. CASE seq[n] \notin set
    <3>1. g[n] = Append(g[n - 1], seq[n])
      BY <1>4, <2>1, <2>3
    <3>2. Picks(Append(g[n - 1], seq[n]), seq, n, set)
      BY <1>6, <2>1, <2>3, PicksMore
    <3>3. Append(g[n - 1], seq[n]) \in Seq(S)
      BY <1>6, <2>1
    <3> QED
      BY <3>1, <3>2, <3>3
  <2> QED
    BY <2>2, <2>3
<1>7. Good(N)
  <2> DEFINE T == {n \in 0 .. N : ~Good(n)}
  <2> HIDE DEF Good
  <2>1. SUFFICES ASSUME T # {} PROVE FALSE
    BY <1>1
  <2>2. T \in SUBSET Nat
    BY <1>1
  <2>3. PICK n \in T : \A m \in T : n <= m
    BY <2>1, <2>2, LeastNumber
  <2>4. n # 0
    BY <1>5, <2>3
  <2>5. n \in 1 .. N /\ n - 1 \in 0 .. N /\ n - 1 \notin T
    BY <1>1, <2>3, <2>4
  <2> QED
    BY <1>6, <2>3, <2>5
<1> QED
  BY <1>2, <1>7, PicksAll DEF N

\* Reverse holds the same states.
LEMMA ReverseIs ==
    ASSUME NEW S, NEW seq \in Seq(S)
    PROVE  /\ Reverse(seq) \in Seq(S) /\ Len(Reverse(seq)) = Len(seq)
           /\ \A i \in 1 .. Len(seq) : Reverse(seq)[i] = seq[Len(seq) - i + 1]
           /\ ToSet(Reverse(seq)) = ToSet(seq)
<1>1. \A i \in 1 .. Len(seq) : Len(seq) - i + 1 \in 1 .. Len(seq)
  OBVIOUS
<1>2. /\ Reverse(seq) \in Seq(S) /\ Len(Reverse(seq)) = Len(seq)
      /\ DOMAIN Reverse(seq) = 1 .. Len(seq) /\ DOMAIN seq = 1 .. Len(seq)
      /\ \A i \in 1 .. Len(seq) : Reverse(seq)[i] = seq[Len(seq) - i + 1]
  BY <1>1 DEF Reverse
<1>3. ASSUME NEW i \in 1 .. Len(seq) PROVE seq[i] = Reverse(seq)[Len(seq) - i + 1]
  <2>1. Len(seq) - (Len(seq) - i + 1) + 1 = i
    OBVIOUS
  <2> QED
    BY <1>1, <1>2, <2>1
<1>4. ToSet(seq) \subseteq ToSet(Reverse(seq))
  BY <1>1, <1>2, <1>3 DEF ToSet
<1>5. ToSet(Reverse(seq)) \subseteq ToSet(seq)
  BY <1>1, <1>2 DEF ToSet
<1> QED
  BY <1>2, <1>4, <1>5

\* What the states of the two orders are.
LEMMA ParentsAre ==
    ASSUME PeersAssumption
    PROVE  /\ Parents \in [State -> SUBSET State]
           /\ \A s \in State : ParentsOf[s] \in Seq(State) /\ Parents[s] = ToSet(ParentsOf[s])
           /\ Parents[Root] = {}
<1>1. \A s \in State : ParentsOf[s] \in Seq(State) /\ Parents[s] = ToSet(ParentsOf[s])
  BY DEF PeersAssumption, Parents, ToSet
<1>2. \A s \in State : ToSet(ParentsOf[s]) \subseteq State
  BY <1>1 DEF ToSet
<1>3. DOMAIN ParentsOf[Root] = {} /\ Root \in State
  <2>1. DOMAIN <<>> = {}
    OBVIOUS
  <2> QED
    BY <2>1 DEF PeersAssumption
<1>4. Parents = [s \in State |-> Parents[s]]
  BY DEF Parents
<1> QED
  BY <1>1, <1>2, <1>3, <1>4 DEF ToSet

\* The walk goes on to a parent of the earliest of its states that it has not met, if any.
LEMMA OnwardIs ==
    ASSUME PeersAssumption, NEW walk \in Seq(State)
    PROVE  IF Open(walk) = {} THEN Onward(walk) = walk
           ELSE \E m \in Open(walk), s \in State :
                    /\ \A i \in Open(walk) : m <= i
                    /\ s \in Parents[walk[m]] \ ToSet(walk)
                    /\ Onward(walk) = Append(walk, s)
<1>1. CASE Open(walk) = {}
  BY <1>1 DEF Onward
<1>2. CASE Open(walk) # {}
  <2> DEFINE m == Min(Open(walk))
             more == Without(ParentsOf[walk[m]], ToSet(walk))
  <2>1. Open(walk) \in SUBSET Nat
    BY DEF Open
  <2>2. m \in Open(walk) /\ \A i \in Open(walk) : m <= i
    BY <1>2, <2>1, LeastNumber DEF Min
  <2> HIDE DEF m
  <2>3. walk[m] \in State /\ ~(Parents[walk[m]] \subseteq ToSet(walk))
    BY <2>2 DEF Open
  <2>4. more \in Seq(State) /\ ToSet(more) = Parents[walk[m]] \ ToSet(walk)
    BY <2>3, ParentsAre, WithoutIs
  <2> HIDE DEF more
  <2>5. more # <<>>
    <3>1. ToSet(more) # {}
      BY <2>3, <2>4
    <3>2. ToSet(<<>>) = {}
      <4>1. DOMAIN <<>> = {}
        OBVIOUS
      <4> QED
        BY <4>1 DEF ToSet
    <3> QED
      BY <3>1, <3>2, Zenon
  <2>6. Head(more) \in State /\ Head(more) \in ToSet(more)
    <3>1. 1 \in DOMAIN more /\ Head(more) = more[1] /\ Head(more) \in State
      BY <2>4, <2>5
    <3> QED
      BY <3>1 DEF ToSet
  <2>7. Onward(walk) = Append(walk, Head(more))
    BY <1>2 DEF Onward, m, more
  <2> QED
    BY <1>2, <2>2, <2>4, <2>6, <2>7
<1> QED
  BY <1>1, <1>2

\* The places of two sequences in a row.
LEMMA RowOf ==
    ASSUME NEW S, NEW a \in Seq(S), NEW b \in Seq(S)
    PROVE  /\ a \o b \in Seq(S) /\ ToSet(a \o b) = ToSet(a) \cup ToSet(b)
           /\ Len(a) \in Nat /\ Len(b) \in Nat /\ Len(a \o b) = Len(a) + Len(b)
           /\ \A i \in 1 .. Len(a) : i \in 1 .. Len(a \o b) /\ (a \o b)[i] = a[i]
           /\ \A i \in 1 .. Len(a \o b) : i \notin 1 .. Len(a) =>
                 i - Len(a) \in 1 .. Len(b) /\ (a \o b)[i] = b[i - Len(a)]
<1> DEFINE row == a \o b
<1>1. row \in Seq(S) /\ Len(a) \in Nat /\ Len(b) \in Nat /\ Len(row) = Len(a) + Len(b)
  OBVIOUS
<1>2. \A i \in 1 .. Len(row) : row[i] = IF i <= Len(a) THEN a[i] ELSE b[i - Len(a)]
  BY ConcatProperties
<1> HIDE DEF row
<1>3. \A i \in 1 .. Len(a) : i \in 1 .. Len(row) /\ row[i] = a[i]
  BY <1>1, <1>2
<1>4. \A i \in 1 .. Len(row) : i \notin 1 .. Len(a) =>
          i - Len(a) \in 1 .. Len(b) /\ row[i] = b[i - Len(a)]
  BY <1>1, <1>2
<1>5. \A i \in 1 .. Len(b) : Len(a) + i \in 1 .. Len(row) /\ row[Len(a) + i] = b[i]
  <2>1. ASSUME NEW i \in 1 .. Len(b) PROVE Len(a) + i \in 1 .. Len(row) /\ row[Len(a) + i] = b[i]
    <3> DEFINE k == Len(a) + i
    <3>1. k \in 1 .. Len(row) /\ k \notin 1 .. Len(a) /\ k - Len(a) = i
      BY <1>1
    <3> QED
      BY <1>4, <3>1
  <2> QED
    BY <2>1
<1>6. DOMAIN row = 1 .. Len(row) /\ DOMAIN a = 1 .. Len(a) /\ DOMAIN b = 1 .. Len(b)
  BY <1>1
<1>7. ToSet(row) = ToSet(a) \cup ToSet(b)
  <2>1. /\ ToSet(row) = {row[i] : i \in 1 .. Len(row)}
        /\ ToSet(a) = {a[i] : i \in 1 .. Len(a)} /\ ToSet(b) = {b[i] : i \in 1 .. Len(b)}
    BY <1>6 DEF ToSet
  <2>2. \A i \in 1 .. Len(a) : a[i] \in ToSet(row)
    BY <1>3, <2>1
  <2>3. \A i \in 1 .. Len(b) : b[i] \in ToSet(row)
    BY <1>5, <2>1
  <2>4. \A i \in 1 .. Len(row) : row[i] \in ToSet(a) \cup ToSet(b)
    BY <1>3, <1>4, <2>1
  <2> QED
    BY <2>1, <2>2, <2>3, <2>4
<1> QED
  BY <1>1, <1>3, <1>4, <1>7 DEF row

\* The ancestry that a request gets is a walk that has gone on so many times.
LEMMA AncestryIs ==
    ASSUME PeersAssumption, NEW tip \in State
    PROVE  \E met \in [0 .. Cardinality(State) -> Seq(State)] :
              /\ met[0] = <<tip>>
              /\ \A n \in 1 .. Cardinality(State) : met[n] = Onward(met[n - 1])
              /\ \A depth \in Nat \ {0} :
                    \E n \in 0 .. Cardinality(State) - 1 :
                        /\ Ancestry(tip, depth) = met[n]
                        /\ depth > Cardinality(State) => n = Cardinality(State) - 1
<1> DEFINE N == Cardinality(State)
           X == Seq(State)
           IsMet(f) == f = [n \in 0 .. N |-> IF n = 0 THEN <<tip>> ELSE Onward(f[n - 1])]
           next == [w \in X |-> Onward(w)]
           g == CHOOSE f : IsMet(f)
<1>1. N \in Nat /\ N # 0 /\ <<tip>> \in X
  <2>1. N \in Nat
    BY FS_CardinalityType DEF PeersAssumption
  <2>2. N # 0
    BY FS_EmptySet DEF PeersAssumption
  <2> QED
    BY <2>1, <2>2
<1>2. next \in [X -> X] /\ \A w \in X : next[w] = Onward(w)
  <2>1. ASSUME NEW w \in Seq(State) PROVE Onward(w) \in Seq(State)
    <3>1. CASE Open(w) = {}
      BY <3>1, OnwardIs
    <3>2. CASE Open(w) # {}
      <4>1. PICK s \in State : Onward(w) = Append(w, s)
        BY <3>2, OnwardIs
      <4> QED
        BY <4>1
    <3> QED
      BY <3>1, <3>2
  <2> QED
    BY <2>1
<1>3. \A depth \in Nat \ {0} : Ancestry(tip, depth) = g[Min({depth, N}) - 1]
  BY DEF Ancestry
<1> HIDE DEF N, X, next
<1>4. PICK f \in [0 .. N -> X] : Walks(f, next, <<tip>>, N)
  BY <1>1, <1>2, WalkExists
<1>5. IsMet(f)
  <2>1. ASSUME NEW n \in 0 .. N PROVE f[n] = IF n = 0 THEN <<tip>> ELSE Onward(f[n - 1])
    <3>1. CASE n = 0
      BY <1>4, <3>1 DEF Walks
    <3>2. CASE n # 0
      <4>1. n \in 1 .. N /\ n - 1 \in 0 .. N
        BY <1>1, <3>2
      <4>2. f[n] = next[f[n - 1]] /\ f[n - 1] \in X
        BY <1>4, <4>1 DEF Walks
      <4> QED
        BY <1>2, <3>2, <4>2
    <3> QED
      BY <3>1, <3>2
  <2>2. f = [n \in 0 .. N |-> f[n]]
    OBVIOUS
  <2> QED
    BY <2>1, <2>2
<1>6. IsMet(g)
  <2> HIDE DEF IsMet
  <2> QED
    BY <1>5
<1> HIDE DEF g
<1>7. /\ \A n \in 0 .. N : g[n] = IF n = 0 THEN <<tip>> ELSE Onward(g[n - 1])
      /\ DOMAIN g = 0 .. N /\ g = [n \in 0 .. N |-> g[n]]
  <2>1. g = [n \in 0 .. N |-> IF n = 0 THEN <<tip>> ELSE Onward(g[n - 1])]
    BY <1>6
  <2>2. DOMAIN g = 0 .. N
    BY <2>1, Zenon
  <2>3. \A n \in 0 .. N : g[n] = IF n = 0 THEN <<tip>> ELSE Onward(g[n - 1])
    BY <2>1, Zenon
  <2>4. g = [n \in 0 .. N |-> g[n]]
    BY <2>1, <2>2, <2>3
  <2> QED
    BY <2>2, <2>3, <2>4
<1>8. g[0] = <<tip>> /\ \A n \in 1 .. N : g[n] = Onward(g[n - 1])
  <2>1. 0 \in 0 .. N /\ \A n \in 1 .. N : n \in 0 .. N /\ n # 0
    BY <1>1
  <2> QED
    BY <1>7, <2>1
<1>9. ASSUME NEW n \in 0 .. N PROVE g[n] \in X
  <2> DEFINE T == {m \in 0 .. N : g[m] \notin X}
  <2>1. SUFFICES ASSUME T # {} PROVE FALSE
    OBVIOUS
  <2>2. T \in SUBSET Nat
    BY <1>1
  <2>3. PICK m \in T : \A k \in T : m <= k
    BY <2>1, <2>2, LeastNumber
  <2>4. m # 0
    BY <1>1, <1>8, <2>3
  <2>5. m \in 1 .. N /\ m - 1 \in 0 .. N /\ m - 1 \notin T
    BY <1>1, <2>3, <2>4
  <2>6. g[m] = next[g[m - 1]] /\ g[m - 1] \in X
    BY <1>2, <1>8, <2>5
  <2> QED
    BY <1>2, <2>3, <2>6
<1>10. ASSUME NEW depth \in Nat \ {0}
       PROVE  \E n \in 0 .. N - 1 : /\ Ancestry(tip, depth) = g[n]
                                    /\ depth > N => n = N - 1
  <2>1. {depth, N} \in SUBSET Nat /\ {depth, N} # {}
    BY <1>1
  <2>2. PICK m \in {depth, N} : \A y \in {depth, N} : m <= y
    BY <2>1, LeastNumber
  <2>3. Min({depth, N}) \in {depth, N} /\ \A y \in {depth, N} : Min({depth, N}) <= y
    BY <2>2 DEF Min
  <2> DEFINE k == Min({depth, N})
  <2> HIDE DEF k
  <2>4. k \in Nat \ {0} /\ k <= N /\ k <= depth /\ k \in {depth, N}
    BY <1>1, <2>3 DEF k
  <2>5. k - 1 \in 0 .. N - 1 /\ (depth > N => k - 1 = N - 1)
    BY <1>1, <2>4
  <2> QED
    BY <1>3, <2>5 DEF k
<1>11. g \in [0 .. N -> X]
  BY <1>7, <1>9
<1> QED
  BY <1>8, <1>10, <1>11 DEF N, X

\* A walk holds its tip, and either as many states as it was to, or all their parents.
LEMMA AncestryGrows ==
    ASSUME PeersAssumption, NEW tip \in State,
           NEW met \in [0 .. Cardinality(State) -> Seq(State)], met[0] = <<tip>>,
           \A n \in 1 .. Cardinality(State) : met[n] = Onward(met[n - 1]),
           NEW n \in 0 .. Cardinality(State)
    PROVE  /\ met[n] # <<>> /\ tip \in ToSet(met[n])
           /\ \/ Open(met[n]) = {}
              \/ Cardinality(ToSet(met[n])) = n + 1
<1> DEFINE N == Cardinality(State)
           Good(k) == /\ met[k] # <<>> /\ tip \in ToSet(met[k])
                      /\ Open(met[k]) = {} \/ Cardinality(ToSet(met[k])) = k + 1
<1>1. N \in Nat
  BY FS_CardinalityType DEF PeersAssumption
<1>2. Good(0)
  <2>1. ToSet(<<tip>>) = {tip}
    BY DEF ToSet
  <2>2. Cardinality({tip}) = 1
    BY FS_Singleton
  <2>3. <<tip>> # <<>>
    OBVIOUS
  <2>4. met[0] # <<>> /\ ToSet(met[0]) = {tip}
    BY <2>1, <2>3, Zenon
  <2>5. Cardinality(ToSet(met[0])) = 1
    BY <2>2, <2>4, Zenon
  <2>6. 0 + 1 = 1
    OBVIOUS
  <2>7. tip \in ToSet(met[0])
    BY <2>4
  <2> QED
    BY <2>4, <2>5, <2>6, <2>7, Zenon
<1>3. ASSUME NEW k \in 1 .. N, Good(k - 1) PROVE Good(k)
  <2> DEFINE w == met[k - 1]
  <2>0. k - 1 \in 0 .. N /\ k - 1 \in Nat /\ k - 1 + 1 = k
    BY <1>1
  <2>1. w \in Seq(State) /\ met[k] = Onward(w) /\ k - 1 \in Nat /\ k - 1 + 1 = k
    BY <2>0
  <2>2. w # <<>> /\ tip \in ToSet(w) /\ (Open(w) = {} \/ Cardinality(ToSet(w)) = k)
    BY <1>3, <2>1
  <2> HIDE DEF w
  <2>3. CASE Open(w) = {}
    BY <2>1, <2>2, <2>3, OnwardIs
  <2>4. CASE Open(w) # {}
    <3>1. PICK s \in State : s \notin ToSet(w) /\ Onward(w) = Append(w, s)
      BY <2>1, <2>4, OnwardIs
    <3>2. ToSet(Append(w, s)) = ToSet(w) \cup {s}
      <4>1. /\ DOMAIN Append(w, s) = 1 .. Len(w) + 1 /\ DOMAIN w = 1 .. Len(w) /\ Len(w) \in Nat
            /\ \A i \in 1 .. Len(w) : Append(w, s)[i] = w[i]
            /\ Append(w, s)[Len(w) + 1] = s
        BY <2>1
      <4>2. 1 .. Len(w) + 1 = (1 .. Len(w)) \cup {Len(w) + 1}
        BY <4>1
      <4> QED
        BY <4>1, <4>2 DEF ToSet
    <3>3. IsFiniteSet(ToSet(w))
      <4>1. ToSet(w) \subseteq State
        BY <2>1 DEF ToSet
      <4> QED
        BY <4>1, FS_Subset DEF PeersAssumption
    <3>4. Cardinality(ToSet(w) \cup {s}) = k + 1
      BY <2>2, <2>4, <3>1, <3>3, FS_AddElement
    <3>5. Append(w, s) # <<>>
      <4>1. Len(Append(w, s)) = Len(w) + 1 /\ Len(w) \in Nat /\ Len(<<>>) = 0
        BY <2>1
      <4>2. Len(Append(w, s)) # Len(<<>>)
        BY <4>1
      <4> QED
        BY <4>2, Zenon
    <3> QED
      BY <2>1, <2>2, <3>1, <3>2, <3>4, <3>5
  <2> QED
    BY <2>3, <2>4
<1>4. Good(n)
  <2> DEFINE T == {k \in 0 .. N : ~Good(k)}
  <2> HIDE DEF Good
  <2>1. SUFFICES ASSUME T # {} PROVE FALSE
    BY <1>1
  <2>2. T \in SUBSET Nat
    BY <1>1
  <2>3. PICK k \in T : \A m \in T : k <= m
    BY <2>1, <2>2, LeastNumber
  <2>4. k # 0
    BY <1>2, <2>3
  <2>5. k \in 1 .. N /\ k - 1 \in 0 .. N /\ k - 1 \notin T
    BY <1>1, <2>3, <2>4
  <2> QED
    BY <1>3, <2>3, <2>5
<1> QED
  BY <1>4

LEMMA AncestryType ==
    ASSUME PeersAssumption, NEW tip \in State, NEW depth \in Nat \ {0}
    PROVE  /\ Ancestry(tip, depth) \in Seq(State) /\ Ancestry(tip, depth) # <<>>
           /\ Last(Ancestry(tip, depth)) \in State
<1> DEFINE N == Cardinality(State)
<1>0. N \in Nat
  BY FS_CardinalityType DEF PeersAssumption
<1>1. PICK met \in [0 .. N -> Seq(State)] :
          /\ met[0] = <<tip>> /\ \A n \in 1 .. N : met[n] = Onward(met[n - 1])
          /\ \A d \in Nat \ {0} :
                \E n \in 0 .. N - 1 : Ancestry(tip, d) = met[n] /\ (d > N => n = N - 1)
  BY AncestryIs
<1>2. PICK n \in 0 .. N - 1 : Ancestry(tip, depth) = met[n]
  BY <1>1
<1>3. n \in 0 .. N
  BY <1>0
<1>4. met[n] \in Seq(State) /\ met[n] # <<>>
  <2>1. met[n] \in Seq(State)
    BY <1>1, <1>3, Zenon
  <2>2. /\ met \in [0 .. Cardinality(State) -> Seq(State)]
        /\ met[0] = <<tip>> /\ \A k \in 1 .. Cardinality(State) : met[k] = Onward(met[k - 1])
        /\ n \in 0 .. Cardinality(State)
    BY <1>1, <1>3, Zenon
  <2>3. /\ met[n] # <<>> /\ tip \in ToSet(met[n])
        /\ Open(met[n]) = {} \/ Cardinality(ToSet(met[n])) = n + 1
    <3> HIDE DEF N
    <3> QED
      BY <2>2, AncestryGrows
  <2> QED
    BY <2>1, <2>3
<1> DEFINE w == met[n]
<1> HIDE DEF w
<1>5. w \in Seq(State) /\ w # <<>>
  BY <1>4 DEF w
<1>6. Last(w) \in State
  BY <1>5 DEF Last
<1> QED
  BY <1>2, <1>5, <1>6 DEF w

\* Without a limit it meets the whole past of its tip.
LEMMA AncestryWhole ==
    ASSUME PeersAssumption, NEW tip \in State, NEW depth \in Nat, depth > Cardinality(State)
    PROVE  /\ tip \in ToSet(Ancestry(tip, depth))
           /\ ToSet(Ancestry(tip, depth)) \subseteq State
           /\ ParentClosed(Parents, ToSet(Ancestry(tip, depth)))
           /\ Past(tip) \subseteq ToSet(Ancestry(tip, depth))
<1> DEFINE N == Cardinality(State)
<1>0. N \in Nat /\ N # 0 /\ IsFiniteSet(State) /\ depth \in Nat \ {0}
  BY FS_CardinalityType, FS_EmptySet DEF PeersAssumption
<1>1. PICK met \in [0 .. N -> Seq(State)] :
          /\ met[0] = <<tip>> /\ \A n \in 1 .. N : met[n] = Onward(met[n - 1])
          /\ \A d \in Nat \ {0} :
                \E n \in 0 .. N - 1 : Ancestry(tip, d) = met[n] /\ (d > N => n = N - 1)
  BY AncestryIs
<1> DEFINE w == met[N - 1]
<1>2. Ancestry(tip, depth) = w
  BY <1>0, <1>1
<1>3. N - 1 \in 0 .. N /\ N - 1 + 1 = N
  BY <1>0
<1>4. /\ w \in Seq(State) /\ tip \in ToSet(w)
      /\ Open(w) = {} \/ Cardinality(ToSet(w)) = N
  BY <1>1, <1>3, AncestryGrows
<1> HIDE DEF w
<1>5. ToSet(w) \subseteq State /\ IsFiniteSet(ToSet(w))
  <2>1. ToSet(w) \subseteq State
    BY <1>4 DEF ToSet
  <2> QED
    BY <1>0, <2>1, FS_Subset
<1>6. Cardinality(ToSet(w)) = N => ToSet(w) = State
  BY <1>0, <1>5, FS_Subset
<1>7. ParentClosed(Parents, ToSet(w))
  <2>1. ASSUME NEW s \in ToSet(w), NEW p \in Parents[s] PROVE p \in ToSet(w)
    <3>1. CASE Open(w) = {}
      <4>1. PICK i \in DOMAIN w : s = w[i]
        BY DEF ToSet
      <4> QED
        BY <2>1, <3>1, <4>1 DEF Open
    <3>2. CASE Cardinality(ToSet(w)) = N
      BY <1>5, <1>6, <2>1, <3>2, ParentsAre
    <3> QED
      BY <1>4, <3>1, <3>2
  <2> QED
    BY <2>1 DEF ParentClosed
<1>8. Past(tip) \subseteq ToSet(w)
  <2>1. DOMAIN Parents = State /\ Past(tip) = Reachable(Parents, {tip})
    BY ParentsAre DEF Past, Pasts
  <2>2. ToSet(w) \in SUBSET DOMAIN Parents /\ {tip} \subseteq ToSet(w)
    BY <1>4, <1>5, <2>1
  <2>3. Reachable(Parents, {tip}) \subseteq ToSet(w)
    BY <1>7, <2>2, ReachableLeast
  <2> QED
    BY <2>1, <2>3
<1> QED
  BY <1>2, <1>4, <1>5, <1>7, <1>8

\* What is missing, oldest first.
LEMMA MissingIs ==
    ASSUME PeersAssumption, NEW c, NEW walk \in Seq(State)
    PROVE  /\ Missing(c, walk) \in Seq(State)
           /\ ToSet(Missing(c, walk)) = ToSet(walk) \ timeline[c]
           /\ InOrder(Missing(c, walk), Reverse(walk))
BY ReverseIs, WithoutIs DEF Missing

-----------------------------------------------------------------------------
(* Types. *)

\* What a job has at hand at each of its steps.
Underway(j) ==
    /\ j.depth # 0
    /\ j.step = "walk" => j.queue # <<>>
    /\ j.step \in {"blobs", "entry"} => j.list # <<>>
    /\ j.step \notin {"pick", "list", "tags"} => j.item \in Item

PeersTyped ==
    /\ timeline \in [Repos -> SUBSET State]
    /\ blobs \in [Repos -> SUBSET Blobs]
    /\ heads \in [Repos -> Refs(Branch)] /\ tags \in [Repos -> Refs(Tag)]
    /\ tracking \in [Client -> Refs(Branch)]
    /\ shallow \in [Client -> SUBSET State]

JobsTyped ==
    /\ DOMAIN job = Client
    /\ \A c \in Client : job[c] # NoJob => job[c] \in Job /\ Underway(job[c])

\* The inductive form of SyncTypeOK.
SyncTyped == PeersTyped /\ JobsTyped

LEMMA JobSet ==
    ASSUME JobsTyped, NEW c \in Client, NEW j, Set(c, j), j \in Job, Underway(j)
    PROVE  JobsTyped'
BY DEF JobsTyped, Set

LEMMA JobDone ==
    ASSUME JobsTyped, NEW c \in Client, Finish(c)
    PROVE  JobsTyped'
BY DEF JobsTyped, Finish

LEMMA DepthsFit ==
    ASSUME SyncAssumption, PeersAssumption, NEW c, NEW d \in Limits(c)
    PROVE  d \in Nat \ {0} /\ NoDepth \in Nat \ {0}
<1>1. Cardinality(State) \in Nat
  BY FS_CardinalityType DEF PeersAssumption
<1> QED
  BY <1>1 DEF SyncAssumption, Limits

\* One step of a job changes a few of its fields.
LEMMA NewTyped ==
    ASSUME SyncAssumption, PeersAssumption, NEW kind \in {"push", "fetch", "clone"}
    PROVE  NewJob(kind, "pick") \in Job /\ NewJob(kind, "walk") \in Job
<1>1. NoDepth \in Nat /\ Unset(Branch) \in Refs(Branch) /\ NoItem \in Item \cup {NoItem}
  BY DEF SyncAssumption, Unset, Refs
<1>2. <<>> \in Seq(State)
  OBVIOUS
<1> HIDE DEF Item
<1> QED
  BY <1>1, <1>2 DEF NewJob, Job

LEMMA StepTyped ==
    ASSUME NEW j \in Job,
           NEW step \in {"walk", "blobs", "entry", "ref", "write", "list", "tags", "pick",
                         "boundary", "track", "checkout"}
    PROVE  /\ [j EXCEPT !.step = step] \in Job
           /\ [j EXCEPT !.step = step].step = step
           /\ [j EXCEPT !.step = step].item = j.item
           /\ [j EXCEPT !.step = step].list = j.list
           /\ [j EXCEPT !.step = step].queue = j.queue
           /\ [j EXCEPT !.step = step].depth = j.depth
BY DEF Job

LEMMA WalkingTyped ==
    ASSUME NEW j \in Job, j.depth # 0, NEW item \in Item
    PROVE  Walking(j, item) \in Job /\ Underway(Walking(j, item))
<1>1. item.tip \in State
  BY DEF Item
<1>2. <<item.tip>> \in Seq(State) /\ <<item.tip>> # <<>> /\ <<>> \in Seq(State)
  BY <1>1
<1> DEFINE q == <<item.tip>>
<1> HIDE DEF q
<1>3. [j EXCEPT !.step = "walk", !.item = item, !.queue = q, !.seen = {}, !.list = <<>>]
      \in Job
  BY <1>2 DEF Job, q
<1>4. Underway([j EXCEPT !.step = "walk", !.item = item, !.queue = q, !.seen = {},
                         !.list = <<>>])
  BY <1>2 DEF Job, Underway, q
<1> QED
  BY <1>3, <1>4 DEF Walking, q

LEMMA AfterWalkTyped ==
    ASSUME NEW j \in Job, j.step = "walk", j.item \in Item, j.depth # 0
    PROVE  AfterWalk(j) \in Job /\ Underway(AfterWalk(j))
<1>1. CASE j.queue # <<>>
  BY <1>1 DEF AfterWalk, Underway
<1>2. CASE j.queue = <<>> /\ j.list = <<>>
  <2>1. AfterWalk(j) = [j EXCEPT !.step = "ref"]
    BY <1>2 DEF AfterWalk
  <2> QED
    BY <2>1 DEF Underway, Job
<1>3. CASE j.queue = <<>> /\ j.list # <<>>
  <2>1. AfterWalk(j) = [j EXCEPT !.step = "blobs"]
    BY <1>3 DEF AfterWalk
  <2> QED
    BY <1>3, <2>1 DEF Underway, Job
<1> QED
  BY <1>1, <1>2, <1>3

LEMMA ItemsTyped ==
    ASSUME NEW kind \in {"heads", "tags"}, NEW names \in {Branch, Tag}, NEW refs \in Refs(names)
    PROVE  Items(kind, refs) \subseteq Item
<1>1. DOMAIN refs = names /\ \A n \in names : refs[n] \in State \cup {NoState}
  BY DEF Refs
<1>2. \A n \in names : n \in Branch \cup Tag
  OBVIOUS
<1>3. ASSUME NEW n \in names, refs[n] # NoState
      PROVE  [in |-> kind, name |-> n, tip |-> refs[n]] \in Item
  BY <1>1, <1>2, <1>3 DEF Item
<1> QED
  BY <1>1, <1>3 DEF Items

LEMMA JobsTypedCommand ==
    ASSUME PeersAssumption, SyncAssumption, SyncTyped, NEW c \in Client, SyncCommand(c)
    PROVE  JobsTyped'
<1>0. c \in Repos /\ Server \in Repos
  BY DEF Repos
<1>1. ASSUME NEW b \in Branch, NEW force \in BOOLEAN, PushStart(c, b, force) PROVE JobsTyped'
  <2> DEFINE item == [in |-> "heads", name |-> b, tip |-> heads[c][b]]
             new  == NewJob("push", "walk")
             walk == Walking(new, item)
             j    == [walk EXCEPT !.force = force, !.held = KeepsLock(c)]
  <2>1. heads[c][b] \in State
    BY <1>0, <1>1 DEF PushStart, SyncTyped, PeersTyped, Refs
  <2>2. item \in Item
    BY <2>1 DEF Item
  <2>3. new \in Job /\ new.depth # 0
    <3>1. new.depth = NoDepth /\ NoDepth # 0
      BY DepthsFit DEF NewJob, Limits
    <3> QED
      BY <3>1, NewTyped
  <2>4. Set(c, j)
    BY <1>1 DEF PushStart
  <2> HIDE DEF new, item
  <2>5. walk \in Job /\ Underway(walk)
    BY <2>2, <2>3, WalkingTyped
  <2> HIDE DEF walk
  <2>6. KeepsLock(c) \in BOOLEAN
    BY DEF KeepsLock
  <2>7. j \in Job /\ Underway(j)
    BY <2>5, <2>6 DEF Job, Underway
  <2> QED
    BY <2>4, <2>7, JobSet DEF SyncTyped
<1>2. ASSUME NEW names, NEW d \in Limits(c), FetchStart(c, names, d) PROVE JobsTyped'
  <2> DEFINE new  == NewJob("fetch", "pick")
             left == {i \in Items("heads", heads[Server]) : i.name \in names}
             j    == [new EXCEPT !.left = left, !.depth = d]
  <2>1. new \in Job /\ new.step = "pick"
    BY NewTyped DEF NewJob
  <2>2. left \subseteq Item
    <3>1. heads[Server] \in Refs(Branch)
      BY <1>0 DEF SyncTyped, PeersTyped
    <3> QED
      BY <3>1, ItemsTyped
  <2>3. Set(c, j)
    BY <1>2 DEF FetchStart
  <2>4. d \in Nat /\ d # 0
    BY DepthsFit
  <2> HIDE DEF new, left
  <2>5. j \in Job /\ Underway(j)
    BY <2>1, <2>2, <2>4 DEF Job, Underway
  <2> QED
    BY <2>3, <2>5, JobSet DEF SyncTyped
<1>3. ASSUME NEW b \in Branch, NEW d \in Limits(c), CloneStart(c, b, d) PROVE JobsTyped'
  <2> DEFINE new  == NewJob("clone", "pick")
             left == {i \in Items("heads", heads[Server]) : i.name = b}
             refs == heads[Server]
             j    == [new EXCEPT !.left = left, !.refs = refs, !.depth = d]
  <2>1. new \in Job /\ new.step = "pick"
    BY NewTyped DEF NewJob
  <2>2. refs \in Refs(Branch)
    BY <1>0 DEF SyncTyped, PeersTyped
  <2>3. left \subseteq Item
    BY <2>2, ItemsTyped
  <2>4. Set(c, j)
    BY <1>3 DEF CloneStart
  <2>5. d \in Nat /\ d # 0
    BY DepthsFit
  <2> HIDE DEF new, left, refs
  <2>6. j \in Job /\ Underway(j)
    BY <2>1, <2>2, <2>3, <2>5 DEF Job, Underway
  <2> QED
    BY <2>4, <2>6, JobSet DEF SyncTyped
<1> QED
  BY <1>1, <1>2, <1>3 DEF SyncCommand
LEMMA HeadTyped ==
    ASSUME NEW S, NEW seq \in Seq(S), seq # <<>>
    PROVE  Head(seq) \in S /\ Tail(seq) \in Seq(S)
OBVIOUS

LEMMA JobsTypedPush ==
    ASSUME PeersAssumption, SyncAssumption, SyncTyped, NEW c \in Client, PushStep(c)
    PROVE  JobsTyped'
<1>0. c \in Repos /\ Server \in Repos /\ job[c] # NoJob /\ job[c] \in Job /\ Underway(job[c])
  <2>1. job[c] # NoJob
    BY DEF PushStep, Walk, SendBlobs, SendEntry, SetHead, WriteChecked, ListTags, PushTag,
           SetTag, Pushing, At
  <2> QED
    BY <2>1 DEF SyncTyped, JobsTyped, Repos
<1> DEFINE j == job[c]
<1>1. ASSUME NEW step \in {"list", "tags", "write"}, j.item \in Item,
             Set(c, [j EXCEPT !.step = step])
      PROVE  JobsTyped'
  <2>1. [j EXCEPT !.step = step] \in Job /\ Underway([j EXCEPT !.step = step])
    BY <1>0, <1>1 DEF Underway, Job
  <2> QED
    BY <1>1, <2>1, JobSet DEF SyncTyped
<1>2. CASE Walk(c)
  <2> DEFINE s    == Head(j.queue)
             next == [j EXCEPT !.queue = Tail(j.queue), !.seen = @ \cup {s}]
             more == [next EXCEPT !.queue = @ \o Without(ParentsOf[s], next.seen),
                                  !.list = <<s>> \o @]
  <2>1. j.queue \in Seq(State) /\ j.queue # <<>> /\ j.step = "walk" /\ j.depth # 0
        /\ j.item \in Item
    BY <1>0, <1>2 DEF Walk, At, Underway, Job
  <2>2. s \in State /\ Tail(j.queue) \in Seq(State)
    BY <2>1, HeadTyped
  <2> HIDE DEF s
  <2>3. /\ next \in Job /\ next.step = "walk" /\ next.item \in Item /\ next.depth # 0
        /\ next.queue = Tail(j.queue) /\ next.list = j.list
    BY <1>0, <2>1, <2>2 DEF Job
  <2>4. Set(c, AfterWalk(next)) \/ Set(c, AfterWalk(more))
    BY <1>2 DEF Walk, s
  <2> HIDE DEF next
  <2>5. more \in Job /\ more.step = "walk" /\ more.item \in Item /\ more.depth # 0
    <3> DEFINE q == next.queue \o Without(ParentsOf[s], next.seen)
               l == <<s>> \o next.list
    <3>1. q \in Seq(State)
      <4>1. Without(ParentsOf[s], next.seen) \in Seq(State)
        BY <2>2, ParentsAre, WithoutIs
      <4>2. next.queue \in Seq(State)
        BY <2>3 DEF Job
      <4> QED
        BY <4>1, <4>2
    <3>2. l \in Seq(State)
      <4>1. next.list \in Seq(State)
        BY <2>3 DEF Job
      <4> QED
        BY <2>2, <4>1
    <3>3. more = [next EXCEPT !.queue = q, !.list = l]
      BY <2>3 DEF Job
    <3> HIDE DEF q, l, more
    <3>4. /\ [next EXCEPT !.queue = q, !.list = l] \in Job
          /\ [next EXCEPT !.queue = q, !.list = l].step = next.step
          /\ [next EXCEPT !.queue = q, !.list = l].item = next.item
          /\ [next EXCEPT !.queue = q, !.list = l].depth = next.depth
      BY <2>3, <3>1, <3>2 DEF Job
    <3> QED
      BY <2>3, <3>3, <3>4
  <2> HIDE DEF more
  <2> QED
    BY <2>3, <2>4, <2>5, AfterWalkTyped, JobSet DEF SyncTyped
<1>3. CASE SendBlobs(c)
  <2>1. Set(c, [j EXCEPT !.step = "entry"]) /\ j.step = "blobs"
    BY <1>3 DEF SendBlobs, At
  <2>2. [j EXCEPT !.step = "entry"] \in Job /\ Underway([j EXCEPT !.step = "entry"])
    BY <1>0, <2>1, StepTyped DEF Underway
  <2> QED
    BY <2>1, <2>2, JobSet DEF SyncTyped
<1>4. CASE SendEntry(c)
  <2> DEFINE step == IF Tail(j.list) = <<>> THEN "ref" ELSE "blobs"
             new  == [j EXCEPT !.list = Tail(j.list), !.step = step]
  <2>1. /\ j.step = "entry" /\ j.list # <<>> /\ j.list \in Seq(State)
        /\ j.item \in Item /\ j.depth # 0
    BY <1>0, <1>4 DEF SendEntry, At, Underway, Job
  <2>2. Tail(j.list) \in Seq(State)
    BY <2>1, HeadTyped
  <2>3. Set(c, new)
    BY <1>0, <1>4 DEF SendEntry, Job
  <2>4. new \in Job /\ Underway(new)
    BY <1>0, <2>1, <2>2 DEF Underway, Job
  <2> HIDE DEF new
  <2> QED
    BY <2>3, <2>4, JobSet DEF SyncTyped
<1>5. CASE SetHead(c)
  <2>1. j.item \in Item /\ (Set(c, [j EXCEPT !.step = "list"]) \/ Set(c, [j EXCEPT !.step = "write"]))
    BY <1>0, <1>5 DEF SetHead, Pushing, At, Underway
  <2> QED
    BY <1>1, <2>1
<1>6. CASE WriteChecked(c)
  BY <1>0, <1>1, <1>6 DEF WriteChecked, At, Underway
<1>7. CASE ListTags(c)
  <2> DEFINE left == Items("tags", tags[c])
             new  == [j EXCEPT !.left = left, !.step = "tags"]
  <2>1. left \subseteq Item
    BY <1>0, ItemsTyped DEF SyncTyped, PeersTyped
  <2>2. Set(c, new)
    BY <1>7 DEF ListTags
  <2> HIDE DEF left
  <2>3. new \in Job /\ Underway(new)
    BY <1>0, <2>1 DEF Underway, Job
  <2> HIDE DEF new
  <2> QED
    BY <2>2, <2>3, JobSet DEF SyncTyped
<1>8. CASE PushTag(c)
  <2>1. CASE Finish(c)
    BY <2>1, JobDone DEF SyncTyped
  <2>2. ASSUME NEW item \in j.left,
               \/ Set(c, [j EXCEPT !.left = @ \ {item}])
               \/ Set(c, Walking([j EXCEPT !.left = @ \ {item}], item))
        PROVE  JobsTyped'
    <3> DEFINE next == [j EXCEPT !.left = @ \ {item}]
    <3>1. j.step = "tags" /\ item \in Item /\ j.depth # 0
      BY <1>0, <1>8 DEF PushTag, At, Job, Underway
    <3>2. next \in Job /\ Underway(next) /\ next.depth # 0
      BY <1>0, <3>1 DEF Job, Underway
    <3> HIDE DEF next
    <3>3. Walking(next, item) \in Job /\ Underway(Walking(next, item))
      BY <3>1, <3>2, WalkingTyped
    <3>4. Set(c, next) \/ Set(c, Walking(next, item))
      BY <2>2 DEF next
    <3> QED
      BY <3>2, <3>3, <3>4, JobSet DEF SyncTyped
  <2>3. Finish(c) \/ \E item \in j.left : \/ Set(c, [j EXCEPT !.left = @ \ {item}])
                                          \/ Set(c, Walking([j EXCEPT !.left = @ \ {item}], item))
    BY <1>8 DEF PushTag
  <2> QED
    BY <2>1, <2>2, <2>3
<1>9. CASE SetTag(c)
  BY <1>0, <1>1, <1>9 DEF SetTag, Pushing, At, Underway
<1> QED
  BY <1>2, <1>3, <1>4, <1>5, <1>6, <1>7, <1>8, <1>9 DEF PushStep

LEMMA JobsTypedFetch ==
    ASSUME PeersAssumption, SyncAssumption, SyncTyped, NEW c \in Client, FetchStep(c)
    PROVE  JobsTyped'
<1>0. c \in Repos /\ Server \in Repos /\ job[c] # NoJob /\ job[c] \in Job /\ Underway(job[c])
  <2>1. job[c] # NoJob
    BY DEF FetchStep, Pick, GetBlobs, GetEntry, SaveBoundary, Track, TrackAll,
           CheckoutClone, FetchTags, At
  <2> QED
    BY <2>1 DEF SyncTyped, JobsTyped, Repos
<1> DEFINE j == job[c]
<1>1. ASSUME NEW step \in {"track", "pick", "checkout"}, j.item \in Item,
             Set(c, [j EXCEPT !.step = step])
      PROVE  JobsTyped'
  <2>1. [j EXCEPT !.step = step] \in Job /\ Underway([j EXCEPT !.step = step])
    BY <1>0, <1>1 DEF Underway, Job
  <2> QED
    BY <1>1, <2>1, JobSet DEF SyncTyped
<1>2. CASE Pick(c)
  <2>1. PICK item \in j.left :
            LET walk == Ancestry(item.tip, j.depth)
                list == Missing(c, walk)
            IN  Set(c, [j EXCEPT
                    !.item = item, !.left = @ \ {item}, !.list = list,
                    !.fetched = {list[i] : i \in DOMAIN list},
                    !.boundary = Boundary(walk, j.depth),
                    !.step = IF list = <<>> THEN "boundary" ELSE "blobs"])
    BY <1>2 DEF Pick
  <2> DEFINE walk  == Ancestry(item.tip, j.depth)
             list  == Missing(c, walk)
             got   == {list[i] : i \in DOMAIN list}
             limit == Boundary(walk, j.depth)
             left  == j.left \ {item}
             step  == IF list = <<>> THEN "boundary" ELSE "blobs"
             new   == [j EXCEPT !.item = item, !.left = left, !.list = list, !.fetched = got,
                                !.boundary = limit, !.step = step]
  <2>2. item \in Item /\ item.tip \in State /\ left \subseteq Item /\ j.depth \in Nat \ {0}
    BY <1>0 DEF Job, Underway, Item
  <2>3. walk \in Seq(State) /\ Last(walk) \in State
    BY <2>2, AncestryType
  <2>4. limit \subseteq State
    <3> HIDE DEF walk
    <3> QED
      BY <2>3 DEF Boundary
  <2>5. list \in Seq(State)
    <3> HIDE DEF walk
    <3> QED
      BY <2>3, MissingIs
  <2>6. Set(c, new)
    BY <1>0, <2>1 DEF Job
  <2> HIDE DEF walk, list, limit, left
  <2>7. got \subseteq State
    BY <2>5
  <2> HIDE DEF got
  <2>8. new \in Job /\ Underway(new)
    BY <1>0, <2>2, <2>4, <2>5, <2>7 DEF Job, Underway
  <2> HIDE DEF new
  <2> QED
    BY <2>6, <2>8, JobSet DEF SyncTyped
<1>3. CASE GetBlobs(c)
  <2>1. Set(c, [j EXCEPT !.step = "entry"]) /\ j.step = "blobs"
    BY <1>3 DEF GetBlobs, At
  <2>2. [j EXCEPT !.step = "entry"] \in Job /\ Underway([j EXCEPT !.step = "entry"])
    BY <1>0, <2>1, StepTyped DEF Underway
  <2> QED
    BY <2>1, <2>2, JobSet DEF SyncTyped
<1>4. CASE GetEntry(c)
  <2> DEFINE step == IF Tail(j.list) = <<>> THEN "boundary" ELSE "blobs"
             new  == [j EXCEPT !.list = Tail(j.list), !.step = step]
  <2>1. /\ j.step = "entry" /\ j.list # <<>> /\ j.list \in Seq(State)
        /\ j.item \in Item /\ j.depth # 0
    BY <1>0, <1>4 DEF GetEntry, At, Underway, Job
  <2>2. Tail(j.list) \in Seq(State)
    BY <2>1, HeadTyped
  <2>3. Set(c, new)
    BY <1>0, <1>4 DEF GetEntry, Job
  <2>4. new \in Job /\ Underway(new)
    BY <1>0, <2>1, <2>2 DEF Underway, Job
  <2> HIDE DEF new
  <2> QED
    BY <2>3, <2>4, JobSet DEF SyncTyped
<1>5. CASE SaveBoundary(c)
  BY <1>0, <1>1, <1>5 DEF SaveBoundary, At, Underway
<1>6. CASE Track(c)
  BY <1>0, <1>1, <1>6 DEF Track, At, Underway
<1>7. CASE TrackAll(c)
  BY <1>0, <1>1, <1>7 DEF TrackAll, At, Underway
<1>8. CASE CheckoutClone(c)
  BY <1>0, <1>1, <1>8 DEF CheckoutClone, At, Underway
<1>9. CASE FetchTags(c)
  <2> DEFINE left == Items("tags", tags[Server])
             new  == [j EXCEPT !.left = left, !.tagged = TRUE]
  <2>1. left \subseteq Item /\ j.step = "pick"
    BY <1>0, <1>9, ItemsTyped DEF SyncTyped, PeersTyped, FetchTags, At
  <2>2. Finish(c) \/ Set(c, new)
    BY <1>9 DEF FetchTags
  <2> HIDE DEF left
  <2>3. new \in Job /\ Underway(new)
    BY <1>0, <2>1 DEF Underway, Job
  <2> HIDE DEF new
  <2> QED
    BY <2>2, <2>3, JobSet, JobDone DEF SyncTyped
<1> QED
  BY <1>2, <1>3, <1>4, <1>5, <1>6, <1>7, <1>8, <1>9 DEF FetchStep

LEMMA JobsTypedNext ==
    ASSUME PeersAssumption, SyncAssumption, SyncTyped, [SyncNext]_syncVars
    PROVE  JobsTyped'
<1>1. ASSUME UNCHANGED job PROVE JobsTyped'
  BY <1>1 DEF SyncTyped, JobsTyped
<1>2. ASSUME NEW c \in Client, Fail(c) \/ CleanUp(c) PROVE JobsTyped'
  BY <1>2, JobDone DEF Fail, CleanUp, SyncTyped
<1>3. ASSUME NEW c \in Client, SyncCommand(c) \/ SyncStep(c) PROVE JobsTyped'
  BY <1>3, JobsTypedCommand, JobsTypedPush, JobsTypedFetch DEF SyncStep
<1> QED
  BY <1>1, <1>2, <1>3 DEF SyncNext, Local, syncVars

\* The entries and the blobs of a state are of their types.
LEMMA BlobsAre ==
    ASSUME NEW s \in State
    PROVE  BlobsOf[s] \subseteq Blobs
BY DEF Blobs

LEMMA RecordTyped ==
    ASSUME PeersTyped, NEW r \in Repos, NEW b \in Branch, NEW s \in State, Record(r, b, s)
    PROVE  PeersTyped'
<1>1. BlobsOf[s] \subseteq Blobs
  BY BlobsAre
<1>2. /\ timeline' = [timeline EXCEPT ![r] = @ \cup {s}]
      /\ blobs' = [blobs EXCEPT ![r] = @ \cup BlobsOf[s]]
      /\ heads' = [heads EXCEPT ![r][b] = s]
      /\ UNCHANGED <<tags, tracking, shallow>>
  BY DEF Record
<1>3. timeline' \in [Repos -> SUBSET State]
  BY <1>2 DEF PeersTyped
<1>4. blobs' \in [Repos -> SUBSET Blobs]
  BY <1>1, <1>2 DEF PeersTyped
<1>5. heads' \in [Repos -> Refs(Branch)]
  BY <1>2 DEF PeersTyped, Refs
<1> QED
  BY <1>2, <1>3, <1>4, <1>5 DEF PeersTyped

LEMMA PeersTypedLocal ==
    ASSUME PeersAssumption, PeersTyped, NEW r \in Repos, Local(r)
    PROVE  PeersTyped'
<1>1. ASSUME NEW b \in Branch, Commit(r, b) PROVE PeersTyped'
  BY <1>1, RecordTyped DEF Commit
<1>2. ASSUME NEW b \in Branch, PointBranch(r, b) PROVE PeersTyped'
  <2>1. PICK s \in State : heads' = [heads EXCEPT ![r][b] = s]
    <3>1. timeline[r] \subseteq State
      BY DEF PeersTyped
    <3> QED
      BY <1>2, <3>1 DEF PointBranch
  <2>2. heads' \in [Repos -> Refs(Branch)]
    BY <2>1 DEF PeersTyped, Refs
  <2> QED
    BY <1>2, <2>2 DEF PeersTyped, PointBranch
<1>3. ASSUME NEW b \in Branch, r \in Client, Merge(r, b) PROVE PeersTyped'
  <2>1. tracking[r][b] \in State \cup {NoState}
    BY <1>3 DEF PeersTyped, Refs
  <2>2. CASE /\ heads' = [heads EXCEPT ![r][b] = tracking[r][b]]
             /\ UNCHANGED <<timeline, blobs, tags, tracking, shallow, uses>>
    <3>1. heads' \in [Repos -> Refs(Branch)]
      BY <2>1, <2>2 DEF PeersTyped, Refs
    <3> QED
      BY <2>2, <3>1 DEF PeersTyped
  <2>3. CASE \E s \in State : Record(r, b, s)
    BY <2>3, RecordTyped
  <2> QED
    BY <1>3, <2>2, <2>3 DEF Merge
<1>4. ASSUME NEW t \in Tag, CreateTag(r, t) PROVE PeersTyped'
  <2>1. PICK b \in Branch : tags' = [tags EXCEPT ![r][t] = heads[r][b]]
    BY <1>4 DEF CreateTag
  <2>2. heads[r][b] \in State \cup {NoState}
    BY DEF PeersTyped, Refs
  <2>3. tags' \in [Repos -> Refs(Tag)]
    BY <2>1, <2>2 DEF PeersTyped, Refs
  <2> QED
    BY <1>4, <2>3 DEF PeersTyped, CreateTag
<1>5. CASE Gc(r)
  <2> DEFINE kept == Reachable(Parents, Tips(r) \cup {Root})
             used == UNION {BlobsOf[s] : s \in kept}
  <2>1. kept \subseteq timeline[r]
    BY <1>5 DEF Gc
  <2>2. /\ timeline' = [timeline EXCEPT ![r] = kept]
        /\ blobs' = [blobs EXCEPT ![r] = @ \cap used]
        /\ UNCHANGED <<heads, tags, tracking, shallow>>
    BY <1>5 DEF Gc
  <2> HIDE DEF kept, used
  <2>3. timeline' \in [Repos -> SUBSET State] /\ blobs' \in [Repos -> SUBSET Blobs]
    BY <2>1, <2>2 DEF PeersTyped
  <2> QED
    BY <2>2, <2>3 DEF PeersTyped
<1> QED
  BY <1>1, <1>2, <1>3, <1>4, <1>5 DEF Local, LocalCommand

LEMMA PeersTypedPush ==
    ASSUME PeersAssumption, SyncTyped, NEW c \in Client, PushStep(c)
    PROVE  PeersTyped'
<1>0. c \in Repos /\ Server \in Repos /\ job[c] # NoJob /\ job[c] \in Job /\ Underway(job[c])
  <2>1. job[c] # NoJob
    BY DEF PushStep, Walk, SendBlobs, SendEntry, SetHead, WriteChecked, ListTags, PushTag,
           SetTag, Pushing, At
  <2> QED
    BY <2>1 DEF SyncTyped, JobsTyped, Repos
<1>1. ASSUME UNCHANGED peers PROVE PeersTyped'
  BY <1>1 DEF SyncTyped, PeersTyped, peers
<1>2. ASSUME job[c].step \in {"blobs", "entry"} PROVE Head(job[c].list) \in State
  <2>1. job[c].list \in Seq(State) /\ job[c].list # <<>>
    BY <1>0, <1>2 DEF Underway, Job
  <2> QED
    BY <2>1, HeadTyped
<1>3. CASE SendBlobs(c)
  <2>1. Head(job[c].list) \in State
    BY <1>2, <1>3 DEF SendBlobs, At
  <2>2. BlobsOf[Head(job[c].list)] \subseteq Blobs
    BY <2>1, BlobsAre
  <2>3. blobs' \in [Repos -> SUBSET Blobs]
    BY <1>3, <2>2 DEF SendBlobs, PutBlobs, SyncTyped, PeersTyped
  <2> QED
    BY <1>3, <2>3 DEF SendBlobs, PutBlobs, SyncTyped, PeersTyped
<1>4. CASE SendEntry(c)
  <2>1. Head(job[c].list) \in State
    BY <1>2, <1>4 DEF SendEntry, At
  <2>2. timeline' \in [Repos -> SUBSET State]
    BY <1>4, <2>1 DEF SendEntry, PutTimeline, SyncTyped, PeersTyped
  <2> QED
    BY <1>4, <2>2 DEF SendEntry, PutTimeline, SyncTyped, PeersTyped
<1>5. ASSUME job[c].step \in {"ref", "write"}, SendHead(job[c]) PROVE PeersTyped'
  <2>1. job[c].item.tip \in State
    BY <1>0, <1>5 DEF Underway, Item
  <2>2. heads' = [heads EXCEPT ![Server][job[c].item.name] = job[c].item.tip]
    BY <1>5 DEF SendHead, PutHead
  <2>3. heads' \in [Repos -> Refs(Branch)]
    BY <2>1, <2>2 DEF SyncTyped, PeersTyped, Refs
  <2> QED
    BY <1>5, <2>3 DEF SendHead, PutHead, SyncTyped, PeersTyped
<1>6. CASE SetHead(c)
  BY <1>1, <1>5, <1>6 DEF SetHead, Pushing, At
<1>7. CASE WriteChecked(c)
  BY <1>5, <1>7 DEF WriteChecked, At
<1>8. CASE SetTag(c)
  <2>1. job[c].item.tip \in State
    BY <1>0, <1>8 DEF SetTag, Pushing, At, Underway, Item
  <2>2. tags' = [tags EXCEPT ![Server][job[c].item.name] = job[c].item.tip]
    BY <1>8 DEF SetTag, PutTag
  <2>3. tags' \in [Repos -> Refs(Tag)]
    BY <2>1, <2>2 DEF SyncTyped, PeersTyped, Refs
  <2> QED
    BY <1>8, <2>3 DEF SetTag, PutTag, SyncTyped, PeersTyped
<1>9. CASE Walk(c) \/ ListTags(c) \/ PushTag(c)
  BY <1>1, <1>9 DEF Walk, ListTags, PushTag
<1> QED
  BY <1>3, <1>4, <1>6, <1>7, <1>8, <1>9 DEF PushStep

LEMMA PeersTypedFetch ==
    ASSUME PeersAssumption, SyncTyped, NEW c \in Client, FetchStep(c)
    PROVE  PeersTyped'
<1>0. c \in Repos /\ Server \in Repos /\ job[c] # NoJob /\ job[c] \in Job /\ Underway(job[c])
  <2>1. job[c] # NoJob
    BY DEF FetchStep, Pick, GetBlobs, GetEntry, SaveBoundary, Track, TrackAll,
           CheckoutClone, FetchTags, At
  <2> QED
    BY <2>1 DEF SyncTyped, JobsTyped, Repos
<1>1. ASSUME UNCHANGED peers PROVE PeersTyped'
  BY <1>1 DEF SyncTyped, PeersTyped, peers
<1>2. ASSUME job[c].step \in {"blobs", "entry"} PROVE Head(job[c].list) \in State
  <2>1. job[c].list \in Seq(State) /\ job[c].list # <<>>
    BY <1>0, <1>2 DEF Underway, Job
  <2> QED
    BY <2>1, HeadTyped
<1>3. ASSUME job[c].step \in {"track", "checkout"} PROVE job[c].item.tip \in State
  BY <1>0, <1>3 DEF Underway, Item
<1>4. CASE GetBlobs(c)
  <2>1. Head(job[c].list) \in State
    BY <1>2, <1>4 DEF GetBlobs, At
  <2>2. BlobsOf[Head(job[c].list)] \subseteq Blobs
    BY <2>1, BlobsAre
  <2>3. blobs' \in [Repos -> SUBSET Blobs]
    BY <1>4, <2>2 DEF GetBlobs, SyncTyped, PeersTyped
  <2> QED
    BY <1>4, <2>3 DEF GetBlobs, SyncTyped, PeersTyped
<1>5. CASE GetEntry(c)
  <2>1. Head(job[c].list) \in State
    BY <1>2, <1>5 DEF GetEntry, At
  <2>2. timeline' \in [Repos -> SUBSET State]
    BY <1>5, <2>1 DEF GetEntry, SyncTyped, PeersTyped
  <2> QED
    BY <1>5, <2>2 DEF GetEntry, SyncTyped, PeersTyped
<1>6. CASE SaveBoundary(c)
  <2> DEFINE kept == {s \in shallow[c] : s \notin timeline[c] \/ Parents[s] \cap job[c].fetched = {}}
             new  == (IF job[c].depth = NoDepth THEN {} ELSE kept) \cup job[c].boundary
  <2>1. new \subseteq State
    BY <1>0 DEF SyncTyped, PeersTyped, Job
  <2>2. /\ shallow' = [shallow EXCEPT ![c] = new]
        /\ UNCHANGED <<timeline, blobs, heads, tags, tracking>>
    BY <1>6 DEF SaveBoundary
  <2> HIDE DEF new
  <2> QED
    BY <2>1, <2>2 DEF SyncTyped, PeersTyped
<1>7. CASE Track(c)
  <2>1. job[c].item.tip \in State
    BY <1>3, <1>7 DEF Track, At
  <2>2. /\ \/ /\ tracking' = [tracking EXCEPT ![c][job[c].item.name] = job[c].item.tip]
              /\ UNCHANGED tags
           \/ /\ tags' = [tags EXCEPT ![c][job[c].item.name] = job[c].item.tip]
              /\ UNCHANGED tracking
        /\ UNCHANGED <<timeline, blobs, heads, shallow>>
    BY <1>7 DEF Track
  <2>3. ASSUME tracking' = [tracking EXCEPT ![c][job[c].item.name] = job[c].item.tip]
        PROVE  tracking' \in [Client -> Refs(Branch)]
    BY <2>1, <2>3 DEF SyncTyped, PeersTyped, Refs
  <2>4. ASSUME tags' = [tags EXCEPT ![c][job[c].item.name] = job[c].item.tip]
        PROVE  tags' \in [Repos -> Refs(Tag)]
    BY <2>1, <2>4 DEF SyncTyped, PeersTyped, Refs
  <2> QED
    BY <2>2, <2>3, <2>4 DEF SyncTyped, PeersTyped
<1>8. CASE TrackAll(c)
  <2>1. job[c].refs \in Refs(Branch)
    BY <1>0 DEF Job
  <2> QED
    BY <1>8, <2>1 DEF TrackAll, SyncTyped, PeersTyped
<1>9. CASE CheckoutClone(c)
  <2>1. job[c].item.tip \in State
    BY <1>3, <1>9 DEF CheckoutClone, At
  <2>2. heads' = [heads EXCEPT ![c][job[c].item.name] = job[c].item.tip]
    BY <1>9 DEF CheckoutClone
  <2>3. heads' \in [Repos -> Refs(Branch)]
    BY <2>1, <2>2 DEF SyncTyped, PeersTyped, Refs
  <2> QED
    BY <1>9, <2>3 DEF CheckoutClone, SyncTyped, PeersTyped
<1>10. CASE Pick(c) \/ FetchTags(c)
  BY <1>1, <1>10 DEF Pick, FetchTags
<1> QED
  BY <1>4, <1>5, <1>6, <1>7, <1>8, <1>9, <1>10 DEF FetchStep

LEMMA PeersTypedNext ==
    ASSUME PeersAssumption, SyncTyped, [SyncNext]_syncVars
    PROVE  PeersTyped'
<1>1. ASSUME UNCHANGED peers PROVE PeersTyped'
  BY <1>1 DEF SyncTyped, PeersTyped, peers
<1>2. ASSUME NEW c \in Client, SyncCommand(c) PROVE PeersTyped'
  <2>1. ASSUME NEW b \in Branch, NEW d \in Limits(c), CloneStart(c, b, d) PROVE PeersTyped'
    <3> DEFINE new == [Unset(Branch) EXCEPT ![b] = Root]
    <3>1. Root \in State /\ new \in Refs(Branch)
      BY DEF PeersAssumption, Unset, Refs
    <3>2. /\ timeline' = [timeline EXCEPT ![c] = {Root}]
          /\ heads' = [heads EXCEPT ![c] = new]
          /\ UNCHANGED <<blobs, tags, tracking, shallow>>
      BY <2>1 DEF CloneStart
    <3> HIDE DEF new
    <3> QED
      BY <3>1, <3>2 DEF SyncTyped, PeersTyped
  <2> QED
    BY <1>1, <1>2, <2>1 DEF SyncCommand, PushStart, FetchStart
<1>3. ASSUME NEW c \in Client, CleanUp(c) PROVE PeersTyped'
  <2>1. Unset(Branch) \in Refs(Branch) /\ Unset(Tag) \in Refs(Tag)
    BY DEF Unset, Refs
  <2>2. /\ timeline' = [timeline EXCEPT ![c] = {}] /\ blobs' = [blobs EXCEPT ![c] = {}]
        /\ heads' = [heads EXCEPT ![c] = Unset(Branch)]
        /\ tags' = [tags EXCEPT ![c] = Unset(Tag)]
        /\ tracking' = [tracking EXCEPT ![c] = Unset(Branch)]
        /\ shallow' = [shallow EXCEPT ![c] = {}]
    BY <1>3 DEF CleanUp
  <2> QED
    BY <2>1, <2>2 DEF SyncTyped, PeersTyped
<1>4. ASSUME NEW c \in Client, Fail(c) \/ SyncStep(c) PROVE PeersTyped'
  BY <1>1, <1>4, PeersTypedPush, PeersTypedFetch DEF Fail, SyncStep
<1>5. ASSUME NEW r \in Repos, Local(r) PROVE PeersTyped'
  BY <1>5, PeersTypedLocal DEF SyncTyped
<1> QED
  BY <1>1, <1>2, <1>3, <1>4, <1>5 DEF SyncNext, syncVars

LEMMA SyncTypedInit ==
    ASSUME PeersAssumption, SyncInit
    PROVE  SyncTyped
<1>1. PICK start \in Starts :
        /\ timeline = [r \in Repos |-> start.holds[r]]
        /\ blobs = [r \in Repos |-> UNION {BlobsOf[s] : s \in start.holds[r]}]
        /\ heads = [r \in Repos |-> start.heads[r]]
        /\ tags = [r \in Repos |-> Unset(Tag)]
        /\ tracking = [c \in Client |-> Unset(Branch)]
        /\ shallow = [c \in Client |-> {}]
  BY DEF SyncInit, PeersInit
<1>2. /\ start.holds \in [Repos -> SUBSET State]
      /\ start.heads \in [Repos -> [Branch -> State \cup {NoState}]]
  BY DEF PeersAssumption
<1>3. timeline \in [Repos -> SUBSET State] /\ heads \in [Repos -> Refs(Branch)]
  BY <1>1, <1>2 DEF Refs
<1>4. blobs \in [Repos -> SUBSET Blobs]
  <2>1. ASSUME NEW r \in Repos PROVE UNION {BlobsOf[s] : s \in start.holds[r]} \subseteq Blobs
    <3>1. start.holds[r] \subseteq State
      BY <1>2
    <3> QED
      BY <3>1 DEF Blobs
  <2> QED
    BY <1>1, <2>1
<1>5. /\ tags \in [Repos -> Refs(Tag)] /\ tracking \in [Client -> Refs(Branch)]
      /\ shallow \in [Client -> SUBSET State]
  BY <1>1 DEF Unset, Refs
<1>6. JobsTyped
  BY DEF SyncInit, JobsTyped
<1> QED
  BY <1>3, <1>4, <1>5, <1>6 DEF SyncTyped, PeersTyped

LEMMA SyncTypedNext ==
    PeersAssumption /\ SyncAssumption /\ SyncTyped /\ [SyncNext]_syncVars => SyncTyped'
BY PeersTypedNext, JobsTypedNext DEF SyncTyped

\* In every history, with any number of clients, what the repositories keep and every
\* command in flight are of their types.
THEOREM SyncTypeCorrect == SyncSpec => []SyncTypeOK
<1>1. SyncTyped => SyncTypeOK
  BY DEF SyncTyped, PeersTyped, JobsTyped, SyncTypeOK
<1> QED
  BY <1>1, SyncTypedInit, SyncTypedNext, PeersAssumption, SyncAssumption, PTL DEF SyncSpec

-----------------------------------------------------------------------------
(* The blobs of a state arrive before its entry. *)

Fields == {"kind", "step", "held", "force", "depth", "left", "item", "queue", "seen",
           "list", "fetched", "boundary", "refs", "tagged"}

Fit(j) == DOMAIN j = Fields

\* Where the states of a job arrive.
Target(c, j) == IF j.kind = "push" THEN Server ELSE c

\* Between the blobs of a state and its entry the blobs are there, and over http no
\* ref is written by a request of its own.
Preceded(c, j) ==
    /\ j.step = "entry" => BlobsOf[Head(j.list)] \subseteq blobs[Target(c, j)]
    /\ j.step = "write" => "serve" \notin uses[Server]

\* A job that promises nothing of the stores.
Free(j) == Fit(j) /\ j.step \notin {"entry", "write"}

\* The inductive form of EntriesHaveBlobs.
Shapes ==
    /\ DOMAIN timeline = Repos /\ DOMAIN blobs = Repos
    /\ DOMAIN job = Client

BlobsFirst ==
    /\ Shapes
    /\ \A r \in Repos : \A s \in timeline[r] : BlobsOf[s] \subseteq blobs[r]
    /\ \A c \in Client : job[c] # NoJob => Fit(job[c]) /\ Preceded(c, job[c])

\* A step of a job that only moves on.
LEMMA JobMoves ==
    ASSUME BlobsFirst, NEW c \in Client, NEW j, Set(c, j), Free(j),
           UNCHANGED <<timeline, blobs, uses>>
    PROVE  BlobsFirst'
BY DEF BlobsFirst, Shapes, Set, Preceded, Target, Free

LEMMA JobEnds ==
    ASSUME BlobsFirst, NEW c \in Client, Finish(c), UNCHANGED <<timeline, blobs, uses>>
    PROVE  BlobsFirst'
BY DEF BlobsFirst, Shapes, Finish, Preceded, Target

LEMMA NewFits ==
    ASSUME NEW kind, NEW step
    PROVE  /\ Fit(NewJob(kind, step))
           /\ NewJob(kind, step).step = step /\ NewJob(kind, step).kind = kind
BY DEF Fit, NewJob, Fields

LEMMA WalkingFits ==
    ASSUME NEW j, Fit(j), NEW item
    PROVE  Fit(Walking(j, item)) /\ Walking(j, item).step = "walk"
BY DEF Fit, Walking, Fields

LEMMA AfterWalkFits ==
    ASSUME NEW j, Fit(j), j.step = "walk"
    PROVE  Free(AfterWalk(j))
BY DEF Fit, Free, AfterWalk, Fields

-----------------------------------------------------------------------------
(* push *)

LEMMA PushStartKeeps ==
    ASSUME BlobsFirst, NEW c \in Client, NEW b \in Branch, NEW force \in BOOLEAN,
           PushStart(c, b, force)
    PROVE  BlobsFirst'
<1> DEFINE item == [in |-> "heads", name |-> b, tip |-> heads[c][b]]
           walk == Walking(NewJob("push", "walk"), item)
           j    == [walk EXCEPT !.force = force, !.held = KeepsLock(c)]
<1>1. Fit(walk) /\ walk.step = "walk"
  BY NewFits, WalkingFits
<1>2. Free(j)
  <2> HIDE DEF walk
  <2> QED
    BY <1>1 DEF Free, Fit, Fields
<1>3. Set(c, j) /\ UNCHANGED <<timeline, blobs, uses>>
  BY DEF PushStart, peers
<1> HIDE DEF j
<1> QED
  BY <1>2, <1>3, JobMoves

LEMMA WalkKeeps ==
    ASSUME BlobsFirst, NEW c \in Client, Walk(c)
    PROVE  BlobsFirst'
<1> DEFINE s    == Head(job[c].queue)
           next == [job[c] EXCEPT !.queue = Tail(job[c].queue), !.seen = @ \cup {s}]
           more == [next EXCEPT !.queue = @ \o Without(ParentsOf[s], next.seen),
                                !.list = <<s>> \o @]
<1>1. Fit(job[c]) /\ job[c].step = "walk" /\ UNCHANGED <<timeline, blobs, uses>>
  BY DEF BlobsFirst, Walk, At, peers
<1>2. Fit(next) /\ next.step = "walk"
  BY <1>1 DEF Fit, Fields
<1>3. Fit(more) /\ more.step = "walk"
  <2> HIDE DEF next
  <2> QED
    BY <1>2 DEF Fit, Fields
<1>4. Set(c, AfterWalk(next)) \/ Set(c, AfterWalk(more))
  BY DEF Walk
<1> HIDE DEF next, more
<1> QED
  BY <1>1, <1>2, <1>3, <1>4, AfterWalkFits, JobMoves

LEMMA SendBlobsKeeps ==
    ASSUME PeersAssumption, BlobsFirst, NEW c \in Client, SendBlobs(c)
    PROVE  BlobsFirst'
<1> DEFINE j == [job[c] EXCEPT !.step = "entry"]
<1>1. Fit(job[c]) /\ job[c].kind = "push" /\ Server \in Repos
  BY DEF BlobsFirst, SendBlobs, At, Repos
<1>2. Fit(j) /\ j.step = "entry" /\ j.kind = "push" /\ j.list = job[c].list
  BY <1>1 DEF Fit, Fields
<1>3. /\ timeline' = timeline
      /\ blobs' = [blobs EXCEPT ![Server] = @ \cup BlobsOf[Head(job[c].list)]]
      /\ job' = [job EXCEPT ![c] = j] /\ uses' = uses
  BY DEF SendBlobs, PutBlobs, Set
<1>4. /\ \A r \in Repos : blobs[r] \subseteq blobs'[r]
      /\ BlobsOf[Head(j.list)] \subseteq blobs'[Server]
      /\ DOMAIN blobs' = Repos
  BY <1>1, <1>2, <1>3 DEF BlobsFirst, Shapes
<1> HIDE DEF j
<1>5. job'[c] = j /\ DOMAIN job' = Client /\ \A k \in Client \ {c} : job'[k] = job[k]
  BY <1>3 DEF BlobsFirst, Shapes
<1> QED
  BY <1>2, <1>3, <1>4, <1>5 DEF BlobsFirst, Shapes, Preceded, Target, Repos

\* The entry that a job has preceded with its blobs arrives.
LEMMA EntryKeeps ==
    ASSUME BlobsFirst, NEW c \in Client, NEW r \in Repos, NEW j,
           job[c] # NoJob, job[c].step = "entry", r = Target(c, job[c]),
           timeline' = [timeline EXCEPT ![r] = @ \cup {Head(job[c].list)}],
           blobs' = blobs, uses' = uses, Set(c, j), Free(j)
    PROVE  BlobsFirst'
<1>1. BlobsOf[Head(job[c].list)] \subseteq blobs[r]
  BY DEF BlobsFirst, Preceded
<1>2. \A q \in Repos : timeline'[q] = timeline[q] \cup IF q = r THEN {Head(job[c].list)} ELSE {}
  BY DEF BlobsFirst, Shapes
<1> QED
  BY <1>1, <1>2 DEF BlobsFirst, Shapes, Set, Free, Preceded, Target

LEMMA SendEntryKeeps ==
    ASSUME BlobsFirst, NEW c \in Client, SendEntry(c)
    PROVE  BlobsFirst'
<1> DEFINE j == [job[c] EXCEPT !.list = Tail(@),
                               !.step = IF Tail(job[c].list) = <<>> THEN "ref" ELSE "blobs"]
<1>1. /\ job[c] # NoJob /\ Fit(job[c])
      /\ job[c].kind = "push" /\ job[c].step = "entry" /\ Server \in Repos
  BY DEF BlobsFirst, SendEntry, At, Repos
<1>2. Free(j)
  BY <1>1 DEF Free, Fit, Fields
<1>3. /\ timeline' = [timeline EXCEPT ![Server] = @ \cup {Head(job[c].list)}]
      /\ blobs' = blobs /\ uses' = uses /\ Set(c, j)
  BY DEF SendEntry, PutTimeline
<1> HIDE DEF j
<1> QED
  BY <1>1, <1>2, <1>3, EntryKeeps DEF Target

LEMMA PushStepKeeps ==
    ASSUME PeersAssumption, BlobsFirst, NEW c \in Client, PushStep(c)
    PROVE  BlobsFirst'
<1>1. ASSUME NEW j \in {[job[c] EXCEPT !.step = "list"], [job[c] EXCEPT !.step = "tags"],
                        [job[c] EXCEPT !.left = Items("tags", tags[c]), !.step = "tags"]},
             job[c] # NoJob, Set(c, j), UNCHANGED <<timeline, blobs, uses>>
      PROVE  BlobsFirst'
  <2>1. Fit(job[c])
    BY <1>1 DEF BlobsFirst
  <2>2. Free(j)
    BY <2>1, <1>1 DEF Free, Fit, Fields
  <2> QED
    BY <1>1, <2>2, JobMoves
<1>2. CASE SetHead(c)
  <2>1. CASE "serve" \in uses[Server]
    BY <1>1, <1>2, <2>1 DEF SetHead, Pushing, At, SendHead, PutHead
  <2>2. CASE "serve" \notin uses[Server]
    <3> DEFINE j == [job[c] EXCEPT !.step = "write"]
    <3>1. Fit(job[c]) /\ Set(c, j) /\ UNCHANGED <<timeline, blobs, uses>>
      BY <1>2, <2>2 DEF BlobsFirst, SetHead, Pushing, At, peers
    <3>2. Fit(j) /\ j.step = "write"
      BY <3>1 DEF Fit, Fields
    <3> HIDE DEF j
    <3> QED
      BY <2>2, <3>1, <3>2 DEF BlobsFirst, Shapes, Set, Preceded
  <2> QED
    BY <2>1, <2>2
<1>3. CASE WriteChecked(c)
  BY <1>1, <1>3 DEF WriteChecked, At, SendHead, PutHead
<1>4. CASE ListTags(c)
  BY <1>1, <1>4 DEF ListTags, At, peers
<1>5. CASE SetTag(c)
  BY <1>1, <1>5 DEF SetTag, Pushing, At, PutTag
<1>6. CASE PushTag(c)
  <2>1. job[c] # NoJob /\ Fit(job[c]) /\ job[c].step = "tags" /\ UNCHANGED <<timeline, blobs, uses>>
    BY <1>6 DEF BlobsFirst, PushTag, At, peers
  <2>2. CASE Finish(c)
    BY <2>1, <2>2, JobEnds
  <2>3. ASSUME NEW item \in job[c].left,
               Set(c, IF tags[Server][item.name] = item.tip
                      THEN [job[c] EXCEPT !.left = @ \ {item}]
                      ELSE Walking([job[c] EXCEPT !.left = @ \ {item}], item))
        PROVE  BlobsFirst'
    <3> DEFINE next == [job[c] EXCEPT !.left = @ \ {item}]
    <3>1. Fit(next) /\ next.step = "tags"
      BY <2>1 DEF Fit, Fields
    <3>2. Set(c, next) \/ Set(c, Walking(next, item))
      BY <2>3
    <3> HIDE DEF next
    <3> QED
      BY <2>1, <3>1, <3>2, WalkingFits, JobMoves DEF Free
  <2> QED
    BY <1>6, <2>2, <2>3 DEF PushTag
<1> QED
  BY <1>2, <1>3, <1>4, <1>5, <1>6, WalkKeeps, SendBlobsKeeps, SendEntryKeeps DEF PushStep

-----------------------------------------------------------------------------
(* fetch and clone *)

LEMMA FetchStartKeeps ==
    ASSUME BlobsFirst, NEW c \in Client, NEW names, NEW depth, FetchStart(c, names, depth)
    PROVE  BlobsFirst'
<1> DEFINE new == NewJob("fetch", "pick")
           j   == [new EXCEPT
                     !.left = {i \in Items("heads", heads[Server]) : i.name \in names},
                     !.depth = depth]
<1>1. Fit(new) /\ new.step = "pick"
  BY NewFits
<1>2. Free(j)
  <2> HIDE DEF new
  <2> QED
    BY <1>1 DEF Free, Fit, Fields
<1>3. Set(c, j) /\ UNCHANGED <<timeline, blobs, uses>>
  BY DEF FetchStart, peers
<1> HIDE DEF j
<1> QED
  BY <1>2, <1>3, JobMoves

LEMMA CloneStartKeeps ==
    ASSUME PeersAssumption, BlobsFirst, NEW c \in Client, NEW b, NEW depth,
           CloneStart(c, b, depth)
    PROVE  BlobsFirst'
<1> DEFINE new == NewJob("clone", "pick")
           j   == [new EXCEPT
                     !.left = {i \in Items("heads", heads[Server]) : i.name = b},
                     !.refs = heads[Server], !.depth = depth]
<1>1. Fit(new) /\ new.step = "pick"
  BY NewFits
<1>2. Free(j)
  <2> HIDE DEF new
  <2> QED
    BY <1>1 DEF Free, Fit, Fields
<1>3. /\ timeline' = [timeline EXCEPT ![c] = {Root}] /\ blobs' = blobs
      /\ job' = [job EXCEPT ![c] = j] /\ uses' = uses
  BY DEF CloneStart, Set
<1>4. BlobsOf[Root] = {} /\ c \in Repos
  BY DEF PeersAssumption, Repos
<1> HIDE DEF j
<1> QED
  BY <1>2, <1>3, <1>4 DEF BlobsFirst, Shapes, Free, Preceded, Target

LEMMA PickKeeps ==
    ASSUME BlobsFirst, NEW c \in Client, Pick(c)
    PROVE  BlobsFirst'
<1> PICK item \in job[c].left :
        LET list == Missing(c, Ancestry(item.tip, job[c].depth))
        IN  Set(c, [job[c] EXCEPT
                !.item = item, !.left = @ \ {item}, !.list = list,
                !.fetched = {list[i] : i \in DOMAIN list},
                !.boundary = Boundary(Ancestry(item.tip, job[c].depth), job[c].depth),
                !.step = IF list = <<>> THEN "boundary" ELSE "blobs"])
  BY DEF Pick
<1> DEFINE list == Missing(c, Ancestry(item.tip, job[c].depth))
           limit == Boundary(Ancestry(item.tip, job[c].depth), job[c].depth)
           got == {list[i] : i \in DOMAIN list}
           j == [job[c] EXCEPT
                   !.item = item, !.left = @ \ {item}, !.list = list, !.fetched = got,
                   !.boundary = limit,
                   !.step = IF list = <<>> THEN "boundary" ELSE "blobs"]
<1>1. Fit(job[c]) /\ UNCHANGED <<timeline, blobs, uses>>
  BY DEF BlobsFirst, Pick, At, peers
<1>2. Set(c, j)
  OBVIOUS
<1> HIDE DEF list, limit, got
<1>3. Free(j)
  BY <1>1 DEF Free, Fit, Fields
<1> QED
  BY <1>1, <1>2, <1>3, JobMoves

LEMMA GetBlobsKeeps ==
    ASSUME PeersAssumption, BlobsFirst, NEW c \in Client, GetBlobs(c)
    PROVE  BlobsFirst'
<1> DEFINE j == [job[c] EXCEPT !.step = "entry"]
<1>1. Fit(job[c]) /\ job[c].kind # "push" /\ c \in Repos /\ c # Server
  BY DEF BlobsFirst, GetBlobs, At, Repos, PeersAssumption
<1>2. Fit(j) /\ j.step = "entry" /\ j.kind = job[c].kind /\ j.list = job[c].list
  BY <1>1 DEF Fit, Fields
<1>3. /\ timeline' = timeline
      /\ blobs' = [blobs EXCEPT ![c] = @ \cup BlobsOf[Head(job[c].list)]]
      /\ job' = [job EXCEPT ![c] = j] /\ uses' = uses
  BY DEF GetBlobs, Set
<1>4. /\ \A r \in Repos : blobs[r] \subseteq blobs'[r]
      /\ BlobsOf[Head(j.list)] \subseteq blobs'[c]
      /\ DOMAIN blobs' = Repos
  BY <1>1, <1>2, <1>3 DEF BlobsFirst, Shapes
<1> HIDE DEF j
<1>5. job'[c] = j /\ DOMAIN job' = Client /\ \A k \in Client \ {c} : job'[k] = job[k]
  BY <1>3 DEF BlobsFirst, Shapes
<1> QED
  BY <1>1, <1>2, <1>3, <1>4, <1>5 DEF BlobsFirst, Shapes, Preceded, Target, Repos

LEMMA GetEntryKeeps ==
    ASSUME BlobsFirst, NEW c \in Client, GetEntry(c)
    PROVE  BlobsFirst'
<1> DEFINE j == [job[c] EXCEPT !.list = Tail(@),
                               !.step = IF Tail(job[c].list) = <<>> THEN "boundary"
                                        ELSE "blobs"]
<1>1. /\ job[c] # NoJob /\ Fit(job[c])
      /\ job[c].kind # "push" /\ job[c].step = "entry" /\ c \in Repos
  BY DEF BlobsFirst, GetEntry, At, Repos
<1>2. Free(j)
  BY <1>1 DEF Free, Fit, Fields
<1>3. /\ timeline' = [timeline EXCEPT ![c] = @ \cup {Head(job[c].list)}]
      /\ blobs' = blobs /\ uses' = uses /\ Set(c, j)
  BY DEF GetEntry
<1> HIDE DEF j
<1> QED
  BY <1>1, <1>2, <1>3, EntryKeeps DEF Target

LEMMA FetchStepKeeps ==
    ASSUME PeersAssumption, BlobsFirst, NEW c \in Client, FetchStep(c)
    PROVE  BlobsFirst'
<1>1. ASSUME NEW step \in {"track", "pick", "checkout"}, job[c] # NoJob,
             Set(c, [job[c] EXCEPT !.step = step]), UNCHANGED <<timeline, blobs, uses>>
      PROVE  BlobsFirst'
  <2> DEFINE j == [job[c] EXCEPT !.step = step]
  <2>1. Fit(job[c])
    BY <1>1 DEF BlobsFirst
  <2>2. Free(j)
    BY <2>1 DEF Free, Fit, Fields
  <2> QED
    BY <1>1, <2>2, JobMoves
<1>2. CASE SaveBoundary(c)
  BY <1>1, <1>2 DEF SaveBoundary, At
<1>3. CASE Track(c)
  BY <1>1, <1>3 DEF Track, At
<1>4. CASE TrackAll(c)
  BY <1>1, <1>4 DEF TrackAll, At
<1>5. CASE CheckoutClone(c)
  BY <1>1, <1>5 DEF CheckoutClone, At
<1>6. CASE FetchTags(c)
  <2> DEFINE j == [job[c] EXCEPT !.left = Items("tags", tags[Server]), !.tagged = TRUE]
  <2>1. Fit(job[c]) /\ job[c].step = "pick" /\ UNCHANGED <<timeline, blobs, uses>>
    BY <1>6 DEF BlobsFirst, FetchTags, At, peers
  <2>2. Free(j)
    BY <2>1 DEF Free, Fit, Fields
  <2>3. Finish(c) \/ Set(c, j)
    BY <1>6 DEF FetchTags
  <2> HIDE DEF j
  <2> QED
    BY <2>1, <2>2, <2>3, JobMoves, JobEnds
<1> QED
  BY <1>2, <1>3, <1>4, <1>5, <1>6, PickKeeps, GetBlobsKeeps, GetEntryKeeps DEF FetchStep

-----------------------------------------------------------------------------
(* Commands that fail, and those of each repository by itself. *)

LEMMA CleanUpKeeps ==
    ASSUME PeersAssumption, BlobsFirst, NEW c \in Client, CleanUp(c)
    PROVE  BlobsFirst'
<1>1. c \in Repos /\ c # Server
  BY DEF PeersAssumption, Repos
<1>2. /\ timeline' = [timeline EXCEPT ![c] = {}] /\ blobs' = [blobs EXCEPT ![c] = {}]
      /\ job' = [job EXCEPT ![c] = NoJob] /\ uses' = uses
  BY DEF CleanUp, Finish
<1>3. /\ DOMAIN timeline' = Repos /\ DOMAIN blobs' = Repos /\ DOMAIN job' = Client
      /\ \A r \in Repos \ {c} : timeline'[r] = timeline[r] /\ blobs'[r] = blobs[r]
      /\ timeline'[c] = {} /\ job'[c] = NoJob /\ uses' = uses
      /\ \A k \in Client \ {c} : job'[k] = job[k]
  BY <1>1, <1>2 DEF BlobsFirst, Shapes
<1> QED
  BY <1>1, <1>3 DEF BlobsFirst, Shapes, Preceded, Target, Repos

LEMMA RecordKeeps ==
    ASSUME BlobsFirst, NEW r \in Repos, NEW b, NEW s, Record(r, b, s), job' = job
    PROVE  BlobsFirst'
<1>1. /\ timeline' = [timeline EXCEPT ![r] = @ \cup {s}]
      /\ blobs' = [blobs EXCEPT ![r] = @ \cup BlobsOf[s]] /\ uses' = uses
  BY DEF Record
<1>2. /\ DOMAIN timeline' = Repos /\ DOMAIN blobs' = Repos
      /\ \A q \in Repos : blobs[q] \subseteq blobs'[q]
      /\ \A q \in Repos \ {r} : timeline'[q] = timeline[q]
      /\ timeline'[r] = timeline[r] \cup {s} /\ BlobsOf[s] \subseteq blobs'[r]
  BY <1>1 DEF BlobsFirst, Shapes
<1>3. \A q \in Repos : \A t \in timeline'[q] : BlobsOf[t] \subseteq blobs'[q]
  BY <1>2 DEF BlobsFirst
<1>4. \A c \in Client : c \in Repos /\ Target(c, job[c]) \in Repos
  BY DEF Target, Repos
<1> QED
  BY <1>1, <1>2, <1>3, <1>4 DEF BlobsFirst, Shapes, Preceded, Target

\* What gc keeps it keeps with its blobs; no job may be between blobs and entry of the
\* repository that it runs in.
LEMMA GcKeeps ==
    ASSUME PeersAssumption, BlobsFirst, NEW r \in Repos, Quiet(r), Gc(r), job' = job
    PROVE  BlobsFirst'
<1> DEFINE kept == Reachable(Parents, Tips(r) \cup {Root})
<1>1. /\ kept \subseteq timeline[r]
      /\ timeline' = [timeline EXCEPT ![r] = kept]
      /\ blobs' = [blobs EXCEPT ![r] = @ \cap UNION {BlobsOf[s] : s \in kept}]
      /\ uses' = uses
  BY DEF Gc
<1> HIDE DEF kept
<1>2. /\ DOMAIN timeline' = Repos /\ DOMAIN blobs' = Repos
      /\ \A q \in Repos \ {r} : timeline'[q] = timeline[q] /\ blobs'[q] = blobs[q]
      /\ timeline'[r] = kept
      /\ blobs'[r] = blobs[r] \cap UNION {BlobsOf[s] : s \in kept}
  BY <1>1 DEF BlobsFirst, Shapes
<1>3. \A s \in kept : BlobsOf[s] \subseteq blobs'[r]
  BY <1>1, <1>2 DEF BlobsFirst
<1>4. \A c \in Client : job[c] # NoJob => Target(c, job[c]) \in Repos \ {r}
  BY DEF Quiet, Target, PeersAssumption, Repos
<1> QED
  BY <1>1, <1>2, <1>3, <1>4 DEF BlobsFirst, Shapes, Preceded, Target

LEMMA LocalKeeps ==
    ASSUME PeersAssumption, BlobsFirst, NEW r \in Repos, Local(r)
    PROVE  BlobsFirst'
<1>1. job' = job
  BY DEF Local
<1>2. ASSUME UNCHANGED <<timeline, blobs, uses>> PROVE BlobsFirst'
  BY <1>1, <1>2 DEF BlobsFirst, Shapes, Preceded, Target
<1>3. ASSUME NEW b \in Branch, Commit(r, b) PROVE BlobsFirst'
  BY <1>1, <1>3, RecordKeeps DEF Commit
<1>4. ASSUME NEW b \in Branch, PointBranch(r, b) PROVE BlobsFirst'
  BY <1>2, <1>4 DEF PointBranch
<1>5. ASSUME NEW b \in Branch, Merge(r, b) PROVE BlobsFirst'
  <2>1. \/ UNCHANGED <<timeline, blobs, uses>>
        \/ \E s \in State : Record(r, b, s)
    BY <1>5 DEF Merge
  <2> QED
    BY <1>1, <1>2, <2>1, RecordKeeps
<1>6. ASSUME NEW t \in Tag, CreateTag(r, t) PROVE BlobsFirst'
  BY <1>2, <1>6 DEF CreateTag
<1>7. ASSUME Quiet(r), Gc(r) PROVE BlobsFirst'
  BY <1>1, <1>7, GcKeeps
<1> QED
  BY <1>3, <1>4, <1>5, <1>6, <1>7 DEF Local, LocalCommand

-----------------------------------------------------------------------------
LEMMA BlobsFirstInit == SyncInit => BlobsFirst
<1> SUFFICES ASSUME SyncInit PROVE BlobsFirst
  OBVIOUS
<1>1. PICK start \in Starts :
        /\ timeline = [r \in Repos |-> start.holds[r]]
        /\ blobs = [r \in Repos |-> UNION {BlobsOf[s] : s \in start.holds[r]}]
  BY DEF SyncInit, PeersInit
<1>2. \A r \in Repos : \A s \in timeline[r] : BlobsOf[s] \subseteq blobs[r]
  BY <1>1
<1> QED
  BY <1>1, <1>2 DEF SyncInit, BlobsFirst, Shapes

LEMMA BlobsFirstNext == PeersAssumption /\ BlobsFirst /\ [SyncNext]_syncVars => BlobsFirst'
<1> SUFFICES ASSUME PeersAssumption, BlobsFirst, [SyncNext]_syncVars PROVE BlobsFirst'
  OBVIOUS
<1>1. ASSUME NEW c \in Client, SyncCommand(c) PROVE BlobsFirst'
  BY <1>1, PushStartKeeps, FetchStartKeeps, CloneStartKeeps DEF SyncCommand
<1>2. ASSUME NEW c \in Client, SyncStep(c) PROVE BlobsFirst'
  BY <1>2, PushStepKeeps, FetchStepKeeps DEF SyncStep
<1>3. ASSUME NEW c \in Client, Fail(c) PROVE BlobsFirst'
  BY <1>3, JobEnds DEF Fail, peers
<1>4. ASSUME NEW c \in Client, CleanUp(c) PROVE BlobsFirst'
  BY <1>4, CleanUpKeeps
<1>5. ASSUME NEW r \in Repos, Local(r) PROVE BlobsFirst'
  BY <1>5, LocalKeeps
<1>6. CASE UNCHANGED syncVars
  BY <1>6 DEF syncVars, peers, BlobsFirst, Shapes, Preceded, Target
<1> QED
  BY <1>1, <1>2, <1>3, <1>4, <1>5, <1>6 DEF SyncNext

\* In every history, with any number of clients, each repository can load every state
\* that it has an entry of: transfers that stop, run side by side or beside a gc never
\* leave an entry whose blobs are missing.
THEOREM EntriesHaveBlobsAlways == SyncSpec => []EntriesHaveBlobs
<1>1. BlobsFirst => EntriesHaveBlobs
  BY DEF BlobsFirst, EntriesHaveBlobs, Loadable
<1> QED
  BY <1>1, BlobsFirstInit, BlobsFirstNext, PeersAssumption, PTL DEF SyncSpec

-----------------------------------------------------------------------------
(* Branches of a server that is reached over http. *)

OverHttp ==
    \A start \in Starts : "serve" \in start.uses[Server] /\ "ssh" \notin start.uses[Server]

\* The branches of the server are there, however it is used.
HeadsThere == DOMAIN heads = Repos /\ DOMAIN heads[Server] = Branch

ServerHeads == HeadsThere /\ "serve" \in uses[Server] /\ "ssh" \notin uses[Server]

LEMMA ServerHeadsInit == PeersAssumption /\ OverHttp /\ SyncInit => ServerHeads
<1> SUFFICES ASSUME PeersAssumption, OverHttp, SyncInit PROVE ServerHeads
  OBVIOUS
<1>1. PICK start \in Starts : heads = [r \in Repos |-> start.heads[r]] /\ uses = start.uses
  BY DEF SyncInit, PeersInit
<1>2. start.heads \in [Repos -> [Branch -> State \cup {NoState}]] /\ Server \in Repos
  BY DEF PeersAssumption, Repos
<1> QED
  BY <1>1, <1>2 DEF OverHttp, ServerHeads, HeadsThere

\* A step either leaves the server's branches, or is a command of the server's own, or
\* writes the ref of a push.
HeadsStay == DOMAIN heads' = Repos /\ heads'[Server] = heads[Server]

OwnCommand ==
    /\ job' = job /\ uses[Server] \cap {"commit", "branch"} # {}
    /\ \E b \in Branch : \E s : heads' = [heads EXCEPT ![Server][b] = s]

LEMMA HeadsChange ==
    ASSUME PeersAssumption, HeadsThere, [SyncNext]_syncVars
    PROVE  /\ uses' = uses
           /\ \/ HeadsStay
              \/ OwnCommand
              \/ \E c \in Client : (SetHead(c) \/ WriteChecked(c)) /\ SendHead(job[c])
<1> DEFINE Goal == /\ uses' = uses
                   /\ \/ HeadsStay
                      \/ OwnCommand
                      \/ \E c \in Client : (SetHead(c) \/ WriteChecked(c)) /\ SendHead(job[c])
<1>0. Server \in Repos /\ \A c \in Client : c \in Repos /\ c # Server
  BY DEF PeersAssumption, Repos
<1>1. ASSUME UNCHANGED <<heads, uses>> PROVE Goal
  BY <1>1 DEF HeadsStay, HeadsThere
<1>2. ASSUME NEW c \in Client, NEW new, heads' = [heads EXCEPT ![c] = new], uses' = uses
      PROVE  Goal
  BY <1>0, <1>2 DEF HeadsStay, HeadsThere
<1>3. ASSUME NEW c \in Client, SyncCommand(c) PROVE Goal
  <2>1. ASSUME NEW b, NEW force, PushStart(c, b, force) PROVE Goal
    BY <1>1, <2>1 DEF PushStart, peers
  <2>2. ASSUME NEW names, NEW d, FetchStart(c, names, d) PROVE Goal
    BY <1>1, <2>2 DEF FetchStart, peers
  <2>3. ASSUME NEW b, NEW d, CloneStart(c, b, d) PROVE Goal
    BY <1>2, <2>3 DEF CloneStart
  <2> QED
    BY <1>3, <2>1, <2>2, <2>3 DEF SyncCommand
<1>4. ASSUME NEW c \in Client, PushStep(c) PROVE Goal
  <2>1. CASE Walk(c)
    BY <1>1, <2>1 DEF Walk, peers
  <2>2. CASE SendBlobs(c)
    BY <1>1, <2>2 DEF SendBlobs, PutBlobs
  <2>3. CASE SendEntry(c)
    BY <1>1, <2>3 DEF SendEntry, PutTimeline
  <2>4. CASE SetHead(c)
    <3>1. SendHead(job[c]) \/ UNCHANGED <<heads, uses>>
      BY <2>4 DEF SetHead, peers
    <3> QED
      BY <1>1, <2>4, <3>1 DEF SendHead, PutHead
  <2>5. CASE WriteChecked(c)
    BY <2>5 DEF WriteChecked, SendHead, PutHead
  <2>6. CASE ListTags(c)
    BY <1>1, <2>6 DEF ListTags, peers
  <2>7. CASE PushTag(c)
    BY <1>1, <2>7 DEF PushTag, peers
  <2>8. CASE SetTag(c)
    BY <1>1, <2>8 DEF SetTag, PutTag
  <2> QED
    BY <1>4, <2>1, <2>2, <2>3, <2>4, <2>5, <2>6, <2>7, <2>8 DEF PushStep
<1>5. ASSUME NEW c \in Client, FetchStep(c) PROVE Goal
  <2>1. CASE CheckoutClone(c)
    <3>1. /\ heads' = [heads EXCEPT ![c][job[c].item.name] = job[c].item.tip]
          /\ uses' = uses
      BY <2>1 DEF CheckoutClone
    <3> QED
      BY <1>0, <3>1 DEF HeadsStay, HeadsThere
  <2>2. CASE Pick(c)
    BY <1>1, <2>2 DEF Pick, peers
  <2>3. CASE GetBlobs(c)
    BY <1>1, <2>3 DEF GetBlobs
  <2>4. CASE GetEntry(c)
    BY <1>1, <2>4 DEF GetEntry
  <2>5. CASE SaveBoundary(c)
    BY <1>1, <2>5 DEF SaveBoundary
  <2>6. CASE Track(c)
    BY <1>1, <2>6 DEF Track
  <2>7. CASE TrackAll(c)
    BY <1>1, <2>7 DEF TrackAll
  <2>8. CASE FetchTags(c)
    BY <1>1, <2>8 DEF FetchTags, peers
  <2> QED
    BY <1>5, <2>1, <2>2, <2>3, <2>4, <2>5, <2>6, <2>7, <2>8 DEF FetchStep
<1>6. ASSUME NEW c \in Client, Fail(c) PROVE Goal
  BY <1>1, <1>6 DEF Fail, peers
<1>7. ASSUME NEW c \in Client, CleanUp(c) PROVE Goal
  BY <1>2, <1>7 DEF CleanUp
<1>8. ASSUME NEW r \in Repos, Local(r) PROVE Goal
  <2>1. job' = job
    BY <1>8 DEF Local
  <2>2. ASSUME NEW b \in Branch, NEW s, heads' = [heads EXCEPT ![r][b] = s], uses' = uses,
               r = Server => uses[r] \cap {"commit", "branch"} # {}
        PROVE  Goal
    <3>1. CASE r = Server
      BY <2>1, <2>2, <3>1 DEF OwnCommand
    <3>2. CASE r # Server
      BY <1>0, <2>2, <3>2 DEF HeadsStay, HeadsThere
    <3> QED
      BY <3>1, <3>2
  <2>3. ASSUME NEW b \in Branch, NEW s, Record(r, b, s),
               r = Server => uses[r] \cap {"commit", "branch"} # {}
        PROVE  Goal
    BY <2>2, <2>3 DEF Record
  <2>4. ASSUME NEW b \in Branch, Commit(r, b) PROVE Goal
    BY <2>3, <2>4 DEF Commit
  <2>5. ASSUME NEW b \in Branch, PointBranch(r, b) PROVE Goal
    BY <2>2, <2>5 DEF PointBranch
  <2>6. ASSUME NEW b \in Branch, r \in Client, Merge(r, b) PROVE Goal
    <3>1. \/ \E s \in State : Record(r, b, s)
          \/ heads' = [heads EXCEPT ![r][b] = tracking[r][b]] /\ uses' = uses
      BY <2>6 DEF Merge
    <3> QED
      BY <1>0, <2>2, <2>3, <2>6, <3>1
  <2>7. ASSUME NEW t \in Tag, CreateTag(r, t) PROVE Goal
    BY <1>1, <2>7 DEF CreateTag
  <2>8. ASSUME Gc(r) PROVE Goal
    BY <1>1, <2>8 DEF Gc
  <2> QED
    BY <1>8, <2>4, <2>5, <2>6, <2>7, <2>8 DEF Local, LocalCommand
<1>9. CASE UNCHANGED syncVars
  BY <1>1, <1>9 DEF syncVars, peers
<1> QED
  BY <1>3, <1>4, <1>5, <1>6, <1>7, <1>8, <1>9 DEF SyncNext, SyncStep

LEMMA ServerHeadsNext ==
    PeersAssumption /\ ServerHeads /\ [SyncNext]_syncVars => ServerHeads'
<1> SUFFICES ASSUME PeersAssumption, ServerHeads, [SyncNext]_syncVars PROVE ServerHeads'
  OBVIOUS
<1>1. uses' = uses
  BY HeadsChange DEF ServerHeads
<1>2. ASSUME NEW b, NEW s, heads' = [heads EXCEPT ![Server][b] = s] PROVE ServerHeads'
  BY <1>1, <1>2 DEF ServerHeads, HeadsThere
<1>3. HeadsStay => ServerHeads'
  BY <1>1 DEF HeadsStay, ServerHeads, HeadsThere
<1> QED
  BY <1>2, <1>3, HeadsChange DEF OwnCommand, SendHead, PutHead, ServerHeads

\* A push that the server has taken leaves nothing of the branch behind, or is forced.
LEMMA AcceptedForward ==
    ASSUME PeersAssumption, ServerHeads, BlobsFirst, NEW c \in Client,
           SetHead(c), SendHead(job[c]), NEW b \in Branch,
           heads[Server][b] \notin {NoState, heads'[Server][b]}
    PROVE  \/ heads[Server][b] \in Past(heads'[Server][b])
           \/ job[c] # NoJob /\ job[c].force /\ job'[c] # job[c]
<1> DEFINE j == [job[c] EXCEPT !.step = "list"]
<1>1. job[c] # NoJob /\ job[c].step = "ref" /\ Fit(job[c]) /\ DOMAIN job = Client
  BY DEF SetHead, Pushing, At, BlobsFirst, Shapes
<1>2. job' = [job EXCEPT ![c] = j]
  BY DEF SetHead, ServerHeads, Set
<1>3. j.step = "list"
  BY <1>1 DEF Fit, Fields
<1>4. job'[c] # job[c]
  BY <1>1, <1>2, <1>3
<1>5. heads' = [heads EXCEPT ![Server][job[c].item.name] = job[c].item.tip]
  BY DEF SendHead, PutHead
<1>6. b = job[c].item.name /\ heads'[Server][b] = job[c].item.tip
  BY <1>5 DEF ServerHeads, HeadsThere, Repos
<1> QED
  BY <1>1, <1>4, <1>6 DEF SetHead, Accepted, Accepts, IsForward, Unreadable, ServerHeads

LEMMA ForwardStep ==
    ASSUME PeersAssumption, ServerHeads, BlobsFirst, [SyncNext]_syncVars, NEW b \in Branch,
           heads[Server][b] \notin {NoState, heads'[Server][b]}
    PROVE  \/ heads[Server][b] \in Past(heads'[Server][b])
           \/ \E c \in Client : job[c] # NoJob /\ job[c].force /\ job'[c] # job[c]
           \/ job' = job
<1>1. ASSUME NEW c \in Client PROVE ~WriteChecked(c)
  BY DEF WriteChecked, At, BlobsFirst, Preceded, ServerHeads
<1>2. CASE HeadsStay
  BY <1>2 DEF HeadsStay
<1>3. CASE OwnCommand
  BY <1>3 DEF OwnCommand
<1>4. ASSUME NEW c \in Client, SetHead(c), SendHead(job[c])
      PROVE  \/ heads[Server][b] \in Past(heads'[Server][b])
             \/ job[c] # NoJob /\ job[c].force /\ job'[c] # job[c]
  BY <1>4, AcceptedForward
<1> QED
  BY <1>1, <1>2, <1>3, <1>4, HeadsChange DEF ServerHeads

\* Over http no push loses what another client has pushed, unless it is forced: with any
\* number of clients, in every history, whatever commands run beside it and wherever they
\* stop, a branch of the server is only moved forward by the pushes that are not.
THEOREM PushesMoveForward ==
    ASSUME OverHttp
    PROVE  SyncSpec => RemoteForward
<1>1. SyncInit => ServerHeads
  BY OverHttp, ServerHeadsInit, PeersAssumption
<1>2. ServerHeads /\ [SyncNext]_syncVars => ServerHeads'
  BY ServerHeadsNext, PeersAssumption
<1>3. ServerHeads /\ BlobsFirst /\ [SyncNext]_syncVars =>
          [\A b \in Branch :
              LET old == heads[Server][b]
              IN  old \notin {NoState, heads'[Server][b]} =>
                     \/ old \in Past(heads'[Server][b])
                     \/ \E c \in Client : job[c] # NoJob /\ job[c].force /\ job'[c] # job[c]
                     \/ job' = job]_syncVars
  BY ForwardStep, PeersAssumption
<1> QED
  BY <1>1, <1>2, <1>3, BlobsFirstInit, BlobsFirstNext, PeersAssumption, PTL
     DEF SyncSpec, RemoteForward

-----------------------------------------------------------------------------
(* A fetch without a limit. *)

LEMMA SetOfTail ==
    ASSUME NEW S, NEW seq \in Seq(S), seq # <<>>
    PROVE  ToSet(seq) = {Head(seq)} \cup ToSet(Tail(seq)) /\ Head(seq) \in ToSet(seq)
<1>1. /\ Len(seq) \in Nat \ {0} /\ DOMAIN seq = 1 .. Len(seq) /\ Head(seq) = seq[1]
      /\ DOMAIN Tail(seq) = 1 .. Len(seq) - 1
      /\ \A i \in 1 .. Len(seq) - 1 : Tail(seq)[i] = seq[i + 1]
  BY HeadTailProperties, EmptySeq
<1>2. \A i \in 1 .. Len(seq) : i = 1 \/ i - 1 \in 1 .. Len(seq) - 1
  BY <1>1
<1>3. \A i \in 1 .. Len(seq) - 1 : i + 1 \in 1 .. Len(seq)
  BY <1>1
<1>4. ASSUME NEW i \in 1 .. Len(seq) PROVE seq[i] \in {Head(seq)} \cup ToSet(Tail(seq))
  <2>1. CASE i = 1
    BY <1>1, <2>1
  <2>2. CASE i - 1 \in 1 .. Len(seq) - 1
    <3>1. Tail(seq)[i - 1] = seq[i]
      BY <1>1, <2>2
    <3> QED
      BY <1>1, <2>2, <3>1 DEF ToSet
  <2> QED
    BY <1>2, <2>1, <2>2
<1>5. ToSet(Tail(seq)) \subseteq ToSet(seq)
  BY <1>1, <1>3 DEF ToSet
<1>6. Head(seq) \in ToSet(seq)
  BY <1>1 DEF ToSet
<1> QED
  BY <1>1, <1>4, <1>5, <1>6 DEF ToSet

LEMMA SetOfNone == ToSet(<<>>) = {}
<1>1. DOMAIN <<>> = {}
  OBVIOUS
<1> QED
  BY <1>1 DEF ToSet

\* No command of its own takes entries away from a repository while a job brings some
\* to it, nor does any other job.
LEMMA EntriesStay ==
    ASSUME PeersAssumption, PeersTyped, [SyncNext]_syncVars, NEW r \in Repos
    PROVE  \/ timeline[r] \subseteq timeline'[r]
           \/ Quiet(r) /\ Gc(r) /\ job' = job
           \/ r \in Client /\ CleanUp(r)
           \/ r \in Client /\ \E b \in Branch, d \in Limits(r) : CloneStart(r, b, d)
<1> DEFINE Goal == \/ timeline[r] \subseteq timeline'[r]
                   \/ Quiet(r) /\ Gc(r) /\ job' = job
                   \/ r \in Client /\ CleanUp(r)
                   \/ r \in Client /\ \E b \in Branch, d \in Limits(r) : CloneStart(r, b, d)
<1>1. ASSUME UNCHANGED timeline PROVE Goal
  BY <1>1
<1>2. ASSUME NEW q, NEW new, timeline' = [timeline EXCEPT ![q] = new],
             q # r \/ timeline[r] \subseteq new
      PROVE  Goal
  BY <1>2 DEF PeersTyped
<1>3. ASSUME NEW c \in Client, SyncCommand(c) PROVE Goal
  <2>1. ASSUME NEW b \in Branch, NEW d \in Limits(c), CloneStart(c, b, d) PROVE Goal
    <3>1. timeline' = [timeline EXCEPT ![c] = {Root}]
      BY <2>1 DEF CloneStart
    <3> QED
      BY <1>2, <2>1, <3>1
  <2> QED
    BY <1>1, <1>3, <2>1 DEF SyncCommand, PushStart, FetchStart, peers
<1>4. ASSUME NEW c \in Client, PushStep(c) PROVE Goal
  <2>1. CASE SendEntry(c)
    <3>1. timeline' = [timeline EXCEPT ![Server] = timeline[Server] \cup {Head(job[c].list)}]
      BY <2>1 DEF SendEntry, PutTimeline
    <3> QED
      BY <1>2, <3>1
  <2> QED
    BY <1>1, <1>4, <2>1 DEF PushStep, Walk, SendBlobs, PutBlobs, SetHead, WriteChecked,
        SendHead, PutHead, ListTags, PushTag, SetTag, PutTag, peers
<1>5. ASSUME NEW c \in Client, FetchStep(c) PROVE Goal
  <2>1. CASE GetEntry(c)
    <3>1. timeline' = [timeline EXCEPT ![c] = timeline[c] \cup {Head(job[c].list)}]
      BY <2>1 DEF GetEntry
    <3> QED
      BY <1>2, <3>1
  <2> QED
    BY <1>1, <1>5, <2>1 DEF FetchStep, Pick, GetBlobs, SaveBoundary, Track, TrackAll,
        CheckoutClone, FetchTags, peers
<1>6. ASSUME NEW c \in Client, Fail(c) PROVE Goal
  BY <1>1, <1>6 DEF Fail, peers
<1>7. ASSUME NEW c \in Client, CleanUp(c) PROVE Goal
  <2>1. timeline' = [timeline EXCEPT ![c] = {}]
    BY <1>7 DEF CleanUp
  <2> QED
    BY <1>2, <1>7, <2>1
<1>8. ASSUME NEW q \in Repos, Local(q) PROVE Goal
  <2>1. ASSUME NEW b \in Branch, NEW s, Record(q, b, s) PROVE Goal
    <3>1. timeline' = [timeline EXCEPT ![q] = timeline[q] \cup {s}]
      BY <2>1 DEF Record
    <3> QED
      BY <1>2, <3>1
  <2>2. ASSUME NEW b \in Branch, Commit(q, b) PROVE Goal
    BY <2>1, <2>2 DEF Commit
  <2>3. ASSUME NEW b \in Branch, PointBranch(q, b) PROVE Goal
    BY <1>1, <2>3 DEF PointBranch
  <2>4. ASSUME NEW b \in Branch, Merge(q, b) PROVE Goal
    <3>1. UNCHANGED timeline \/ \E s \in State : Record(q, b, s)
      BY <2>4 DEF Merge
    <3> QED
      BY <1>1, <2>1, <3>1
  <2>5. ASSUME NEW t \in Tag, CreateTag(q, t) PROVE Goal
    BY <1>1, <2>5 DEF CreateTag
  <2>6. ASSUME Quiet(q), Gc(q), job' = job PROVE Goal
    <3>1. PICK new : timeline' = [timeline EXCEPT ![q] = new]
      BY <2>6 DEF Gc
    <3> QED
      BY <1>2, <2>6, <3>1
  <2> QED
    BY <1>8, <2>2, <2>3, <2>4, <2>5, <2>6 DEF Local, LocalCommand
<1>9. CASE UNCHANGED syncVars
  BY <1>1, <1>9 DEF syncVars, peers
<1> QED
  BY <1>3, <1>4, <1>5, <1>6, <1>7, <1>8, <1>9 DEF SyncNext, SyncStep

\* A job whose client has the entries t: what it has still to fetch makes them whole.
Heals(t, j) ==
    j.kind # "push" /\ j.depth = NoDepth
        /\ j.step \in {"blobs", "entry", "boundary", "track", "checkout"}
    => /\ Past(j.item.tip) \subseteq t \cup ToSet(j.list)
       /\ j.step \in {"boundary", "track", "checkout"} => j.list = <<>>

\* The inductive form of FullFetchHeals.
Healing == \A c \in Client : job[c] # NoJob => Heals(timeline[c], job[c])

\* A push is a push to its end.
PushGoesOn(c) ==
    /\ \A k \in Client \ {c} : job'[k] = job[k]
    /\ job'[c] # NoJob => job'[c].kind = "push"

LEMMA PushSet ==
    ASSUME JobsTyped, NEW c \in Client, NEW j, Set(c, j), j.kind = "push"
    PROVE  PushGoesOn(c)
BY DEF JobsTyped, Set, PushGoesOn

LEMMA PushKind ==
    ASSUME JobsTyped, NEW c \in Client, PushStep(c)
    PROVE  PushGoesOn(c) /\ job[c] # NoJob /\ job[c].kind = "push"
<1>1. job[c] # NoJob /\ job[c].kind = "push"
  BY DEF PushStep, Walk, SendBlobs, SendEntry, SetHead, WriteChecked, ListTags, PushTag,
         SetTag, Pushing, At
<1>3. SUFFICES PushGoesOn(c)
  BY <1>1
<1> DEFINE j == job[c]
<1>2. j \in Job
  BY <1>1 DEF JobsTyped
<1>4. ASSUME Finish(c) PROVE PushGoesOn(c)
  BY <1>4 DEF Finish, JobsTyped, PushGoesOn
<1>5. \A step : [j EXCEPT !.step = step].kind = "push"
  BY <1>1, <1>2 DEF Job
<1>6. CASE Walk(c)
  <2> DEFINE s    == Head(j.queue)
             next == [j EXCEPT !.queue = Tail(j.queue), !.seen = @ \cup {s}]
             q    == next.queue \o Without(ParentsOf[s], next.seen)
             l    == <<s>> \o next.list
             more == [next EXCEPT !.queue = q, !.list = l]
  <2>1. DOMAIN next = DOMAIN j /\ next.kind = "push"
    BY <1>1, <1>2 DEF Job
  <2>2. DOMAIN j = Fields
    BY <1>2 DEF Job, Fields
  <2>4. Set(c, AfterWalk(next)) \/ Set(c, AfterWalk(more))
    <3>1. \/ Set(c, AfterWalk(next))
          \/ Set(c, AfterWalk([next EXCEPT !.queue = @ \o Without(ParentsOf[s], next.seen),
                                           !.list = <<s>> \o @]))
      BY <1>6 DEF Walk
    <3> HIDE DEF next
    <3>2. [next EXCEPT !.queue = @ \o Without(ParentsOf[s], next.seen), !.list = <<s>> \o @]
          = more
      BY <2>1, <2>2 DEF Fields
    <3> QED
      BY <3>1, <3>2
  <2> HIDE DEF next, q, l
  <2>3. DOMAIN more = Fields /\ more.kind = "push" /\ DOMAIN next = Fields
    BY <2>1, <2>2 DEF Fields
  <2> HIDE DEF more
  <2>5. ASSUME NEW n, DOMAIN n = Fields, n.kind = "push" PROVE AfterWalk(n).kind = "push"
    BY <2>5 DEF AfterWalk, Fields
  <2> QED
    BY PushSet, <2>1, <2>3, <2>4, <2>5
<1>7. CASE SendEntry(c)
  <2> DEFINE step == IF Tail(j.list) = <<>> THEN "ref" ELSE "blobs"
             new  == [j EXCEPT !.list = Tail(j.list), !.step = step]
  <2>1. Set(c, new)
    BY <1>2, <1>7 DEF SendEntry, Job
  <2>2. new.kind = "push"
    BY <1>1, <1>2 DEF Job
  <2> HIDE DEF new
  <2> QED
    BY PushSet, <2>1, <2>2
<1>8. CASE ListTags(c)
  <2> DEFINE new == [j EXCEPT !.left = Items("tags", tags[c]), !.step = "tags"]
  <2>1. Set(c, new)
    BY <1>8 DEF ListTags
  <2>2. new.kind = "push"
    BY <1>1, <1>2 DEF Job
  <2> HIDE DEF new
  <2> QED
    BY PushSet, <2>1, <2>2
<1>9. CASE PushTag(c)
  <2>1. Finish(c) \/ \E item \in j.left : \/ Set(c, [j EXCEPT !.left = @ \ {item}])
                                          \/ Set(c, Walking([j EXCEPT !.left = @ \ {item}], item))
    BY <1>9 DEF PushTag
  <2>2. ASSUME NEW item \in j.left
        PROVE  /\ [j EXCEPT !.left = @ \ {item}].kind = "push"
               /\ Walking([j EXCEPT !.left = @ \ {item}], item).kind = "push"
    <3> DEFINE next == [j EXCEPT !.left = @ \ {item}]
    <3>1. next.kind = "push" /\ DOMAIN next = Fields
      BY <1>1, <1>2 DEF Job, Fields
    <3> HIDE DEF next
    <3>2. Walking(next, item).kind = "push"
      BY <3>1 DEF Walking, Fields
    <3> QED
      BY <3>1, <3>2 DEF next
  <2> QED
    BY PushSet, <1>4, <2>1, <2>2
<1>10. CASE SendBlobs(c) \/ SetHead(c) \/ WriteChecked(c) \/ SetTag(c)
  BY PushSet, <1>5, <1>10 DEF SendBlobs, SetHead, WriteChecked, SetTag
<1> QED
  BY <1>6, <1>7, <1>8, <1>9, <1>10 DEF PushStep

\* The job of a client that goes on has been set by a step of its own.
LEMMA JobSteps ==
    ASSUME JobsTyped, [SyncNext]_syncVars, NEW k \in Client,
           job'[k] # job[k], job'[k] # NoJob
    PROVE  SyncCommand(k) \/ PushStep(k) \/ FetchStep(k)
<1>1. ASSUME NEW c \in Client, NEW j, Set(c, j), c # k PROVE FALSE
  BY <1>1 DEF Set, JobsTyped
<1>2. ASSUME NEW c \in Client, Finish(c) PROVE FALSE
  BY <1>2 DEF Finish, JobsTyped
<1>3. ASSUME NEW c \in Client, SyncCommand(c), c # k PROVE FALSE
  BY <1>1, <1>3 DEF SyncCommand, PushStart, FetchStart, CloneStart
<1>4. ASSUME NEW c \in Client, PushStep(c), c # k PROVE FALSE
  <2>1. job'[k] = job[k]
    BY <1>4, PushKind DEF PushGoesOn
  <2> QED
    BY <2>1
<1>5. ASSUME NEW c \in Client, FetchStep(c), c # k PROVE FALSE
  <2>1. Finish(c) \/ \E j : Set(c, j)
    <3>1. CASE Pick(c)
      BY <3>1 DEF Pick
    <3>2. CASE GetBlobs(c)
      BY <3>2 DEF GetBlobs
    <3>3. CASE GetEntry(c)
      BY <3>3 DEF GetEntry
    <3>4. CASE SaveBoundary(c)
      BY <3>4 DEF SaveBoundary
    <3>5. CASE Track(c)
      BY <3>5 DEF Track
    <3>6. CASE TrackAll(c)
      BY <3>6 DEF TrackAll
    <3>7. CASE CheckoutClone(c)
      BY <3>7 DEF CheckoutClone
    <3>8. CASE FetchTags(c)
      BY <3>8 DEF FetchTags
    <3> QED
      BY <1>5, <3>1, <3>2, <3>3, <3>4, <3>5, <3>6, <3>7, <3>8 DEF FetchStep
  <2> QED
    BY <1>1, <1>2, <1>5, <2>1
<1>6. ASSUME NEW c \in Client, Fail(c) \/ CleanUp(c) PROVE FALSE
  BY <1>2, <1>6 DEF Fail, CleanUp
<1> QED
  BY <1>3, <1>4, <1>5, <1>6 DEF SyncNext, SyncStep, Local, syncVars

\* A fetch or a clone keeps its kind and its limit to its end.
LEMMA FetchKind ==
    ASSUME JobsTyped, NEW c \in Client, FetchStep(c), job[c] # NoJob, job'[c] # NoJob
    PROVE  job'[c].kind = job[c].kind /\ job'[c].depth = job[c].depth
<1> DEFINE j == job[c]
           n == job'[c]
           Goal == n.kind = j.kind /\ n.depth = j.depth
<1>1. j \in Job /\ c \in DOMAIN job
  BY DEF JobsTyped
<1>2. ASSUME NEW new, Set(c, new), new.kind = j.kind, new.depth = j.depth PROVE Goal
  BY <1>1, <1>2 DEF Set
<1>3. ASSUME NEW step, Set(c, [j EXCEPT !.step = step]) PROVE Goal
  <2> DEFINE new == [j EXCEPT !.step = step]
  <2>1. new.kind = j.kind /\ new.depth = j.depth
    BY <1>1 DEF Job
  <2> HIDE DEF new
  <2> QED
    BY <1>2, <1>3, <2>1 DEF new
<1> SUFFICES Goal
  OBVIOUS
<1> HIDE DEF Goal
<1>4. CASE Pick(c)
  <2>1. PICK item \in j.left :
            LET walk == Ancestry(item.tip, j.depth)
                list == Missing(c, walk)
            IN  Set(c, [j EXCEPT
                    !.item = item, !.left = @ \ {item}, !.list = list,
                    !.fetched = {list[i] : i \in DOMAIN list},
                    !.boundary = Boundary(walk, j.depth),
                    !.step = IF list = <<>> THEN "boundary" ELSE "blobs"])
    BY <1>4 DEF Pick
  <2> DEFINE walk  == Ancestry(item.tip, j.depth)
             list  == Missing(c, walk)
             got   == {list[i] : i \in DOMAIN list}
             limit == Boundary(walk, j.depth)
             left  == j.left \ {item}
             step  == IF list = <<>> THEN "boundary" ELSE "blobs"
             new   == [j EXCEPT !.item = item, !.left = left, !.list = list, !.fetched = got,
                                !.boundary = limit, !.step = step]
  <2>2. Set(c, new)
    BY <1>1, <2>1 DEF Job
  <2> HIDE DEF walk, list, got, limit, left, step
  <2>3. new.kind = j.kind /\ new.depth = j.depth
    BY <1>1 DEF Job
  <2> HIDE DEF new
  <2> QED
    BY <1>2, <2>2, <2>3
<1>5. CASE GetEntry(c)
  <2> DEFINE rest == Tail(j.list)
             step == IF rest = <<>> THEN "boundary" ELSE "blobs"
             new  == [j EXCEPT !.list = rest, !.step = step]
  <2>1. Set(c, new)
    BY <1>1, <1>5 DEF GetEntry, Job
  <2> HIDE DEF rest, step
  <2>2. new.kind = j.kind /\ new.depth = j.depth
    BY <1>1 DEF Job
  <2> HIDE DEF new
  <2> QED
    BY <1>2, <2>1, <2>2
<1>6. CASE FetchTags(c)
  <2> DEFINE left == Items("tags", tags[Server])
             new  == [j EXCEPT !.left = left, !.tagged = TRUE]
  <2>1. ~Finish(c)
    BY <1>1 DEF Finish
  <2>2. Set(c, new)
    BY <1>6, <2>1 DEF FetchTags
  <2> HIDE DEF left
  <2>3. new.kind = j.kind /\ new.depth = j.depth
    BY <1>1 DEF Job
  <2> HIDE DEF new
  <2> QED
    BY <1>2, <2>2, <2>3
<1>7. CASE GetBlobs(c) \/ SaveBoundary(c) \/ Track(c) \/ TrackAll(c) \/ CheckoutClone(c)
  <2>1. \E step : Set(c, [j EXCEPT !.step = step])
    BY <1>7 DEF GetBlobs, SaveBoundary, Track, TrackAll, CheckoutClone
  <2> QED
    BY <1>3, <2>1
<1> QED
  BY <1>4, <1>5, <1>6, <1>7 DEF FetchStep

\* The entries of a client with a job stay.
LEMMA BusyStay ==
    ASSUME PeersAssumption, PeersTyped, JobsTyped, [SyncNext]_syncVars, NEW k \in Client,
           job[k] # NoJob, job'[k] # NoJob
    PROVE  timeline[k] \subseteq timeline'[k]
<1>1. k \in Repos /\ k # Server
  BY DEF PeersAssumption, Repos
<1>2. ~Quiet(k)
  BY <1>1 DEF Quiet
<1>3. ~CleanUp(k)
  BY DEF CleanUp, Finish, JobsTyped
<1>4. ASSUME NEW b, NEW d PROVE ~CloneStart(k, b, d)
  BY DEF CloneStart
<1> QED
  BY <1>1, <1>2, <1>3, <1>4, EntriesStay

LEMMA HealsFetch ==
    ASSUME PeersAssumption, SyncAssumption, SyncTyped, NEW c \in Client, FetchStep(c),
           job[c] # NoJob, Heals(timeline[c], job[c]), job'[c] # NoJob
    PROVE  Heals(timeline'[c], job'[c])
<1> DEFINE j == job[c]
           n == job'[c]
<1>0. SUFFICES Heals(timeline'[c], n)
  OBVIOUS
<1>1. j \in Job /\ Underway(j) /\ c \in DOMAIN job /\ c \in DOMAIN timeline
  BY DEF SyncTyped, JobsTyped, PeersTyped, Repos
<1>2. ASSUME NEW new, Set(c, new) PROVE n = new
  BY <1>1, <1>2 DEF Set
<1>3. ASSUME NEW step \in {"entry", "track", "pick", "checkout"},
             Set(c, [j EXCEPT !.step = step]), timeline' = timeline,
             step = "entry" => j.step = "blobs",
             step \in {"track", "checkout"} => j.step \in {"boundary", "track"}
      PROVE  Heals(timeline'[c], n)
  <2>1. n = [j EXCEPT !.step = step]
    BY <1>2, <1>3
  <2>2. /\ n.step = step /\ n.kind = j.kind /\ n.depth = j.depth
        /\ n.item = j.item /\ n.list = j.list
    BY <1>1, <2>1 DEF Job
  <2> HIDE DEF n
  <2> QED
    BY <1>3, <2>2 DEF Heals
<1>4. CASE Pick(c)
  <2>1. PICK item \in j.left :
            LET walk == Ancestry(item.tip, j.depth)
                list == Missing(c, walk)
            IN  Set(c, [j EXCEPT
                    !.item = item, !.left = @ \ {item}, !.list = list,
                    !.fetched = {list[i] : i \in DOMAIN list},
                    !.boundary = Boundary(walk, j.depth),
                    !.step = IF list = <<>> THEN "boundary" ELSE "blobs"])
    BY <1>4 DEF Pick
  <2> DEFINE walk  == Ancestry(item.tip, j.depth)
             list  == Missing(c, walk)
             got   == {list[i] : i \in DOMAIN list}
             limit == Boundary(walk, j.depth)
             left  == j.left \ {item}
             step  == IF list = <<>> THEN "boundary" ELSE "blobs"
             new   == [j EXCEPT !.item = item, !.left = left, !.list = list, !.fetched = got,
                                !.boundary = limit, !.step = step]
  <2>2. n = new
    <3>1. Set(c, new)
      BY <1>1, <2>1 DEF Job
    <3> HIDE DEF new
    <3> QED
      BY <1>2, <3>1
  <2>3. timeline' = timeline
    BY <1>4 DEF Pick, peers
  <2>4. item \in Item /\ item.tip \in State
    BY <1>1 DEF Job, Item
  <2>5. ASSUME j.depth = NoDepth PROVE Past(item.tip) \subseteq ToSet(walk) /\ walk \in Seq(State)
    <3>1. NoDepth \in Nat \ {0} /\ NoDepth > Cardinality(State)
      BY DepthsFit DEF SyncAssumption, Limits
    <3> QED
      BY <2>4, <2>5, <3>1, AncestryWhole, AncestryType
  <2> HIDE DEF walk
  <2>6. ASSUME j.depth = NoDepth PROVE Past(item.tip) \subseteq timeline[c] \cup ToSet(list)
    <3>1. ToSet(list) = ToSet(walk) \ timeline[c]
      BY <2>5, <2>6, MissingIs
    <3> QED
      BY <2>5, <2>6, <3>1
  <2> HIDE DEF list, got, limit, left
  <2>7. /\ n.step = (IF list = <<>> THEN "boundary" ELSE "blobs")
        /\ n.depth = j.depth /\ n.item = item /\ n.list = list
    BY <1>1, <2>2 DEF Job
  <2> HIDE DEF n
  <2> QED
    BY <2>3, <2>6, <2>7 DEF Heals
<1>5. CASE GetBlobs(c)
  BY <1>3, <1>5 DEF GetBlobs, At
<1>6. CASE GetEntry(c)
  <2> DEFINE step == IF Tail(j.list) = <<>> THEN "boundary" ELSE "blobs"
             new  == [j EXCEPT !.list = Tail(j.list), !.step = step]
  <2>1. j.step = "entry" /\ j.list # <<>> /\ j.list \in Seq(State)
    BY <1>1, <1>6 DEF GetEntry, At, Underway, Job
  <2>2. n = new
    <3>1. Set(c, new)
      BY <1>1, <1>6 DEF GetEntry, Job
    <3> HIDE DEF new
    <3> QED
      BY <1>2, <3>1
  <2>3. timeline'[c] = timeline[c] \cup {Head(j.list)}
    BY <1>1, <1>6 DEF GetEntry
  <2>4. ToSet(j.list) = {Head(j.list)} \cup ToSet(Tail(j.list))
    BY <2>1, SetOfTail
  <2>5. /\ n.step = (IF Tail(j.list) = <<>> THEN "boundary" ELSE "blobs")
        /\ n.kind = j.kind /\ n.depth = j.depth /\ n.item = j.item /\ n.list = Tail(j.list)
    BY <1>1, <2>2 DEF Job
  <2> HIDE DEF n
  <2> QED
    BY <2>1, <2>3, <2>4, <2>5 DEF Heals
<1>7. CASE SaveBoundary(c)
  BY <1>3, <1>7 DEF SaveBoundary, At
<1>8. CASE Track(c)
  BY <1>3, <1>8 DEF Track, At
<1>9. CASE TrackAll(c)
  BY <1>3, <1>9 DEF TrackAll, At
<1>10. CASE CheckoutClone(c)
  BY <1>3, <1>10 DEF CheckoutClone, At
<1>11. CASE FetchTags(c)
  <2> DEFINE left == Items("tags", tags[Server])
             new  == [j EXCEPT !.left = left, !.tagged = TRUE]
  <2>1. ~Finish(c)
    BY <1>1 DEF Finish
  <2>2. Set(c, new) /\ j.step = "pick"
    BY <1>11, <2>1 DEF FetchTags, At
  <2>3. n.step = "pick"
    <3> HIDE DEF left
    <3>1. n = new
      BY <1>2, <2>2
    <3> QED
      BY <1>1, <2>2, <3>1 DEF Job
  <2> HIDE DEF n
  <2> QED
    BY <2>3 DEF Heals
<1> QED
  BY <1>4, <1>5, <1>6, <1>7, <1>8, <1>9, <1>10, <1>11 DEF FetchStep

LEMMA HealsCommand ==
    ASSUME JobsTyped, NEW c \in Client, SyncCommand(c)
    PROVE  Heals(timeline'[c], job'[c])
<1>1. c \in DOMAIN job
  BY DEF JobsTyped
<1>2. ASSUME NEW new, Set(c, new) PROVE job'[c] = new
  BY <1>1, <1>2 DEF Set
<1>3. ASSUME NEW b \in Branch, NEW force \in BOOLEAN, PushStart(c, b, force)
      PROVE  job'[c].kind = "push"
  <2> DEFINE walk == Walking(NewJob("push", "walk"),
                             [in |-> "heads", name |-> b, tip |-> heads[c][b]])
             new  == [walk EXCEPT !.force = force, !.held = KeepsLock(c)]
  <2>1. Set(c, new)
    BY <1>3 DEF PushStart
  <2>2. walk.kind = "push" /\ "kind" \in DOMAIN walk
    BY DEF Walking, NewJob
  <2> HIDE DEF walk
  <2> QED
    BY <1>2, <2>1, <2>2
<1>4. ASSUME NEW names, NEW d, FetchStart(c, names, d) PROVE job'[c].step = "pick"
  <2> DEFINE new  == NewJob("fetch", "pick")
             left == {i \in Items("heads", heads[Server]) : i.name \in names}
             j    == [new EXCEPT !.left = left, !.depth = d]
  <2>1. Set(c, j)
    BY <1>4 DEF FetchStart
  <2>2. new.step = "pick" /\ "step" \in DOMAIN new
    BY DEF NewJob
  <2> HIDE DEF new, left
  <2> QED
    BY <1>2, <2>1, <2>2
<1>5. ASSUME NEW b, NEW d, CloneStart(c, b, d) PROVE job'[c].step = "pick"
  <2> DEFINE new  == NewJob("clone", "pick")
             left == {i \in Items("heads", heads[Server]) : i.name = b}
             refs == heads[Server]
             j    == [new EXCEPT !.left = left, !.refs = refs, !.depth = d]
  <2>1. Set(c, j)
    BY <1>5 DEF CloneStart
  <2>2. new.step = "pick" /\ "step" \in DOMAIN new
    BY DEF NewJob
  <2> HIDE DEF new, left, refs
  <2> QED
    BY <1>2, <2>1, <2>2
<1> QED
  BY <1>3, <1>4, <1>5 DEF SyncCommand, Heals

LEMMA HealingNext ==
    PeersAssumption /\ SyncAssumption /\ SyncTyped /\ Healing /\ [SyncNext]_syncVars
    => Healing'
<1> SUFFICES ASSUME PeersAssumption, SyncAssumption, SyncTyped, Healing, [SyncNext]_syncVars,
                    NEW k \in Client, job'[k] # NoJob
             PROVE  Heals(timeline'[k], job'[k])
  BY DEF Healing
<1>1. CASE job'[k] = job[k]
  <2>1. timeline[k] \subseteq timeline'[k]
    BY <1>1, BusyStay DEF SyncTyped
  <2> QED
    BY <1>1, <2>1 DEF Healing, Heals
<1>2. CASE job'[k] # job[k]
  <2>1. SyncCommand(k) \/ PushStep(k) \/ FetchStep(k)
    BY <1>2, JobSteps DEF SyncTyped
  <2>2. CASE SyncCommand(k)
    BY <2>2, HealsCommand DEF SyncTyped
  <2>3. CASE PushStep(k)
    <3>1. job'[k].kind = "push"
      BY <2>3, PushKind DEF SyncTyped, PushGoesOn
    <3> QED
      BY <3>1 DEF Heals
  <2>4. CASE FetchStep(k)
    <3>1. job[k] # NoJob
      BY <2>4 DEF FetchStep, Pick, GetBlobs, GetEntry, SaveBoundary, Track, TrackAll,
           CheckoutClone, FetchTags, At
    <3> QED
      BY <2>4, <3>1, HealsFetch DEF Healing
  <2> QED
    BY <2>1, <2>2, <2>3, <2>4
<1> QED
  BY <1>1, <1>2

LEMMA HealedBefore ==
    ASSUME SyncTyped, Healing, NEW c \in Client, At(c, {"fetch", "clone"}, "track"),
           job[c].depth = NoDepth
    PROVE  Whole(c, job[c].item.tip)
<1>1. Heals(timeline[c], job[c]) /\ job[c].kind # "push" /\ job[c].step = "track"
  BY DEF At, Healing
<1>2. Past(job[c].item.tip) \subseteq timeline[c] \cup ToSet(job[c].list) /\ job[c].list = <<>>
  BY <1>1 DEF Heals
<1>3. ToSet(job[c].list) = {}
  BY <1>2, SetOfNone, Zenon
<1> QED
  BY <1>2, <1>3 DEF Whole

\* In every history, with any number of clients: a fetch without --depth that moves a ref
\* has the whole history of it, however little earlier fetches have left, whatever the
\* server and other clients do meanwhile.
THEOREM FetchesHeal == SyncSpec => FullFetchHeals
<1>1. SyncInit => Healing
  BY DEF SyncInit, Healing
<1>2. SyncTyped /\ Healing /\ [SyncNext]_syncVars =>
          [\A c \in Client :
              At(c, {"fetch", "clone"}, "track") /\ job[c].depth = NoDepth /\ job'[c] # NoJob
              => Whole(c, job[c].item.tip)]_syncVars
  BY HealedBefore
<1> QED
  BY <1>1, <1>2, SyncTypedInit, SyncTypedNext, HealingNext, PeersAssumption, SyncAssumption,
     PTL DEF SyncSpec, FullFetchHeals

-----------------------------------------------------------------------------
(* Branches of a server to which one client pushes. *)

SolePusher ==
    \A start \in Starts :
        /\ \A c, k \in Client : "push" \in start.uses[c] \cap start.uses[k] => c = k
        /\ start.uses[Server] \cap {"commit", "branch"} = {}

\* The same of the commands that are run; only who may push does.
OnePushes ==
    /\ \A c, k \in Client : "push" \in uses[c] \cap uses[k] => c = k
    /\ uses[Server] \cap {"commit", "branch"} = {}
    /\ \A c \in Client : job[c] # NoJob /\ job[c].kind = "push" => "push" \in uses[c]

\* What a push has left are tags, and only a branch is written by a request of its own.
Aimed(j) ==
    (\A i \in j.left : i.in = "tags") /\ (j.step = "write" => j.item.in = "heads")

\* An unforced push of a branch, before the ref is set.
InHand(j) ==
    j.step \in {"walk", "blobs", "entry", "ref", "write"} /\ j.item.in = "heads" /\ ~j.force

\* The client's own comparison still holds of the branches of the server.
Compared(refs, j) ==
    InHand(j) => refs[j.item.name] \in {NoState, j.item.tip} \cup Past(j.item.tip)

PushesCompared ==
    \A c \in Client :
        job[c] # NoJob /\ job[c].kind = "push" => Aimed(job[c]) /\ Compared(heads[Server], job[c])

\* A push deals with one branch to the end of it, then with tags.
Aims(j, n) == Aimed(n) /\ (InHand(n) => InHand(j) /\ n.item = j.item)

LEMMA PushAims ==
    ASSUME JobsTyped, NEW c \in Client, PushStep(c), Aimed(job[c]), job'[c] # NoJob
    PROVE  Aims(job[c], job'[c])
<1> DEFINE j == job[c]
           n == job'[c]
<1>0. j # NoJob /\ c \in DOMAIN job
  BY PushKind DEF JobsTyped
<1>1. j \in Job /\ DOMAIN j = Fields
  BY <1>0 DEF JobsTyped, Job, Fields
<1>2. ASSUME NEW new, Set(c, new) PROVE n = new
  BY <1>0, <1>2 DEF Set
<1> SUFFICES Aims(j, n)
  OBVIOUS
<1> HIDE DEF n
<1>3. ASSUME NEW step, Set(c, [j EXCEPT !.step = step]),
             step = "write" => j.item.in = "heads",
             step \in {"walk", "blobs", "entry", "ref", "write"} =>
                j.step \in {"walk", "blobs", "entry", "ref", "write"}
      PROVE  Aims(j, n)
  <2>1. n = [j EXCEPT !.step = step]
    BY <1>2, <1>3
  <2>2. n.step = step /\ n.left = j.left /\ n.item = j.item /\ n.force = j.force
    BY <1>1, <2>1 DEF Fields
  <2> QED
    BY <1>3, <2>2 DEF Aims, Aimed, InHand
<1>4. CASE Walk(c)
  <2> DEFINE s    == Head(j.queue)
             next == [j EXCEPT !.queue = Tail(j.queue), !.seen = @ \cup {s}]
             q    == next.queue \o Without(ParentsOf[s], next.seen)
             l    == <<s>> \o next.list
             more == [next EXCEPT !.queue = q, !.list = l]
  <2>1. /\ DOMAIN next = Fields /\ next.step = j.step /\ next.left = j.left
        /\ next.item = j.item /\ next.force = j.force
    BY <1>1 DEF Fields
  <2>2. Set(c, AfterWalk(next)) \/ Set(c, AfterWalk(more))
    <3>1. \/ Set(c, AfterWalk(next))
          \/ Set(c, AfterWalk([next EXCEPT !.queue = @ \o Without(ParentsOf[s], next.seen),
                                           !.list = <<s>> \o @]))
      BY <1>4 DEF Walk
    <3> HIDE DEF next
    <3>2. [next EXCEPT !.queue = @ \o Without(ParentsOf[s], next.seen), !.list = <<s>> \o @]
          = more
      BY <2>1 DEF Fields
    <3> QED
      BY <3>1, <3>2
  <2> HIDE DEF next, q, l
  <2>3. /\ DOMAIN more = Fields /\ more.step = j.step /\ more.left = j.left
        /\ more.item = j.item /\ more.force = j.force
    BY <2>1 DEF Fields
  <2> HIDE DEF more
  <2>4. ASSUME NEW m, DOMAIN m = Fields, m.step = j.step, m.left = j.left, m.item = j.item,
               m.force = j.force, n = AfterWalk(m)
        PROVE  Aims(j, n)
    <3>1. /\ n.left = j.left /\ n.item = j.item /\ n.force = j.force
          /\ n.step \in {j.step, "ref", "blobs"}
      BY <2>4 DEF AfterWalk, Fields
    <3>2. j.step = "walk"
      BY <1>4 DEF Walk, At
    <3> QED
      BY <3>1, <3>2 DEF Aims, Aimed, InHand
  <2> QED
    BY <1>2, <2>1, <2>2, <2>3, <2>4
<1>5. CASE SendEntry(c)
  <2> DEFINE rest == Tail(j.list)
             step == IF rest = <<>> THEN "ref" ELSE "blobs"
             new  == [j EXCEPT !.list = rest, !.step = step]
  <2>1. Set(c, new) /\ j.step = "entry"
    BY <1>1, <1>5 DEF SendEntry, At, Fields
  <2>2. step \in {"ref", "blobs"}
    OBVIOUS
  <2> HIDE DEF rest, step
  <2>3. new.step = step /\ new.left = j.left /\ new.item = j.item /\ new.force = j.force
    BY <1>1 DEF Fields
  <2> HIDE DEF new
  <2>4. n = new
    BY <1>2, <2>1
  <2> QED
    BY <2>1, <2>2, <2>3, <2>4 DEF Aims, Aimed, InHand
<1>6. CASE ListTags(c)
  <2> DEFINE left == Items("tags", tags[c])
             new  == [j EXCEPT !.left = left, !.step = "tags"]
  <2>1. n = new
    <3>1. Set(c, new)
      BY <1>6 DEF ListTags
    <3> HIDE DEF new
    <3> QED
      BY <1>2, <3>1
  <2>2. \A i \in left : i.in = "tags"
    BY DEF Items
  <2> HIDE DEF left
  <2>3. n.step = "tags" /\ n.left = left
    BY <1>1, <2>1 DEF Fields
  <2> QED
    BY <2>2, <2>3 DEF Aims, Aimed, InHand
<1>7. CASE PushTag(c)
  <2>1. ~Finish(c)
    BY <1>0 DEF Finish, n
  <2>2. PICK item \in j.left : \/ Set(c, [j EXCEPT !.left = @ \ {item}])
                               \/ Set(c, Walking([j EXCEPT !.left = @ \ {item}], item))
    BY <1>7, <2>1 DEF PushTag
  <2> DEFINE next == [j EXCEPT !.left = @ \ {item}]
             walk == Walking(next, item)
  <2>3. /\ item.in = "tags" /\ j.step = "tags"
        /\ \A i \in j.left \ {item} : i.in = "tags"
    BY <1>7 DEF PushTag, At, Aimed
  <2>4. DOMAIN next = Fields /\ next.step = j.step /\ next.left = j.left \ {item}
    BY <1>1 DEF Fields
  <2>6. n = next \/ n = walk
    <3> HIDE DEF next
    <3> HIDE DEF walk
    <3> QED
      BY <1>2, <2>2 DEF next, walk
  <2> HIDE DEF next
  <2>5. walk.step = "walk" /\ walk.item = item /\ walk.left = next.left
    BY <2>4 DEF Walking, Fields
  <2> HIDE DEF walk
  <2> QED
    BY <2>3, <2>4, <2>5, <2>6 DEF Aims, Aimed, InHand
<1>8. CASE SendBlobs(c)
  BY <1>3, <1>8 DEF SendBlobs, At
<1>9. CASE SetHead(c)
  <2>1. /\ Set(c, [j EXCEPT !.step = "list"]) \/ Set(c, [j EXCEPT !.step = "write"])
        /\ j.step = "ref" /\ j.item.in = "heads"
    BY <1>9 DEF SetHead, Pushing, At
  <2> QED
    BY <1>3, <2>1
<1>10. CASE WriteChecked(c)
  BY <1>3, <1>10 DEF WriteChecked
<1>11. CASE SetTag(c)
  BY <1>3, <1>11 DEF SetTag
<1> QED
  BY <1>4, <1>5, <1>6, <1>7, <1>8, <1>9, <1>10, <1>11 DEF PushStep

\* Writing the ref ends the comparison.
LEMMA SentAims ==
    ASSUME JobsTyped, NEW c \in Client, SetHead(c) \/ WriteChecked(c), SendHead(job[c])
    PROVE  ~InHand(job'[c]) \/ UNCHANGED heads
<1> DEFINE j == job[c]
<1>1. j \in Job /\ c \in DOMAIN job
  BY DEF JobsTyped, SetHead, WriteChecked, Pushing, At
<1>2. CASE Set(c, [j EXCEPT !.step = "list"])
  <2>1. job'[c] = [j EXCEPT !.step = "list"]
    BY <1>1, <1>2 DEF Set
  <2>2. job'[c].step = "list"
    BY <1>1, <2>1 DEF Job
  <2> QED
    BY <2>2 DEF InHand
<1>3. CASE UNCHANGED peers
  BY <1>3 DEF peers
<1> QED
  BY <1>2, <1>3 DEF SetHead, WriteChecked

\* A push begins with the comparison.
LEMMA PushStartCompares ==
    ASSUME SyncTyped, NEW c \in Client, NEW b \in Branch, NEW force \in BOOLEAN,
           PushStart(c, b, force)
    PROVE  /\ "push" \in uses[c] /\ Aimed(job'[c])
           /\ Compared(heads'[Server], job'[c])
<1> DEFINE tip  == heads[c][b]
           far  == heads[Server][b]
           item == [in |-> "heads", name |-> b, tip |-> tip]
           walk == Walking(NewJob("push", "walk"), item)
           held == KeepsLock(c)
           new  == [walk EXCEPT !.force = force, !.held = held]
<1>1. /\ Set(c, new) /\ "push" \in uses[c] /\ heads' = heads
      /\ far = NoState \/ force \/ IsForward(c, far, tip)
  BY DEF PushStart, peers
<1>2. item.name = b /\ item.tip = tip
  OBVIOUS
<1> HIDE DEF held
<1>3. far \in {NoState, tip} \cup Past(tip) \/ force
  BY <1>1 DEF IsForward
<1> HIDE DEF item
<1>4. walk.step = "walk" /\ walk.item = item /\ walk.left = {} /\ DOMAIN walk = Fields
  BY DEF Walking, NewJob, Fields
<1> HIDE DEF walk
<1>5. new.step = "walk" /\ new.item = item /\ new.left = {} /\ new.force = force
  BY <1>4 DEF Fields
<1> HIDE DEF new
<1>6. job'[c] = new
  BY <1>1 DEF Set, SyncTyped, JobsTyped
<1> QED
  BY <1>1, <1>2, <1>3, <1>5, <1>6 DEF Aimed, Compared, InHand

\* No other command begins a push.
LEMMA PushBegins ==
    ASSUME SyncTyped, NEW c \in Client, SyncCommand(c), job'[c].kind = "push"
    PROVE  \E b \in Branch, force \in BOOLEAN : PushStart(c, b, force)
<1>1. c \in DOMAIN job
  BY DEF SyncTyped, JobsTyped
<1>2. ASSUME NEW names, NEW d, FetchStart(c, names, d) PROVE FALSE
  <2> DEFINE new  == NewJob("fetch", "pick")
             left == {i \in Items("heads", heads[Server]) : i.name \in names}
             j    == [new EXCEPT !.left = left, !.depth = d]
  <2>1. Set(c, j)
    BY <1>2 DEF FetchStart
  <2>2. new.kind = "fetch" /\ "kind" \in DOMAIN new
    BY DEF NewJob
  <2> HIDE DEF new, left
  <2>3. j.kind = "fetch"
    BY <2>2
  <2> HIDE DEF j
  <2> QED
    BY <1>1, <2>1, <2>3 DEF Set
<1>3. ASSUME NEW b, NEW d, CloneStart(c, b, d) PROVE FALSE
  <2> DEFINE new  == NewJob("clone", "pick")
             left == {i \in Items("heads", heads[Server]) : i.name = b}
             refs == heads[Server]
             j    == [new EXCEPT !.left = left, !.refs = refs, !.depth = d]
  <2>1. Set(c, j)
    BY <1>3 DEF CloneStart
  <2>2. new.kind = "clone" /\ "kind" \in DOMAIN new
    BY DEF NewJob
  <2> HIDE DEF new, left, refs
  <2>3. j.kind = "clone"
    BY <2>2
  <2> HIDE DEF j
  <2> QED
    BY <1>1, <2>1, <2>3 DEF Set
<1> QED
  BY <1>2, <1>3 DEF SyncCommand

LEMMA OnePushesNext ==
    ASSUME PeersAssumption, SyncTyped, OnePushes, [SyncNext]_syncVars
    PROVE  OnePushes'
<1>1. uses' = uses /\ JobsTyped
  BY HeadsChange DEF SyncTyped, PeersTyped, Refs, HeadsThere, Repos
<1>2. SUFFICES ASSUME NEW k \in Client, job'[k] # NoJob, job'[k].kind = "push"
               PROVE  "push" \in uses[k]
  BY <1>1 DEF OnePushes
<1>3. CASE job'[k] = job[k]
  BY <1>2, <1>3 DEF OnePushes
<1>4. CASE job'[k] # job[k]
  <2>1. SyncCommand(k) \/ PushStep(k) \/ FetchStep(k)
    BY <1>1, <1>2, <1>4, JobSteps
  <2>2. CASE SyncCommand(k)
    BY <1>2, <2>2, PushBegins, PushStartCompares
  <2>3. CASE PushStep(k)
    BY <1>1, <2>3, PushKind DEF OnePushes
  <2>4. CASE FetchStep(k)
    <3>1. job[k] # NoJob /\ job[k].kind # "push"
      BY <2>4 DEF FetchStep, Pick, GetBlobs, GetEntry, SaveBoundary, Track, TrackAll,
           CheckoutClone, FetchTags, At
    <3> QED
      BY <1>1, <1>2, <2>4, <3>1, FetchKind
  <2> QED
    BY <2>1, <2>2, <2>3, <2>4
<1> QED
  BY <1>3, <1>4

\* What changes a branch of the server is a push that has it in hand, and ends with it.
LEMMA SoleWriter ==
    ASSUME PeersAssumption, SyncTyped, OnePushes, [SyncNext]_syncVars
    PROVE  \/ heads'[Server] = heads[Server]
           \/ \E c \in Client :
                 /\ SetHead(c) \/ WriteChecked(c)
                 /\ SendHead(job[c]) /\ PushStep(c)
                 /\ \A k \in Client : "push" \in uses[k] => k = c
<1>1. HeadsThere
  BY DEF SyncTyped, PeersTyped, Refs, HeadsThere, Repos
<1>2. ~OwnCommand
  BY DEF OwnCommand, OnePushes
<1>3. ASSUME NEW c \in Client, SetHead(c) \/ WriteChecked(c), SendHead(job[c])
      PROVE  PushStep(c) /\ \A k \in Client : "push" \in uses[k] => k = c
  <2>1. PushStep(c)
    BY <1>3 DEF PushStep
  <2>2. "push" \in uses[c]
    BY <2>1, PushKind DEF SyncTyped, OnePushes
  <2> QED
    BY <2>1, <2>2 DEF OnePushes
<1> QED
  BY <1>1, <1>2, <1>3, HeadsChange DEF HeadsStay

LEMMA PushesComparedNext ==
    ASSUME PeersAssumption, SyncTyped, OnePushes, PushesCompared, [SyncNext]_syncVars
    PROVE  PushesCompared'
<1>1. OnePushes' /\ uses' = uses /\ JobsTyped
  BY OnePushesNext, HeadsChange DEF SyncTyped, PeersTyped, Refs, HeadsThere, Repos
<1>2. SUFFICES ASSUME NEW k \in Client, job'[k] # NoJob, job'[k].kind = "push"
               PROVE  Aimed(job'[k]) /\ Compared(heads'[Server], job'[k])
  BY DEF PushesCompared
<1>3. CASE job'[k] = job[k] /\ heads'[Server] = heads[Server]
  BY <1>2, <1>3 DEF PushesCompared
<1>4. CASE job'[k] # job[k] /\ heads'[Server] = heads[Server]
  <2>1. SyncCommand(k) \/ PushStep(k) \/ FetchStep(k)
    BY <1>1, <1>2, <1>4, JobSteps
  <2>2. CASE SyncCommand(k)
    BY <1>2, <2>2, PushBegins, PushStartCompares
  <2>3. CASE PushStep(k)
    <3>1. Aimed(job[k]) /\ Compared(heads[Server], job[k])
      BY <1>1, <2>3, PushKind DEF PushesCompared
    <3>2. Aims(job[k], job'[k])
      BY <1>1, <1>2, <2>3, <3>1, PushAims
    <3> QED
      BY <1>4, <3>1, <3>2 DEF Aims, Compared
  <2>4. CASE FetchStep(k)
    <3>1. job[k] # NoJob /\ job[k].kind # "push"
      BY <2>4 DEF FetchStep, Pick, GetBlobs, GetEntry, SaveBoundary, Track, TrackAll,
           CheckoutClone, FetchTags, At
    <3> QED
      BY <1>1, <1>2, <2>4, <3>1, FetchKind
  <2> QED
    BY <2>1, <2>2, <2>3, <2>4
<1>5. CASE heads'[Server] # heads[Server]
  <2>1. PICK c \in Client :
            /\ SetHead(c) \/ WriteChecked(c)
            /\ SendHead(job[c]) /\ PushStep(c)
            /\ \A r \in Client : "push" \in uses[r] => r = c
    BY <1>5, SoleWriter
  <2>2. k = c
    BY <1>1, <1>2, <2>1 DEF OnePushes
  <2>3. ~InHand(job'[c])
    BY <1>1, <1>5, <2>1, SentAims
  <2>4. Aimed(job[c])
    BY <1>1, <2>1, PushKind DEF PushesCompared
  <2>5. Aims(job[c], job'[c])
    BY <1>1, <1>2, <2>1, <2>2, <2>4, PushAims
  <2> QED
    BY <2>2, <2>3, <2>5 DEF Aims, Compared
<1> QED
  BY <1>3, <1>4, <1>5

LEMMA SoleForward ==
    ASSUME PeersAssumption, SyncTyped, OnePushes, PushesCompared, [SyncNext]_syncVars,
           NEW b \in Branch, heads[Server][b] \notin {NoState, heads'[Server][b]}
    PROVE  \/ heads[Server][b] \in Past(heads'[Server][b])
           \/ \E c \in Client : job[c] # NoJob /\ job[c].force /\ job'[c] # job[c]
<1>1. PICK c \in Client :
          (SetHead(c) \/ WriteChecked(c)) /\ SendHead(job[c]) /\ PushStep(c)
  BY SoleWriter
<1> DEFINE j == job[c]
           name == j.item.name
           tip  == j.item.tip
<1>2. j # NoJob /\ j.kind = "push" /\ j \in Job
  BY <1>1, PushKind DEF SyncTyped, JobsTyped
<1>3. Aimed(j) /\ Compared(heads[Server], j)
  BY <1>2 DEF PushesCompared
<1>4. j.step \in {"ref", "write"} /\ j.item.in = "heads"
  BY <1>1, <1>3 DEF SetHead, WriteChecked, Pushing, At, Aimed
<1>5. ~InHand(job'[c])
  BY <1>1, SentAims DEF SyncTyped
<1>6. heads' = [heads EXCEPT ![Server][name] = tip]
  BY <1>1 DEF SendHead, PutHead
<1>7. b = name /\ heads'[Server][b] = tip
  <2> HIDE DEF name, tip
  <2> QED
    BY <1>6 DEF SyncTyped, PeersTyped, Refs, Repos
<1>8. CASE j.force
  <2>1. job'[c] # j
    <3>1. \/ Set(c, [j EXCEPT !.step = "list"]) \/ UNCHANGED heads
      BY <1>1 DEF SetHead, WriteChecked, peers
    <3>2. Set(c, [j EXCEPT !.step = "list"])
      BY <3>1
    <3>3. job'[c] = [j EXCEPT !.step = "list"]
      BY <3>2 DEF Set, SyncTyped, JobsTyped
    <3>4. job'[c].step = "list"
      BY <1>2, <3>3 DEF Job
    <3> QED
      BY <1>4, <3>4
  <2> QED
    BY <1>2, <1>8, <2>1
<1>9. CASE ~j.force
  <2>1. heads[Server][name] \in {NoState, tip} \cup Past(tip)
    BY <1>3, <1>4, <1>9 DEF Compared, InHand
  <2> QED
    BY <1>7, <2>1
<1> QED
  BY <1>8, <1>9

\* Over ssh, and on a path, where nothing holds the remote's lock between the check and
\* the write: as long as one client pushes, and the remote's user neither commits nor sets
\* branches, the branches of the server are only moved forward by the pushes that are not
\* forced, whatever fetches, gc, merges and failures come between.
THEOREM SolePushesMoveForward ==
    ASSUME SolePusher
    PROVE  SyncSpec => RemoteForward
<1> DEFINE Inv == SyncTyped /\ OnePushes /\ PushesCompared
<1>1. SyncInit => Inv
  <2>1. ASSUME SyncInit PROVE OnePushes /\ PushesCompared
    <3>1. PICK start \in Starts : uses = start.uses
      BY <2>1 DEF SyncInit, PeersInit
    <3> QED
      BY <2>1, <3>1, SolePusher DEF SyncInit, SolePusher, OnePushes, PushesCompared
  <2> QED
    BY <2>1, SyncTypedInit, PeersAssumption, SyncAssumption
<1>2. Inv /\ [SyncNext]_syncVars => Inv'
  BY OnePushesNext, PushesComparedNext, SyncTypedNext, PeersAssumption, SyncAssumption
<1>3. Inv /\ [SyncNext]_syncVars =>
          [\A b \in Branch :
              LET old == heads[Server][b]
              IN  old \notin {NoState, heads'[Server][b]} =>
                     \/ old \in Past(heads'[Server][b])
                     \/ \E c \in Client : job[c] # NoJob /\ job[c].force /\ job'[c] # job[c]
                     \/ job' = job]_syncVars
  BY SoleForward, PeersAssumption
<1> HIDE DEF Inv
<1> QED
  BY <1>1, <1>2, <1>3, PTL DEF SyncSpec, RemoteForward

=============================================================================
