---------------------------- MODULE ReplayProofs ----------------------------
(***************************************************************************)
(* Proofs about Replay: the files of rebase and stash keep their form      *)
(* beside the commands of Repo, --abort goes back, and no stash command    *)
(* loses work, wherever one of them is killed.  What a command may not do  *)
(* at any of its steps follows from how far it has come and what it has    *)
(* left to write.                                                          *)
(***************************************************************************)
EXTENDS Replay, RepoProofs, FiniteSetTheorems, FunctionTheorems, SequenceTheorems

-----------------------------------------------------------------------------
(* The walk of collect_linear_commits.                                     *)

\* The link it follows from a state.
Link(par) == [s \in State \cup {NoState} |->
            IF s = NoState \/ ~IsLinear(par, s) THEN NoState
            ELSE LinearParent(par, s)]

LEMMA LinkType ==
    ASSUME NEW par \in [State -> SUBSET State]
    PROVE  Link(par) \in [State \cup {NoState} -> State \cup {NoState}]
<1>1. ASSUME NEW s \in State, IsLinear(par, s)
      PROVE  LinearParent(par, s) \in State
      BY <1>1 DEF IsLinear, LinearParent
<1>2. QED
      BY <1>1 DEF Link

\* It follows a link at each step.
LEMMA WalkIs ==
    ASSUME NEW par \in [State -> SUBSET State], NEW tip \in State
    PROVE  /\ Cardinality(State) \in Nat
           /\ Walk(par, tip) \in [0 .. Cardinality(State) -> State \cup {NoState}]
           /\ Walks(Walk(par, tip), Link(par), tip, Cardinality(State))
<1>. DEFINE N == Cardinality(State)
            X == State \cup {NoState}
            Follows(s) == IF s = NoState \/ ~IsLinear(par, s) THEN NoState
                          ELSE LinearParent(par, s)
            IsWalk(f) == f = [n \in 0 .. N |-> IF n = 0 THEN tip ELSE Follows(f[n - 1])]
<1>1. N \in Nat
      BY RebaseAssumption, FS_CardinalityType
<1>2. Link(par) \in [X -> X] /\ tip \in X
      BY LinkType
<1>3. \A s \in X : Link(par)[s] = Follows(s)
      BY DEF Link
<1>4. Walk(par, tip) = CHOOSE f : IsWalk(f)
      <2>1. DOMAIN par = State
            OBVIOUS
      <2>2. QED
            BY <2>1 DEF Walk
<1>. HIDE DEF X, N, Follows
<1>5. PICK f \in [0 .. N -> X] : Walks(f, Link(par), tip, N)
      BY <1>1, <1>2, WalkExists
<1>6. IsWalk(f)
      <2>1. ASSUME NEW n \in 0 .. N
            PROVE  f[n] = IF n = 0 THEN tip ELSE Follows(f[n - 1])
            <3>1. CASE n = 0
                  BY <3>1, <1>5 DEF Walks
            <3>2. CASE n # 0
                  <4>1. n \in 1 .. N /\ n - 1 \in 0 .. N
                        BY <1>1, <3>2
                  <4>2. QED
                        BY <1>3, <1>5, <3>2, <4>1 DEF Walks
            <3>3. QED
                  BY <3>1, <3>2
      <2>2. f = [n \in 0 .. N |-> f[n]]
            BY <1>5
      <2>3. [n \in 0 .. N |-> f[n]] = [n \in 0 .. N |-> IF n = 0 THEN tip ELSE Follows(f[n - 1])]
            BY <2>1
      <2>4. QED
            BY <2>2, <2>3
<1>. HIDE DEF IsWalk
<1>7. IsWalk(Walk(par, tip))
      BY <1>4, <1>6
<1>. DEFINE g == Walk(par, tip)
<1>. HIDE DEF g
<1>8. /\ DOMAIN g = 0 .. N
      /\ \A n \in 0 .. N : g[n] = IF n = 0 THEN tip ELSE Follows(g[n - 1])
      /\ g = [n \in 0 .. N |-> g[n]]
      <2>1. IsWalk(g)
            BY <1>7 DEF g
      <2>2. g = [n \in 0 .. N |-> IF n = 0 THEN tip ELSE Follows(g[n - 1])]
            BY <2>1 DEF IsWalk
      <2>3. DOMAIN g = 0 .. N
            BY <2>2, Zenon
      <2>4. \A n \in 0 .. N : g[n] = IF n = 0 THEN tip ELSE Follows(g[n - 1])
            BY <2>2, Zenon
      <2>5. g = [n \in 0 .. N |-> g[n]]
            BY <2>2, <2>3, <2>4
      <2>6. QED
            BY <2>3, <2>4, <2>5
<1>9. ASSUME NEW n \in 0 .. N PROVE g[n] \in X
      <2>. DEFINE T == {m \in 0 .. N : g[m] \notin X}
      <2>1. SUFFICES ASSUME T # {} PROVE FALSE
            OBVIOUS
      <2>2. T \in SUBSET Nat
            BY <1>1
      <2>3. PICK m \in T : \A k \in T : m <= k
            BY <2>1, <2>2, LeastNumber
      <2>4. m # 0 /\ m - 1 \in 0 .. N
            BY <1>1, <1>2, <1>8, <2>3
      <2>5. g[m - 1] \in X
            BY <1>1, <2>3, <2>4
      <2>6. g[m] = Link(par)[g[m - 1]]
            BY <1>3, <1>8, <2>4, <2>5
      <2>7. QED
            BY <1>2, <2>3, <2>5, <2>6
<1>10. g \in [0 .. N -> X]
      BY <1>8, <1>9
<1>11. g[0] = tip
      <2>1. 0 \in 0 .. N
            BY <1>1
      <2>2. QED
            BY <1>8, <2>1
<1>12. ASSUME NEW n \in 1 .. N PROVE g[n] = Link(par)[g[n - 1]]
      <2>1. n \in 0 .. N /\ n # 0 /\ n - 1 \in 0 .. N
            BY <1>1
      <2>2. QED
            BY <1>3, <1>8, <1>9, <2>1
<1>13. Walks(g, Link(par), tip, N)
      BY <1>11, <1>12 DEF Walks
<1>14. QED
      BY <1>1, <1>10, <1>13 DEF g, X, N

\* Until it meets a state it has gone through states, each the only parent of the last.
LEMMA WalkKnown ==
    ASSUME NEW par \in [State -> SUBSET State], NEW tip \in State,
           NEW n \in 0 .. Cardinality(State), Walk(par, tip)[n] # NoState
    PROVE  /\ \A m \in 0 .. n : Walk(par, tip)[m] \in State
           /\ \A m \in 1 .. n : /\ par[Walk(par, tip)[m - 1]] = {Walk(par, tip)[m]}
                                /\ IsLinear(par, Walk(par, tip)[m - 1])
<1>. DEFINE N == Cardinality(State)
            g == Walk(par, tip)
<1>1. N \in Nat /\ g \in [0 .. N -> State \cup {NoState}] /\ Walks(g, Link(par), tip, N)
      BY WalkIs
<1>2. Link(par)[NoState] = NoState
      BY DEF Link
<1>. HIDE DEF N, g
<1>3. ASSUME NEW m \in 0 .. n, g[m] = NoState PROVE FALSE
      <2>. DEFINE U == {k \in m .. n : g[k] # NoState}
      <2>1. n \in U /\ U \in SUBSET Nat
            BY <1>1, <1>3 DEF g, N
      <2>2. PICK k \in U : \A j \in U : k <= j
            BY <2>1, LeastNumber
      <2>3. k # m /\ k - 1 \in m .. n /\ k \in 1 .. N
            BY <1>1, <1>3, <2>2 DEF N
      <2>4. g[k - 1] = NoState
            BY <1>1, <2>2, <2>3
      <2>5. g[k] = NoState
            BY <1>1, <1>2, <2>3, <2>4 DEF Walks
      <2>6. QED
            BY <2>2, <2>5
<1>4. \A m \in 0 .. n : g[m] \in State
      <2>1. SUFFICES ASSUME NEW m \in 0 .. n PROVE g[m] \in State
            OBVIOUS
      <2>2. m \in 0 .. N
            BY <1>1 DEF N
      <2>3. QED
            BY <1>1, <1>3, <2>2
<1>5. ASSUME NEW m \in 1 .. n
      PROVE  par[g[m - 1]] = {g[m]} /\ IsLinear(par, g[m - 1])
      <2>1. m - 1 \in 0 .. n /\ m \in 0 .. n /\ m \in 1 .. N
            BY <1>1 DEF N
      <2>2. g[m - 1] \in State /\ g[m] \in State
            BY <1>4, <2>1
      <2>3. g[m] = Link(par)[g[m - 1]]
            BY <1>1, <2>1 DEF Walks
      <2>4. Link(par)[g[m - 1]] = IF ~IsLinear(par, g[m - 1]) THEN NoState
                             ELSE LinearParent(par, g[m - 1])
            BY <2>2, RepoAssumption DEF Link
      <2>5. IsLinear(par, g[m - 1]) /\ g[m] = LinearParent(par, g[m - 1])
            BY <2>2, <2>3, <2>4, RepoAssumption
      <2>6. QED
            BY <2>5 DEF IsLinear, LinearParent
<1>6. QED
      BY <1>4, <1>5 DEF g

\* What a queue is made of: the walk from the tip, from the base on.
LEMMA CommitsIs ==
    ASSUME NEW par \in [State -> SUBSET State], NEW tip \in State, NEW base \in State,
           LinearTo(par, tip, base)
    PROVE  /\ Distance(par, tip, base) \in 0 .. Cardinality(State)
           /\ Walk(par, tip)[Distance(par, tip, base)] = base
           /\ Commits(par, tip, base) \in Seq(State)
           /\ Len(Commits(par, tip, base)) = Distance(par, tip, base)
           /\ \A i \in 1 .. Distance(par, tip, base) :
                 Commits(par, tip, base)[i] = Walk(par, tip)[Distance(par, tip, base) - i]
<1>. DEFINE n == Distance(par, tip, base)
            N == Cardinality(State)
<1>1. N \in Nat /\ DOMAIN Walk(par, tip) = 0 .. N
      BY WalkIs
<1>2. n \in DOMAIN Walk(par, tip) /\ Walk(par, tip)[n] = base
      BY DEF LinearTo, Distance
<1>3. Commits(par, tip, base) = [i \in 1 .. n |-> Walk(par, tip)[n - i]]
      BY DEF Commits
<1>. HIDE DEF n
<1>4. n \in 0 .. N /\ n \in Nat
      BY <1>1, <1>2
<1>5. \A m \in 0 .. n : Walk(par, tip)[m] \in State
      BY <1>2, <1>4, WalkKnown, RepoAssumption
<1>6. \A i \in 1 .. n : Walk(par, tip)[n - i] \in State
      <2>1. \A i \in 1 .. n : n - i \in 0 .. n
            BY <1>4
      <2>2. QED
            BY <1>5, <2>1
<1>7. Commits(par, tip, base) \in [1 .. n -> State]
      BY <1>3, <1>6
<1>8. Commits(par, tip, base) \in Seq(State) /\ Len(Commits(par, tip, base)) = n
      BY <1>4, <1>7
<1>9. \A i \in 1 .. n : Commits(par, tip, base)[i] = Walk(par, tip)[n - i]
      BY <1>3
<1>10. QED
      BY <1>2, <1>4, <1>8, <1>9 DEF n

\* It goes to ancestors.
LEMMA WalkReaches ==
    ASSUME NEW par \in [State -> SUBSET State], NEW tip \in State,
           NEW n \in 0 .. Cardinality(State), Walk(par, tip)[n] # NoState,
           NEW m \in 0 .. n
    PROVE  Walk(par, tip)[n] \in Reachable(par, {Walk(par, tip)[m]})
<1>. DEFINE w == Walk(par, tip)
            T == {k \in 0 .. n : w[n] \notin Reachable(par, {w[k]})}
<1>1. n \in Nat
      BY WalkIs
<1>2. /\ \A k \in 0 .. n : w[k] \in State
      /\ \A k \in 1 .. n : par[w[k - 1]] = {w[k]}
      BY WalkKnown
<1>. HIDE DEF w
<1>3. SUFFICES ASSUME T # {} PROVE FALSE
      BY DEF w
<1>4. PICK k \in T : \A j \in T : k >= j
      BY <1>1, <1>3, GreatestNumber
<1>5. k # n
      BY <1>1, <1>2, <1>4, AncestorSelf
<1>6. k + 1 \in 1 .. n /\ k + 1 \notin T /\ k + 1 \in 0 .. n
      BY <1>1, <1>4, <1>5
<1>7. w[n] \in Reachable(par, {w[k + 1]}) /\ w[k + 1] \in par[w[k]] /\ w[k] \in State
      <2>1. par[w[(k + 1) - 1]] = {w[k + 1]}
            BY <1>2, <1>6
      <2>2. (k + 1) - 1 = k
            BY <1>4
      <2>3. par[w[k]] = {w[k + 1]}
            BY <2>1, <2>2
      <2>4. QED
            BY <1>2, <1>4, <1>6, <2>3
<1>8. w[k + 1] \in Reachable(par, {w[k]})
      BY <1>7, AncestorSelf
<1>9. w[n] \in Reachable(par, {w[k]})
      BY <1>7, <1>8, AncestorsNest
<1>10. QED
      BY <1>4, <1>9

\* Without cycles it meets no state twice.
LEMMA WalkDistinct ==
    ASSUME NEW par \in [State -> SUBSET State], Acyclic(par), NEW tip \in State,
           NEW n \in 0 .. Cardinality(State), Walk(par, tip)[n] # NoState,
           NEW m \in 0 .. n, Walk(par, tip)[m] = Walk(par, tip)[n]
    PROVE  m = n
<1>. DEFINE w == Walk(par, tip)
<1>1. n \in Nat
      BY WalkIs
<1>2. SUFFICES ASSUME m # n PROVE FALSE
      OBVIOUS
<1>3. m + 1 \in 0 .. n /\ m + 1 \in 1 .. n /\ (m + 1) - 1 = m
      BY <1>1, <1>2
<1>4. par[w[(m + 1) - 1]] = {w[m + 1]} /\ w[m] \in State
      BY <1>3, WalkKnown
<1>5. w[n] \in Reachable(par, {w[m + 1]})
      BY <1>3, WalkReaches
<1>. HIDE DEF w
<1>6. w[m + 1] \in par[w[m]]
      BY <1>3, <1>4
<1>7. QED
      BY <1>4, <1>5, <1>6 DEF Acyclic, IsAncestorOf, w

\* The states a walk has met are as many as its steps.
LEMMA WalkCount ==
    ASSUME NEW par \in [State -> SUBSET State], Acyclic(par), NEW tip \in State,
           NEW n \in 0 .. Cardinality(State), n = 0 \/ Walk(par, tip)[n - 1] # NoState
    PROVE  LET met == {Walk(par, tip)[i] : i \in 0 .. n - 1}
           IN  met \subseteq State /\ IsFiniteSet(met) /\ Cardinality(met) = n
<1>. DEFINE w   == Walk(par, tip)
            met == {w[i] : i \in 0 .. n - 1}
            f   == [i \in 0 .. n - 1 |-> w[i]]
<1>1. n \in Nat /\ Cardinality(State) \in Nat
      BY WalkIs
<1>2. \A i \in 0 .. n - 1 : w[i] \in State
      <2>1. CASE n = 0
            BY <2>1
      <2>2. CASE n # 0
            <3>1. n - 1 \in 0 .. Cardinality(State) /\ w[n - 1] # NoState
                  BY <1>1, <2>2
            <3>2. QED
                  BY <3>1, WalkKnown
      <2>3. QED
            BY <2>1, <2>2
<1>3. ASSUME NEW i \in 0 .. n - 1, NEW j \in 0 .. n - 1, w[i] = w[j], i <= j PROVE i = j
      <2>1. j \in 0 .. Cardinality(State) /\ i \in 0 .. j /\ w[j] # NoState
            BY <1>1, <1>2, <1>3, RepoAssumption
      <2>2. QED
            BY <1>3, <2>1, WalkDistinct
<1>. HIDE DEF w
<1>4. ASSUME NEW i \in 0 .. n - 1, NEW j \in 0 .. n - 1, f[i] = f[j] PROVE i = j
      <2>1. i <= j \/ j <= i
            BY <1>1
      <2>2. QED
            BY <1>3, <1>4, <2>1
<1>5. f \in [0 .. n - 1 -> met]
      OBVIOUS
<1>6. \A t \in met : \E i \in 0 .. n - 1 : f[i] = t
      OBVIOUS
<1>. HIDE DEF f
<1>7. f \in Bijection(0 .. n - 1, met)
      BY <1>4, <1>5, <1>6, Fun_IsBij
<1>8. IsFiniteSet(0 .. n - 1) /\ Cardinality(0 .. n - 1) = n
      <2>1. 0 \in Int /\ n - 1 \in Int
            BY <1>1
      <2>2. IsFiniteSet(0 .. n - 1)
            BY <2>1, FS_Interval
      <2>3. Cardinality(0 .. n - 1) = IF 0 > n - 1 THEN 0 ELSE n - 1 - 0 + 1
            BY <2>1, FS_Interval
      <2>4. QED
            BY <1>1, <2>2, <2>3
<1>9. IsFiniteSet(met) /\ Cardinality(met) = n
      <2>1. ExistsBijection(0 .. n - 1, met)
            BY <1>7 DEF ExistsBijection
      <2>. HIDE DEF met
      <2>2. QED
            BY <1>8, <2>1, FS_Bijection
<1>10. met \subseteq State
      BY <1>2
<1>11. QED
      BY <1>9, <1>10 DEF w

\* So it is over before it has gone as many steps as there are states.
LEMMA WalkShort ==
    ASSUME NEW par \in [State -> SUBSET State], Acyclic(par), NEW tip \in State,
           NEW n \in 0 .. Cardinality(State), Walk(par, tip)[n] # NoState
    PROVE  n + 1 \in 0 .. Cardinality(State)
<1>. DEFINE N == Cardinality(State)
<1>1. n \in Nat /\ N \in Nat
      BY WalkIs
<1>2. SUFFICES ASSUME n = N PROVE FALSE
      BY <1>1
<1>3. \A i \in 0 .. n : Walk(par, tip)[i] \in State
      BY WalkKnown
<1>4. 0 .. n # {} /\ Walk(par, tip)[0] = tip
      BY <1>1, WalkIs DEF Walks
<1>. DEFINE met == {Walk(par, tip)[i] : i \in 0 .. n - 1}
<1>5. met \subseteq State /\ IsFiniteSet(met) /\ Cardinality(met) = n
      <2>1. n = 0 \/ Walk(par, tip)[n - 1] # NoState
            <3>1. n = 0 \/ n - 1 \in 0 .. n
                  BY <1>1
            <3>2. QED
                  BY <1>3, <3>1, RepoAssumption
      <2>2. QED
            BY <2>1, WalkCount
<1>6. Walk(par, tip)[n] \notin met
      <2>1. ASSUME NEW i \in 0 .. n - 1, Walk(par, tip)[i] = Walk(par, tip)[n] PROVE FALSE
            <3>1. i \in 0 .. n /\ i # n
                  BY <1>1
            <3>2. QED
                  BY <2>1, <3>1, WalkDistinct
      <2>2. QED
            BY <2>1
<1>7. Walk(par, tip)[n] \in State
      BY <1>1, <1>3
<1>. HIDE DEF met
<1>8. met = State
      BY <1>2, <1>5, RebaseAssumption, FS_Subset
<1>9. QED
      BY <1>6, <1>7, <1>8

\* How far an ancestor is, is where the walk meets it.
LEMMA DistanceIs ==
    ASSUME NEW par \in [State -> SUBSET State], Acyclic(par), NEW tip \in State,
           NEW base \in State, NEW n \in 0 .. Cardinality(State), Walk(par, tip)[n] = base
    PROVE  LinearTo(par, tip, base) /\ Distance(par, tip, base) = n
<1>. DEFINE N == Cardinality(State)
            d == Distance(par, tip, base)
<1>1. N \in Nat /\ DOMAIN Walk(par, tip) = 0 .. N
      BY WalkIs
<1>2. LinearTo(par, tip, base)
      BY <1>1 DEF LinearTo
<1>3. d \in 0 .. N /\ Walk(par, tip)[d] = base
      BY <1>2, CommitsIs
<1>4. base # NoState
      BY RepoAssumption
<1>. HIDE DEF d
<1>5. CASE d <= n
      <2>1. d \in 0 .. n
            BY <1>1, <1>3, <1>5
      <2>2. QED
            BY <1>2, <1>3, <1>4, <2>1, WalkDistinct DEF d
<1>6. CASE n <= d
      <2>1. n \in 0 .. d
            BY <1>1, <1>3, <1>6
      <2>2. QED
            BY <1>2, <1>3, <1>4, <2>1, WalkDistinct DEF d
<1>7. QED
      BY <1>1, <1>3, <1>5, <1>6

\* The walk from a state goes on as that from its only parent.
LEMMA WalkOnward ==
    ASSUME NEW par \in [State -> SUBSET State], NEW s \in State, NEW t \in State, par[s] = {t},
           NEW n \in 0 .. Cardinality(State) - 1
    PROVE  Walk(par, s)[n + 1] = Walk(par, t)[n]
<1>. DEFINE N == Cardinality(State)
            v == Walk(par, s)
            w == Walk(par, t)
            T == {k \in 0 .. N - 1 : v[k + 1] # w[k]}
<1>1. /\ N \in Nat
      /\ v[0] = s /\ \A k \in 1 .. N : v[k] = Link(par)[v[k - 1]]
      /\ w[0] = t /\ \A k \in 1 .. N : w[k] = Link(par)[w[k - 1]]
      BY WalkIs DEF Walks
<1>2. Link(par)[s] = t
      <2>1. IsLinear(par, s) /\ LinearParent(par, s) = t
            BY DEF IsLinear, LinearParent
      <2>2. QED
            BY <2>1, RepoAssumption DEF Link
<1>. HIDE DEF N, v, w
<1>3. T = {}
      <2>1. SUFFICES ASSUME T # {} PROVE FALSE
            OBVIOUS
      <2>0. T \in SUBSET Nat
            BY <1>1
      <2>2. PICK k \in T : \A j \in T : k <= j
            BY <1>1, <2>1, <2>0, LeastNumber
      <2>3. k # 0
            BY <1>1, <1>2, <2>2
      <2>4. k - 1 \notin T /\ k - 1 \in 0 .. N - 1 /\ k \in 1 .. N /\ k + 1 \in 1 .. N
            BY <1>1, <2>2, <2>3
      <2>5. v[k] = w[k - 1]
            BY <2>4
      <2>6. v[k + 1] = Link(par)[v[k]] /\ w[k] = Link(par)[w[k - 1]]
            BY <1>1, <2>4
      <2>7. QED
            BY <2>2, <2>5, <2>6
<1>4. QED
      BY <1>3 DEF N, v, w

\* Going on from any state that it meets.
LEMMA WalkFrom ==
    ASSUME NEW par \in [State -> SUBSET State], Acyclic(par),
           NEW s \in State, NEW j \in 0 .. Cardinality(State),
           NEW t \in State, NEW i \in 0 .. Cardinality(State), NEW n \in 0 .. Cardinality(State),
           Walk(par, s)[j] = Walk(par, t)[i], i <= n, Walk(par, t)[n] # NoState
    PROVE  /\ j + (n - i) \in 0 .. Cardinality(State)
           /\ Walk(par, s)[j + (n - i)] = Walk(par, t)[n]
<1>. DEFINE N == Cardinality(State)
            v == Walk(par, s)
            w == Walk(par, t)
            T == {k \in 0 .. n - i : ~(j + k \in 0 .. N /\ v[j + k] = w[i + k])}
<1>1. /\ N \in Nat
      /\ \A k \in 1 .. N : v[k] = Link(par)[v[k - 1]]
      /\ \A k \in 1 .. N : w[k] = Link(par)[w[k - 1]]
      BY WalkIs DEF Walks
<1>2. \A k \in 0 .. n : w[k] \in State
      BY WalkKnown
<1>3. ASSUME NEW k \in 0 .. N, v[k] # NoState PROVE k + 1 \in 0 .. N
      BY <1>3, WalkShort
<1>. HIDE DEF N, v, w
<1>4. i \in Nat /\ j \in Nat /\ n \in Nat /\ n - i \in Nat /\ i \in 0 .. N /\ n \in 0 .. N
      BY <1>1 DEF N
<1>5. T = {}
      <2>1. SUFFICES ASSUME T # {} PROVE FALSE
            OBVIOUS
      <2>0. T \in SUBSET Nat
            BY <1>4
      <2>2. PICK k \in T : \A l \in T : k <= l
            BY <1>4, <2>1, <2>0, LeastNumber
      <2>3. k # 0
            BY <1>1, <1>4, <2>2 DEF N, v, w
      <2>4. k - 1 \notin T /\ k - 1 \in 0 .. n - i
            BY <1>4, <2>2, <2>3
      <2>5. j + (k - 1) \in 0 .. N /\ v[j + (k - 1)] = w[i + (k - 1)]
            BY <2>4
      <2>6. i + (k - 1) \in 0 .. n /\ i + k \in 1 .. N /\ (i + k) - 1 = i + (k - 1)
            BY <1>1, <1>4, <2>2, <2>3
      <2>7. v[j + (k - 1)] # NoState
            BY <1>2, <2>5, <2>6, RepoAssumption
      <2>8. (j + (k - 1)) + 1 \in 0 .. N
            BY <1>3, <2>5, <2>7
      <2>9. j + k \in 1 .. N /\ (j + k) - 1 = j + (k - 1)
            BY <1>1, <1>4, <2>2, <2>3, <2>8
      <2>10. v[j + k] = Link(par)[v[j + (k - 1)]] /\ w[i + k] = Link(par)[w[i + (k - 1)]]
            BY <1>1, <2>6, <2>9
      <2>11. QED
            BY <2>2, <2>5, <2>9, <2>10
<1>6. n - i \in 0 .. n - i /\ i + (n - i) = n
      BY <1>4
<1>7. j + (n - i) \in 0 .. N /\ v[j + (n - i)] = w[i + (n - i)]
      BY <1>5, <1>6
<1>8. QED
      BY <1>6, <1>7 DEF N, v, w

\* A commit on top of an ancestor's descendant is one further away.
LEMMA DistanceGrows ==
    ASSUME NEW par \in [State -> SUBSET State], Acyclic(par), NEW s \in State, NEW t \in State,
           par[s] = {t}, NEW base \in State, LinearTo(par, t, base)
    PROVE  LinearTo(par, s, base) /\ Distance(par, s, base) = Distance(par, t, base) + 1
<1>. DEFINE N == Cardinality(State)
            d == Distance(par, t, base)
<1>1. d \in 0 .. N /\ Walk(par, t)[d] = base /\ N \in Nat
      BY CommitsIs, WalkIs
<1>. HIDE DEF d
<1>2. d + 1 \in 0 .. N
      BY <1>1, WalkShort, RepoAssumption
<1>3. d \in 0 .. N - 1
      BY <1>1, <1>2
<1>4. Walk(par, s)[d + 1] = base
      BY <1>1, <1>3, WalkOnward
<1>5. LinearTo(par, s, base) /\ Distance(par, s, base) = d + 1
      BY <1>2, <1>4, DistanceIs
<1>6. QED
      BY <1>5 DEF d

\* The walk from inside a parent-closed part depends on that part only.
LEMMA WalkKept ==
    ASSUME NEW par \in [State -> SUBSET State], NEW new \in [State -> SUBSET State],
           NEW C \in SUBSET State, ParentClosed(par, C), \A s \in C : new[s] = par[s],
           NEW tip \in C
    PROVE  Walk(new, tip) = Walk(par, tip)
<1>. DEFINE N == Cardinality(State)
            v == Walk(new, tip)
            w == Walk(par, tip)
            T == {k \in 0 .. N : ~(v[k] = w[k] /\ w[k] \in C \cup {NoState})}
<1>1. /\ N \in Nat
      /\ v \in [0 .. N -> State \cup {NoState}] /\ w \in [0 .. N -> State \cup {NoState}]
      /\ v[0] = tip /\ \A k \in 1 .. N : v[k] = Link(new)[v[k - 1]]
      /\ w[0] = tip /\ \A k \in 1 .. N : w[k] = Link(par)[w[k - 1]]
      BY WalkIs DEF Walks
<1>2. ASSUME NEW s \in C \cup {NoState}
      PROVE  Link(new)[s] = Link(par)[s] /\ Link(par)[s] \in C \cup {NoState}
      <2>1. CASE s = NoState
            BY <2>1 DEF Link
      <2>2. CASE s # NoState
            <3>1. s \in C /\ new[s] = par[s] /\ par[s] \subseteq C
                  BY <2>2 DEF ParentClosed
            <3>2. /\ IsLinear(new, s) <=> IsLinear(par, s)
                  /\ LinearParent(new, s) = LinearParent(par, s)
                  BY <3>1 DEF IsLinear, LinearParent
            <3>3. IsLinear(par, s) => LinearParent(par, s) \in C
                  BY <3>1 DEF IsLinear, LinearParent
            <3>4. QED
                  BY <2>2, <3>1, <3>2, <3>3 DEF Link
      <2>3. QED
            BY <2>1, <2>2
<1>. HIDE DEF N, v, w
<1>3. T = {}
      <2>1. SUFFICES ASSUME T # {} PROVE FALSE
            OBVIOUS
      <2>0. T \in SUBSET Nat
            BY <1>1
      <2>2. PICK k \in T : \A j \in T : k <= j
            BY <1>1, <2>1, <2>0, LeastNumber
      <2>3. k # 0
            BY <1>1, <2>2
      <2>4. k - 1 \notin T /\ k - 1 \in 0 .. N /\ k \in 1 .. N
            BY <1>1, <2>2, <2>3
      <2>5. v[k - 1] = w[k - 1] /\ w[k - 1] \in C \cup {NoState}
            BY <2>4
      <2>6. v[k] = Link(new)[v[k - 1]] /\ w[k] = Link(par)[w[k - 1]]
            BY <1>1, <2>4
      <2>7. QED
            BY <1>2, <2>2, <2>5, <2>6
<1>4. \A k \in 0 .. N : v[k] = w[k]
      BY <1>3
<1>5. QED
      BY <1>1, <1>4 DEF v, w

-----------------------------------------------------------------------------
(* What a branch has that another lacks.                                   *)

\* No state has two parents.
Unmerged(par) == \A s \in DOMAIN par : par[s] = {} \/ IsLinear(par, s)

\* Where nothing was merged, the walk from a tip meets all that the tip reaches.
LEMMA WalkMeets ==
    ASSUME NEW par \in [State -> SUBSET State], Acyclic(par), Unmerged(par), NEW tip \in State,
           NEW a \in Reachable(par, {tip})
    PROVE  \E n \in 0 .. Cardinality(State) : Walk(par, tip)[n] = a
<1>. DEFINE N == Cardinality(State)
            w == Walk(par, tip)
            C == {w[n] : n \in 0 .. N} \ {NoState}
<1>1. /\ N \in Nat /\ w \in [0 .. N -> State \cup {NoState}] /\ w[0] = tip
      /\ \A k \in 1 .. N : w[k] = Link(par)[w[k - 1]]
      BY WalkIs DEF Walks
<1>2. ASSUME NEW n \in 0 .. N, w[n] # NoState
      PROVE  n + 1 \in 1 .. N
      BY <1>1, <1>2, WalkShort
<1>. HIDE DEF N, w
<1>3. ASSUME NEW s \in C, NEW t \in par[s] PROVE t \in C
      <2>1. PICK n \in 0 .. N : w[n] = s /\ w[n] # NoState
            OBVIOUS
      <2>2. n + 1 \in 1 .. N /\ (n + 1) - 1 = n
            BY <1>1, <1>2, <2>1
      <2>3. s \in State /\ IsLinear(par, s)
            BY <1>1, <1>3, <2>1 DEF Unmerged
      <2>4. LinearParent(par, s) = t /\ t \in State
            BY <1>3, <2>3 DEF IsLinear, LinearParent
      <2>5. w[n + 1] = t
            BY <1>1, <2>1, <2>2, <2>3, <2>4 DEF Link
      <2>6. n + 1 \in 0 .. N
            BY <1>1, <2>2
      <2>7. QED
            BY <2>4, <2>5, <2>6, RepoAssumption
<1>4. ParentClosed(par, C)
      BY <1>3 DEF ParentClosed
<1>5. C \in SUBSET DOMAIN par
      BY <1>1
<1>6. {tip} \subseteq C
      <2>1. 0 \in 0 .. N
            BY <1>1
      <2>2. QED
            BY <1>1, <2>1, RepoAssumption
<1>. DEFINE R == Reachable(par, {tip})
<1>7. R \subseteq C
      BY <1>4, <1>5, <1>6, ReachableLeast
<1>8. \A x \in C : \E n \in 0 .. N : w[n] = x
      OBVIOUS
<1>. HIDE DEF C, R
<1>9. a \in C
      BY <1>7 DEF R
<1>10. QED
      BY <1>8, <1>9 DEF N, w

\* The levels of the breadth-first walk are then the steps of this one.
LEMMA LevelsAre ==
    ASSUME NEW par \in [State -> SUBSET State], Unmerged(par), NEW tip \in State
    PROVE  Levels(par, tip) = [n \in 0 .. Cardinality(State) |-> {Walk(par, tip)[n]} \ {NoState}]
<1>. DEFINE N == Cardinality(State)
            w == Walk(par, tip)
            Below(f, n) == UNION {par[t] : t \in f[n - 1]}
            AreLevels(f) == f = [n \in 0 .. N |-> IF n = 0 THEN {tip} ELSE Below(f, n)]
            l == [n \in 0 .. N |-> {w[n]} \ {NoState}]
            g == Levels(par, tip)
<1>1. /\ N \in Nat /\ w \in [0 .. N -> State \cup {NoState}] /\ w[0] = tip
      /\ \A k \in 1 .. N : w[k] = Link(par)[w[k - 1]]
      BY WalkIs DEF Walks
<1>2. g = CHOOSE f : AreLevels(f)
      <2>1. DOMAIN par = State
            OBVIOUS
      <2>2. QED
            BY <2>1 DEF Levels
<1>. HIDE DEF N, w, g
<1>3. ASSUME NEW f, NEW n \in 1 .. N, f[n - 1] = {w[n - 1]} \ {NoState}
      PROVE  Below(f, n) = {w[n]} \ {NoState}
      <2>1. n \in 1 .. N /\ w[n] = Link(par)[w[n - 1]] /\ w[n - 1] \in State \cup {NoState}
            <3>1. n - 1 \in 0 .. N
                  BY <1>1
            <3>2. QED
                  BY <1>1, <3>1
      <2>2. CASE w[n - 1] = NoState
            BY <1>3, <2>1, <2>2 DEF Link
      <2>3. CASE w[n - 1] # NoState
            <3>1. w[n - 1] \in State /\ Below(f, n) = par[w[n - 1]]
                  BY <1>3, <2>1, <2>3
            <3>2. CASE IsLinear(par, w[n - 1])
                  <4>1. w[n] = LinearParent(par, w[n - 1])
                        BY <2>1, <2>3, <3>1, <3>2 DEF Link
                  <4>2. par[w[n - 1]] = {w[n]} /\ w[n] \in State
                        BY <3>1, <3>2, <4>1 DEF IsLinear, LinearParent
                  <4>3. QED
                        BY <3>1, <4>2, RepoAssumption
            <3>3. CASE ~IsLinear(par, w[n - 1])
                  <4>1. w[n] = NoState
                        BY <2>1, <3>1, <3>3 DEF Link
                  <4>2. par[w[n - 1]] = {}
                        BY <3>1, <3>3 DEF Unmerged
                  <4>3. QED
                        BY <3>1, <4>1, <4>2
            <3>4. QED
                  BY <3>2, <3>3
      <2>4. QED
            BY <2>2, <2>3
<1>4. AreLevels(l)
      <2>1. ASSUME NEW n \in 0 .. N
            PROVE  l[n] = IF n = 0 THEN {tip} ELSE Below(l, n)
            <3>1. CASE n = 0
                  BY <1>1, <3>1, RepoAssumption
            <3>2. CASE n # 0
                  <4>1. n \in 1 .. N /\ n - 1 \in 0 .. N
                        BY <1>1, <3>2
                  <4>2. l[n - 1] = {w[n - 1]} \ {NoState} /\ l[n] = {w[n]} \ {NoState}
                        BY <4>1
                  <4>. HIDE DEF l, Below
                  <4>3. QED
                        BY <1>3, <3>2, <4>1, <4>2
            <3>3. QED
                  BY <3>1, <3>2
      <2>2. DOMAIN l = 0 .. N /\ l = [n \in 0 .. N |-> l[n]]
            OBVIOUS
      <2>. HIDE DEF l, Below
      <2>3. QED
            BY <2>1, <2>2
<1>. HIDE DEF AreLevels
<1>5. AreLevels(g)
      BY <1>2, <1>4
<1>6. /\ DOMAIN g = 0 .. N /\ g = [n \in 0 .. N |-> g[n]]
      /\ \A n \in 0 .. N : g[n] = IF n = 0 THEN {tip} ELSE Below(g, n)
      <2>. HIDE DEF Below
      <2>1. g = [n \in 0 .. N |-> IF n = 0 THEN {tip} ELSE Below(g, n)]
            BY <1>5 DEF AreLevels
      <2>2. DOMAIN g = 0 .. N
            BY <2>1, Zenon
      <2>3. \A n \in 0 .. N : g[n] = IF n = 0 THEN {tip} ELSE Below(g, n)
            BY <2>1, Zenon
      <2>4. g = [n \in 0 .. N |-> g[n]]
            BY <2>1, <2>2, <2>3
      <2>5. QED
            BY <2>2, <2>3, <2>4
<1>. HIDE DEF Below
<1>7. \A n \in 0 .. N : g[n] = {w[n]} \ {NoState}
      <2>. DEFINE T == {n \in 0 .. N : g[n] # {w[n]} \ {NoState}}
      <2>1. SUFFICES ASSUME T # {} PROVE FALSE
            OBVIOUS
      <2>0. T \in SUBSET Nat
            BY <1>1
      <2>2. PICK n \in T : \A k \in T : n <= k
            BY <1>1, <2>1, <2>0, LeastNumber
      <2>3. n # 0
            BY <1>1, <1>6, <2>2, RepoAssumption
      <2>4. n \in 1 .. N /\ n - 1 \in 0 .. N /\ n - 1 \notin T
            BY <1>1, <2>2, <2>3
      <2>5. g[n - 1] = {w[n - 1]} \ {NoState}
            BY <2>4
      <2>6. g[n] = Below(g, n)
            BY <1>6, <2>2, <2>3
      <2>7. QED
            BY <1>3, <2>2, <2>4, <2>5, <2>6
<1>8. g = [n \in 0 .. N |-> {w[n]} \ {NoState}]
      BY <1>6, <1>7
<1>9. QED
      BY <1>8 DEF g, N, w

\* And the depth of an ancestor is where the walk meets it.
LEMMA DepthIs ==
    ASSUME NEW par \in [State -> SUBSET State], Acyclic(par), Unmerged(par), NEW tip \in State,
           NEW n \in 0 .. Cardinality(State), Walk(par, tip)[n] \in State
    PROVE  /\ Walk(par, tip)[n] \in DOMAIN Depths(par, tip)
           /\ Depths(par, tip)[Walk(par, tip)[n]] = n
<1>. DEFINE N == Cardinality(State)
            w == Walk(par, tip)
            a == w[n]
            l == Levels(par, tip)
<1>1. /\ N \in Nat /\ n \in Nat /\ w[0] = tip
      /\ DOMAIN l = 0 .. N /\ \A k \in 0 .. N : l[k] = {w[k]} \ {NoState}
      BY WalkIs, LevelsAre DEF Walks
<1>2. a \in Reachable(par, {tip})
      <2>1. 0 \in 0 .. n /\ w[n] # NoState
            BY <1>1, RepoAssumption
      <2>2. w[n] \in Reachable(par, {w[0]})
            BY <2>1, WalkReaches
      <2>3. QED
            BY <1>1, <2>2
<1>3. Depths(par, tip)[a] = CHOOSE k \in DOMAIN l : a \in l[k] /\ \A m \in 0 .. k - 1 : a \notin l[m]
      BY <1>2 DEF Depths
<1>4. ASSUME NEW k \in 0 .. N, a \in l[k] PROVE k = n
      <2>1. w[k] = w[n] /\ w[n] # NoState
            BY <1>1, <1>4
      <2>2. CASE k <= n
            <3>1. k \in 0 .. n
                  BY <1>1, <2>2
            <3>2. QED
                  BY <2>1, <3>1, WalkDistinct
      <2>3. CASE n <= k
            <3>1. n \in 0 .. k
                  BY <1>1, <2>3
            <3>2. QED
                  BY <2>1, <3>1, WalkDistinct
      <2>4. QED
            BY <1>1, <2>2, <2>3
<1>5. n \in DOMAIN l /\ a \in l[n]
      BY <1>1, RepoAssumption
<1>6. \A m \in 0 .. n - 1 : a \notin l[m]
      <2>1. ASSUME NEW m \in 0 .. n - 1, a \in l[m] PROVE FALSE
            <3>1. m \in 0 .. N /\ m # n
                  BY <1>1
            <3>2. QED
                  BY <1>4, <2>1, <3>1
      <2>2. QED
            BY <2>1
<1>. HIDE DEF a, l
<1>7. \A k \in DOMAIN l : a \in l[k] /\ (\A m \in 0 .. k - 1 : a \notin l[m]) => k = n
      BY <1>1, <1>4
<1>8. Depths(par, tip)[a] = n
      BY <1>3, <1>5, <1>6, <1>7
<1>9. a \in DOMAIN Depths(par, tip)
      BY <1>2 DEF Depths
<1>10. QED
      BY <1>8, <1>9 DEF a

\* The commits that a rebase queues: the walk from the tip down to the base.
Met(par, tip, n) == {Walk(par, tip)[i] : i \in 0 .. n - 1}

\* All that the other branch lacks is queued, for any history.
LEMMA LackingIsMet ==
    ASSUME NEW par \in [State -> SUBSET State], NEW tip \in State, NEW other \in State,
           NEW base \in State, IsAncestorOf(par, base, other), LinearTo(par, tip, base)
    PROVE  Lacking(par, tip, other) \subseteq Met(par, tip, Distance(par, tip, base))
<1>. DEFINE w == Walk(par, tip)
            n == Distance(par, tip, base)
            below == Reachable(par, {base})
            met == Met(par, tip, n)
            C == met \cup below
<1>1. n \in 0 .. Cardinality(State) /\ n \in Nat /\ w[n] = base
      <2>1. n \in 0 .. Cardinality(State) /\ w[n] = base
            BY CommitsIs
      <2>2. QED
            BY <2>1, WalkIs
<1>. HIDE DEF n
<1>2. /\ \A i \in 0 .. n : w[i] \in State
      /\ \A i \in 1 .. n : par[w[i - 1]] = {w[i]}
      BY <1>1, WalkKnown, RepoAssumption
<1>3. w[0] = tip
      BY WalkIs DEF Walks
<1>4. below \subseteq Reachable(par, {other})
      <2>1. base \in Reachable(par, {other})
            BY DEF IsAncestorOf
      <2>2. QED
            BY <2>1, AncestorsNest
<1>5. base \in below /\ below \subseteq State /\ ParentClosed(par, below)
      BY AncestorSelf, ReachableClosed
<1>. HIDE DEF w, below
<1>6. \A i \in 0 .. n : w[i] \in C
      <2>1. ASSUME NEW i \in 0 .. n PROVE w[i] \in C
            <3>1. CASE i = n
                  BY <1>1, <1>5, <3>1
            <3>2. CASE i # n
                  <4>1. i \in 0 .. n - 1
                        BY <1>1, <3>2
                  <4>2. QED
                        BY <4>1 DEF Met, w
            <3>3. QED
                  BY <3>1, <3>2
      <2>2. QED
            BY <2>1
<1>7. ParentClosed(par, C)
      <2>1. ASSUME NEW s \in met PROVE par[s] \subseteq C
            <3>1. PICK i \in 0 .. n - 1 : s = w[i]
                  BY DEF Met, w
            <3>2. i + 1 \in 1 .. n /\ (i + 1) - 1 = i /\ i + 1 \in 0 .. n
                  BY <1>1
            <3>3. par[s] = {w[i + 1]}
                  BY <1>2, <3>1, <3>2
            <3>4. QED
                  BY <1>6, <3>2, <3>3
      <2>2. QED
            BY <1>5, <2>1 DEF ParentClosed
<1>8. C \in SUBSET DOMAIN par
      <2>1. met \subseteq State
            <3>1. \A i \in 0 .. n - 1 : i \in 0 .. n
                  BY <1>1
            <3>2. QED
                  BY <1>2, <3>1 DEF Met, w
      <2>2. QED
            BY <1>5, <2>1
<1>9. {tip} \subseteq C
      <2>1. 0 \in 0 .. n
            BY <1>1
      <2>2. QED
            BY <1>3, <1>6, <2>1
<1>. DEFINE R == Reachable(par, {tip})
<1>. HIDE DEF C
<1>10. R \subseteq C
      BY <1>7, <1>8, <1>9, ReachableLeast
<1>11. QED
      BY <1>4, <1>10 DEF Lacking, C, n

\* And nothing else, where nothing was merged: an ancestor of both above the base would be
\* nearer to both.
LEMMA LackingIs ==
    ASSUME NEW par \in [State -> SUBSET State], Acyclic(par), Unmerged(par),
           NEW tip \in State, NEW other \in State,
           NEW base \in MergeBases(par, tip, other), LinearTo(par, tip, base)
    PROVE  /\ Lacking(par, tip, other) = Met(par, tip, Distance(par, tip, base))
           /\ Cardinality(Lacking(par, tip, other)) = Distance(par, tip, base)
<1>. DEFINE N == Cardinality(State)
            w == Walk(par, tip)
            u == Walk(par, other)
            n == Distance(par, tip, base)
            met == Met(par, tip, n)
            fromA == Depths(par, tip)
            fromB == Depths(par, other)
            common == DOMAIN fromA \cap DOMAIN fromB
<1>1. IsAncestorOf(par, base, tip) /\ IsAncestorOf(par, base, other)
      BY BaseIsAncestor
<1>2. base \in State
      BY <1>1 DEF IsAncestorOf, Reachable
<1>3. n \in 0 .. N /\ n \in Nat /\ w[n] = base /\ N \in Nat
      <2>1. n \in 0 .. N /\ w[n] = base /\ N \in Nat
            BY <1>2, CommitsIs, WalkIs
      <2>2. QED
            BY <2>1
<1>. HIDE DEF n, N
<1>4. \A i \in 0 .. n : w[i] \in State
      BY <1>2, <1>3, WalkKnown, RepoAssumption DEF N
<1>5. ASSUME NEW i \in 0 .. n - 1, w[i] \in Reachable(par, {other}) PROVE FALSE
      <2>. DEFINE a == w[i]
      <2>1. i \in 0 .. n /\ i \in 0 .. N /\ i <= n /\ a \in State
            BY <1>3, <1>4
      <2>2. PICK j \in 0 .. N : u[j] = a
            BY <1>5, WalkMeets DEF N
      <2>3. j + (n - i) \in 0 .. N /\ u[j + (n - i)] = base
            <3>1. w[n] # NoState
                  BY <1>2, <1>3, RepoAssumption
            <3>2. QED
                  BY <1>3, <2>1, <2>2, <3>1, WalkFrom DEF N
      <2>4. /\ a \in DOMAIN fromA /\ fromA[a] = i
            /\ base \in DOMAIN fromA /\ fromA[base] = n
            BY <1>2, <1>3, <2>1, DepthIs DEF N
      <2>5. /\ a \in DOMAIN fromB /\ fromB[a] = j
            /\ base \in DOMAIN fromB /\ fromB[base] = j + (n - i)
            <3>1. u[j] \in State /\ u[j + (n - i)] \in State
                  BY <1>2, <2>1, <2>2, <2>3
            <3>2. QED
                  BY <2>2, <2>3, <3>1, DepthIs DEF N
      <2>6. fromA[base] + fromB[base] <= fromA[a] + fromB[a]
            <3>1. LET total == [x \in common |-> fromA[x] + fromB[x]]
                  IN  \A y \in common : total[base] <= total[y]
                  BY DEF MergeBases
            <3>2. base \in common /\ a \in common
                  BY <2>4, <2>5
            <3>. HIDE DEF a, fromA, fromB
            <3>3. QED
                  BY <3>1, <3>2
      <2>7. n + (j + (n - i)) <= i + j
            BY <2>4, <2>5, <2>6
      <2>8. QED
            BY <1>3, <2>1, <2>7
<1>6. met \subseteq Reachable(par, {tip})
      <2>1. ASSUME NEW i \in 0 .. n - 1 PROVE w[i] \in Reachable(par, {tip})
            <3>1. i \in 0 .. N /\ w[i] \in State /\ 0 \in 0 .. i
                  BY <1>3, <1>4
            <3>2. w[0] = tip
                  BY WalkIs DEF Walks
            <3>3. w[i] \in Reachable(par, {w[0]})
                  BY <3>1, WalkReaches, RepoAssumption DEF N
            <3>4. QED
                  BY <3>2, <3>3
      <2>2. QED
            BY <2>1 DEF Met
<1>7. met \subseteq Lacking(par, tip, other)
      BY <1>5, <1>6 DEF Met, Lacking
<1>8. Lacking(par, tip, other) \subseteq met
      BY <1>1, <1>2, LackingIsMet DEF n
<1>9. Cardinality(met) = n
      <2>1. n = 0 \/ w[n - 1] # NoState
            <3>1. n = 0 \/ n - 1 \in 0 .. n
                  BY <1>3
            <3>2. QED
                  BY <1>4, <3>1, RepoAssumption
      <2>2. QED
            BY <1>3, <2>1, WalkCount DEF Met, N
<1>10. Lacking(par, tip, other) = met
      BY <1>7, <1>8
<1>. HIDE DEF met
<1>11. Cardinality(Lacking(par, tip, other)) = n
      BY <1>9, <1>10
<1>12. QED
      BY <1>10, <1>11 DEF n, met

-----------------------------------------------------------------------------
(* The inductive invariant behind ReplayTypeOK.                            *)

\* The command in flight holds the lock, and its process runs nothing of Repo.
JobInv ==
    job # NoJob =>
        /\ job \in Job
        /\ holder = job.proc /\ pc[job.proc] = "idle"

\* The queue names entries, and a replay that stopped is that of its first commit.
QueueInv ==
    queue # NoQueue =>
        /\ queue \in Queue
        /\ {queue.onto, queue.original, queue.current} \subseteq timeline
        /\ queue.conflicted # NoState =>
              queue.remaining # <<>> /\ queue.conflicted = Head(queue.remaining)

StackInv ==
    /\ stack \in Seq(StashId)
    /\ DOMAIN entry \subseteq StashId /\ entry \in [DOMAIN entry -> Stashed]

\* What a job needs at the step it is at.
StepInv ==
    job # NoJob =>
        /\ job.step \in {"replay", "persist", "ref", "queue"} => queue # NoQueue
        /\ job.step \in {"ref", "queue"} => job.target \in timeline
        /\ job.step \in {"persist", "queue"} => queue.remaining # <<>>
        /\ job.step = "ref" /\ job.kind # "abort" => queue.remaining # <<>>
        /\ job.step = "stack" => NextId \in StashId
        /\ \/ job.step = "unstack"
           \/ job.step \in {"tree", "index", "staging"} /\ job.last = "unstack"
           => job.pos \in DOMAIN stack

ReplayInv == RepoInv /\ JobInv /\ QueueInv /\ StackInv /\ StepInv

LEMMA NewJobType ==
    ASSUME NEW p \in Proc, NEW force \in BOOLEAN,
           NEW kind \in {"rebase", "continue", "abort", "push", "apply", "pop", "drop", "clear"},
           NEW step \in {"replay", "persist", "ref", "queue", "tree", "index", "staging",
                         "unqueue", "stack", "unstack", "remove", "done"}
    PROVE  NewJob(p, kind, step, force) \in Job
BY RepoAssumption DEF NewJob, Job, NoFiles, Files

\* A step that writes no store but the index files and the tree.
LEMMA QuietRepoInv ==
    ASSUME RepoInv, UNCHANGED <<commit, timeline, blobs, refs, head, pc, cmd>>, TypeOK',
           holder = NoProc \/ holder' = holder \/ pc[holder] = "idle"
    PROVE  RepoInv'
<1>. USE DEF RepoInv
<1>1. LockInv'
      <2>1. SUFFICES ASSUME NEW p \in Proc, pc[p] # "idle",
                            NoVerify \subseteq {TRUE} \/ cmd[p].kind \notin {"commit", "merge"}
                     PROVE  holder' = p
            BY DEF LockInv
      <2>2. holder = p
            BY <2>1 DEF LockInv
      <2>3. QED
            BY <2>1, <2>2, RepoAssumption
<1>2. TipsInv' /\ TimelineInv' /\ FlightInv'
      BY DEF TipsInv, TimelineInv, FlightInv, HeadState, Parents, FilesOf, Contents, Creates
<1>3. QED
      BY <1>1, <1>2

\* A job that begins or ends, or goes on without writing a store.
LEMMA QuietStoresInv ==
    ASSUME RepoInv, UNCHANGED <<stores, pc, cmd>>, holder' \in Proc \cup {NoProc},
           holder = NoProc \/ holder' = holder \/ pc[holder] = "idle"
    PROVE  RepoInv'
<1>1. UNCHANGED <<commit, timeline, blobs, refs, head, index, staging, work>>
      BY DEF stores
<1>2. TypeOK'
      BY <1>1 DEF TypeOK, RepoInv
<1>3. QED
      BY <1>1, <1>2, QuietRepoInv

\* What the files of a known state are.
LEMMA KnownFiles ==
    ASSUME RepoInv, NEW s \in timeline
    PROVE  FilesOf(s) \in Files /\ s \in State
BY FilesType DEF RepoInv, TypeOK

\* Merging contents that are known gives a content, an absence or a conflict.
LEMMA OutcomeType ==
    ASSUME NEW b \in Files, NEW l \in Files, NEW r \in Files
    PROVE  Outcome(b, l, r) \in [Path -> Content \cup {Absent, Conflict}]
BY DEF Outcome, Merged, Files

LEMMA CleanFiles ==
    ASSUME NEW plan \in [Path -> Content \cup {Absent, Conflict}], Clean(plan)
    PROVE  plan \in Files
BY DEF Clean, Files

\* Bringing the tree to a known state makes a good job of a good job.
LEMMA MaterializingType ==
    ASSUME RepoInv, NEW j \in Job, NEW s \in timeline, NEW last \in {"done", "unqueue"}
    PROVE  Materializing(j, s, last) \in Job
<1>1. FilesOf(s) \in Files /\ s \in State
      BY KnownFiles
<1>2. Kept(FilesOf(s)) \in SUBSET Path /\ Stale(FilesOf(s)) \in SUBSET Path
      BY DEF Kept, Stale
<1>3. QED
      BY <1>1, <1>2 DEF Materializing, Job
-----------------------------------------------------------------------------
(* Each step preserves it: the steps of rebase.                            *)

LEMMA ParentsTyped ==
    ASSUME RepoInv
    PROVE  Parents \in [State -> SUBSET State]
BY ParentsType DEF RepoInv

\* The merge that replays a commit is over files, and so is what it shows.
LEMMA PlanType ==
    ASSUME ReplayInv, queue # NoQueue, NEW c, CanReplay(c)
    PROVE  /\ Plan(c) \in [Path -> Content \cup {Absent, Conflict}]
           /\ FilesOf(queue.current) \in Files
           /\ FilesOf(c) \in Files /\ ParentFiles(c) \in Files
<1>1. {c, LinearParent(Parents, c), queue.current} \subseteq timeline
      BY DEF CanReplay, Loadable
<1>2. FilesOf(queue.current) \in Files /\ FilesOf(c) \in Files /\ ParentFiles(c) \in Files
      BY <1>1, KnownFiles DEF ReplayInv, ParentFiles
<1>3. QED
      BY <1>2, OutcomeType DEF Plan

\* A command takes the lock, goes on, or ends, and writes none of the stores of Repo.
LEMMA JobBegins ==
    ASSUME ReplayInv, NEW p \in Proc, CanTake(p), Quiet, holder' = p, job' \in Job, job'.proc = p
    PROVE  RepoInv' /\ JobInv'
<1>1. holder = NoProc /\ pc[p] = "idle" /\ UNCHANGED <<stores, pc, cmd>>
      BY DEF CanTake, Free, Quiet
<1>2. RepoInv'
      BY <1>1, QuietStoresInv DEF ReplayInv
<1>3. JobInv'
      BY <1>1 DEF JobInv
<1>4. QED
      BY <1>2, <1>3

LEMMA JobGoesOn ==
    ASSUME ReplayInv, job # NoJob, Quiet, holder' = holder, job' \in Job, job'.proc = job.proc
    PROVE  RepoInv' /\ JobInv'
<1>1. UNCHANGED <<stores, pc, cmd>> /\ holder' \in Proc \cup {NoProc}
      BY DEF Quiet, ReplayInv, RepoInv, TypeOK
<1>2. RepoInv'
      BY <1>1, QuietStoresInv DEF ReplayInv
<1>3. JobInv'
      BY <1>1 DEF JobInv, ReplayInv
<1>4. QED
      BY <1>2, <1>3

LEMMA JobEnds ==
    ASSUME ReplayInv, job # NoJob, Quiet, End
    PROVE  RepoInv' /\ JobInv' /\ StepInv'
<1>1. UNCHANGED <<stores, pc, cmd>> /\ holder' = NoProc /\ job' = NoJob /\ pc[holder] = "idle"
      BY DEF Quiet, End, ReplayInv, JobInv
<1>2. RepoInv'
      BY <1>1, QuietStoresInv DEF ReplayInv
<1>3. QED
      BY <1>1, <1>2 DEF JobInv, StepInv

LEMMA QueueKept ==
    ASSUME QueueInv, queue' = queue, timeline \subseteq timeline'
    PROVE  QueueInv'
BY DEF QueueInv

LEMMA StackKept ==
    ASSUME StackInv, UNCHANGED stashVars
    PROVE  StackInv'
BY DEF StackInv, stashVars

LEMMA RebaseStartInv ==
    ASSUME ReplayInv, NEW p \in Proc, NEW upstream \in Resolvable, NEW force \in BOOLEAN,
           RebaseStart(p, upstream, force), UNCHANGED stashVars
    PROVE  ReplayInv'
<1>. USE DEF ReplayInv
<1>1. /\ holder = NoProc /\ pc[p] = "idle" /\ holder' = p /\ UNCHANGED <<stores, pc, cmd>>
      /\ job' = NewJob(p, "rebase", "replay", force)
      BY DEF RebaseStart, CanTake, Free, Quiet
<1>2. RepoInv'
      BY <1>1, QuietStoresInv
<1>3. job' \in Job
      BY <1>1, NewJobType
<1>4. HeadState \in timeline /\ upstream \in timeline /\ timeline \subseteq State
      BY ResolvableKnown DEF RepoInv, TipsInv, TypeOK
<1>5. PICK base \in MergeBases(Parents, HeadState, upstream) :
          /\ LinearTo(Parents, HeadState, base)
          /\ queue' = [branch |-> head, onto |-> upstream, original |-> HeadState,
                       current |-> upstream, remaining |-> Commits(Parents, HeadState, base),
                       conflicted |-> NoState]
      BY DEF RebaseStart
<1>6. base \in State
      BY <1>5, BaseIsAncestor, ParentsTyped DEF IsAncestorOf, Reachable
<1>7. Commits(Parents, HeadState, base) \in Seq(State)
      BY <1>4, <1>5, <1>6, CommitsIs, ParentsTyped
<1>8. queue' \in Queue /\ queue'.conflicted = NoState
      BY <1>4, <1>5, <1>7 DEF RebaseStart, Queue
<1>9. QueueInv'
      BY <1>1, <1>4, <1>5, <1>8 DEF QueueInv, stores
<1>10. JobInv'
      BY <1>1, <1>3 DEF JobInv, NewJob
<1>11. StackInv'
      BY DEF StackInv, stashVars
<1>12. job'.step = "replay" /\ job'.last = "done"
      BY <1>1 DEF NewJob
<1>13. QED
      BY <1>2, <1>8, <1>9, <1>10, <1>11, <1>12, RebaseAssumption DEF StepInv

LEMMA ContinueInv ==
    ASSUME ReplayInv, NEW p \in Proc, NEW force \in BOOLEAN, Continue(p, force),
           UNCHANGED stashVars
    PROVE  ReplayInv'
<1>1. PICK f \in Resolutions(queue.conflicted) :
          job' = [NewJob(p, "continue", "persist", force) EXCEPT !.files = f]
      BY DEF Continue
<1>2. f \in Files
      BY DEF Resolutions
<1>3. NewJob(p, "continue", "persist", force) \in Job
      BY NewJobType
<1>4. job' \in Job /\ job'.step = "persist" /\ job'.last = "done" /\ job'.proc = p
      BY <1>1, <1>2, <1>3 DEF NewJob, Job
<1>5. RepoInv' /\ JobInv'
      BY <1>4, JobBegins DEF Continue
<1>6. QueueInv' /\ StackInv'
      BY QueueKept, StackKept DEF ReplayInv, Continue, Quiet, stores
<1>7. queue' # NoQueue /\ queue'.remaining # <<>>
      BY DEF Continue, ReplayInv, QueueInv
<1>8. StepInv'
      BY <1>4, <1>7 DEF StepInv
<1>9. QED
      BY <1>5, <1>6, <1>8 DEF ReplayInv

LEMMA AbortInv ==
    ASSUME ReplayInv, NEW p \in Proc, Abort(p), UNCHANGED stashVars
    PROVE  ReplayInv'
<1>1. queue # NoQueue /\ queue.original \in timeline /\ queue.original \in State
      BY KnownFiles DEF Abort, ReplayInv, QueueInv
<1>2. NewJob(p, "abort", "ref", TRUE) \in Job
      BY NewJobType
<1>3. /\ job' \in Job /\ job'.step = "ref" /\ job'.last = "done" /\ job'.proc = p
      /\ job'.kind = "abort" /\ job'.target = queue.original
      BY <1>1, <1>2 DEF NewJob, Job, Abort
<1>4. RepoInv' /\ JobInv'
      BY <1>3, JobBegins DEF Abort
<1>5. QueueInv' /\ StackInv' /\ timeline' = timeline /\ queue' = queue
      BY QueueKept, StackKept DEF ReplayInv, Abort, Quiet, stores
<1>6. StepInv'
      BY <1>1, <1>3, <1>5 DEF StepInv
<1>7. QED
      BY <1>4, <1>5, <1>6 DEF ReplayInv

LEMMA ReplayCleanInv ==
    ASSUME ReplayInv, ReplayClean, UNCHANGED stashVars
    PROVE  ReplayInv'
<1>. DEFINE c == Head(queue.remaining)
<1>1. /\ job # NoJob /\ job.step = "replay" /\ queue.remaining # <<>> /\ queue # NoQueue
      /\ job \in Job
      BY DEF ReplayClean, ReplayInv, StepInv, JobInv
<1>2. CanReplay(c) /\ Clean(Plan(c)) /\ job' = [job EXCEPT !.step = "persist", !.files = Plan(c)]
      BY DEF ReplayClean
<1>. HIDE DEF c
<1>3. Plan(c) \in Files
      BY <1>1, <1>2, PlanType, CleanFiles
<1>4. job' \in Job /\ job'.step = "persist" /\ job'.last = job.last /\ job'.proc = job.proc
      /\ job'.pos = job.pos
      BY <1>1, <1>2, <1>3 DEF Job
<1>5. RepoInv' /\ JobInv'
      BY <1>1, <1>4, JobGoesOn DEF ReplayClean
<1>6. QueueInv' /\ StackInv' /\ queue' = queue /\ stack' = stack
      BY QueueKept, StackKept DEF ReplayInv, ReplayClean, Quiet, stores, stashVars
<1>7. StepInv'
      BY <1>1, <1>4, <1>6 DEF StepInv, ReplayInv
<1>8. QED
      BY <1>5, <1>6, <1>7 DEF ReplayInv

LEMMA ReplayConflictInv ==
    ASSUME ReplayInv, ReplayConflict, UNCHANGED stashVars
    PROVE  ReplayInv'
<1>. DEFINE c     == Head(queue.remaining)
            shown == Working(Plan(c), FilesOf(queue.current))
<1>1. /\ job # NoJob /\ job.step = "replay" /\ queue.remaining # <<>> /\ queue # NoQueue
      /\ job \in Job /\ queue \in Queue /\ queue.current \in State
      BY DEF ReplayConflict, ReplayInv, StepInv, JobInv, QueueInv, Queue
<1>2. CanReplay(c) /\ queue' = [queue EXCEPT !.conflicted = c] /\ Quiet
      BY DEF ReplayConflict
<1>3. c \in State
      BY <1>1 DEF Queue
<1>4. /\ queue' \in Queue /\ queue'.remaining = queue.remaining /\ queue'.conflicted = c
      /\ queue'.onto = queue.onto /\ queue'.original = queue.original
      /\ queue'.current = queue.current
      BY <1>1, <1>2, <1>3 DEF Queue
<1>5. StackInv' /\ UNCHANGED <<stack, timeline>>
      BY <1>2, StackKept DEF ReplayInv, Quiet, stores, stashVars
<1>6. QueueInv'
      BY <1>1, <1>4, <1>5 DEF QueueInv, ReplayInv
<1>7. queue' # NoQueue
      BY <1>4, RebaseAssumption
<1>8. CASE End
      BY <1>1, <1>2, <1>5, <1>6, <1>8, JobEnds DEF ReplayInv
<1>9. CASE ~End
      <2>1. /\ job' = [job EXCEPT !.step = "tree", !.files = shown,
                                  !.target = queue.current, !.unstage = TRUE,
                                  !.put = Kept(shown), !.gone = ReplayPaths(c) \ Kept(shown),
                                  !.last = "done"]
            /\ holder' = holder
            BY <1>9 DEF ReplayConflict
      <2>. HIDE DEF c
      <2>2. shown \in Files
            BY <1>1, <1>2, PlanType DEF Working, Files
      <2>. HIDE DEF shown
      <2>3. Kept(shown) \in SUBSET Path /\ ReplayPaths(c) \ Kept(shown) \in SUBSET Path
            BY DEF Kept, ReplayPaths
      <2>4. job' \in Job /\ job'.step = "tree" /\ job'.last = "done" /\ job'.proc = job.proc
            BY <1>1, <2>1, <2>2, <2>3 DEF Job
      <2>5. RepoInv' /\ JobInv'
            BY <1>1, <1>2, <2>1, <2>4, JobGoesOn
      <2>6. StepInv'
            BY <2>4 DEF StepInv
      <2>7. QED
            BY <1>5, <1>6, <2>5, <2>6 DEF ReplayInv
<1>10. QED
      BY <1>8, <1>9

LEMMA ReplayFailsInv ==
    ASSUME ReplayInv, ReplayFails, UNCHANGED stashVars
    PROVE  ReplayInv'
<1>1. job # NoJob /\ End /\ Quiet /\ queue' = queue
      BY DEF ReplayFails
<1>2. RepoInv' /\ JobInv' /\ StepInv'
      BY <1>1, JobEnds
<1>3. QueueInv' /\ StackInv'
      BY <1>1, QueueKept, StackKept DEF ReplayInv, Quiet, stores
<1>4. QED
      BY <1>2, <1>3 DEF ReplayInv
\* persist_replay_commit keeps a repository complete: as WriteTimeline does in Repo.
LEMMA PersistInv ==
    ASSUME ReplayInv, Persist, UNCHANGED stashVars
    PROVE  ReplayInv'
<1>. DEFINE e == [parents |-> {queue.current}, files |-> job.files]
<1>1. PICK s \in IdsFor(e) :
            /\ commit' = [t \in DOMAIN commit \cup {s} |-> IF t = s THEN e ELSE commit[t]]
            /\ timeline' = timeline \cup {s}
            /\ job' = [job EXCEPT !.step = "ref", !.target = s]
      BY DEF Persist
<1>2. /\ UNCHANGED <<refs, head, index, staging, work, holder, pc, cmd, queue>>
      /\ job # NoJob /\ job.step = "persist" /\ blobs' = blobs \cup Contents(job.files)
      BY DEF Persist
<1>3. /\ job \in Job /\ job.files \in Files /\ queue # NoQueue /\ queue.remaining # <<>>
      /\ queue.current \in timeline /\ queue.current \in State
      BY <1>2, KnownFiles DEF ReplayInv, JobInv, StepInv, QueueInv, Job
<1>4. s \in State /\ (s \in DOMAIN commit => commit[s] = e)
      BY DEF IdsFor
<1>5. e \in Entry /\ Contents(job.files) \subseteq Content
      BY <1>3 DEF Entry, Contents, Files
<1>6. /\ commit'[s] = e /\ DOMAIN commit' = DOMAIN commit \cup {s}
      /\ \A t \in DOMAIN commit : commit'[t] = commit[t]
      /\ timeline \subseteq DOMAIN commit
      BY <1>1, <1>4 DEF ReplayInv, RepoInv, TypeOK
<1>7. TypeOK'
      <2>1. commit' \in [DOMAIN commit' -> Entry]
            BY <1>1, <1>5 DEF ReplayInv, RepoInv, TypeOK
      <2>2. DOMAIN commit' \subseteq State /\ timeline' \subseteq DOMAIN commit'
            BY <1>1, <1>4, <1>6 DEF ReplayInv, RepoInv, TypeOK
      <2>3. blobs' \subseteq Content
            BY <1>2, <1>5 DEF ReplayInv, RepoInv, TypeOK
      <2>4. QED
            BY <1>2, <2>1, <2>2, <2>3 DEF ReplayInv, RepoInv, TypeOK
<1>8. LockInv' /\ TipsInv'
      BY <1>1, <1>2 DEF LockInv, TipsInv, HeadState, ReplayInv, RepoInv
<1>9. TimelineInv'
      <2>1. Parents'[s] = {queue.current} /\ \A t \in timeline : Parents'[t] = Parents[t]
            BY <1>4, <1>6 DEF Parents, ReplayInv, RepoInv, TypeOK
      <2>2. ParentClosed(Parents', timeline')
            BY <1>1, <1>3, <2>1 DEF ParentClosed, TimelineInv, ReplayInv, RepoInv
      <2>3. FilesOf(s)' = job.files /\ \A t \in timeline : FilesOf(t)' = FilesOf(t)
            BY <1>6 DEF FilesOf
      <2>4. \A t \in timeline' : Contents(FilesOf(t)') \subseteq blobs'
            BY <1>1, <1>2, <2>3 DEF TimelineInv, ReplayInv, RepoInv
      <2>5. Root \in timeline' /\ Parents'[Root] = {}
            BY <1>1, <2>1 DEF TimelineInv, ReplayInv, RepoInv
      <2>6. QED
            BY <2>2, <2>4, <2>5 DEF TimelineInv, Contents
<1>10. FlightInv'
      BY <1>1, <1>2 DEF FlightInv, Creates, Contents, ReplayInv, RepoInv
<1>11. RepoInv'
      BY <1>7, <1>8, <1>9, <1>10 DEF RepoInv
<1>12. /\ job' \in Job /\ job'.step = "ref" /\ job'.target = s /\ job'.last = job.last
       /\ job'.pos = job.pos /\ job'.proc = job.proc
      BY <1>1, <1>3, <1>4 DEF Job
<1>13. JobInv'
      BY <1>2, <1>12 DEF JobInv, ReplayInv
<1>14. QueueInv' /\ StackInv' /\ stack' = stack
      BY <1>1, <1>2, QueueKept, StackKept DEF ReplayInv, stashVars
<1>15. StepInv'
      BY <1>1, <1>2, <1>3, <1>12, <1>14 DEF StepInv, ReplayInv
<1>16. QED
      BY <1>11, <1>13, <1>14, <1>15 DEF ReplayInv

LEMMA MoveBranchInv ==
    ASSUME ReplayInv, MoveBranch, UNCHANGED stashVars
    PROVE  ReplayInv'
<1>1. /\ job # NoJob /\ job \in Job /\ job.step = "ref" /\ job.target \in timeline
      /\ job.target \in State
      /\ queue # NoQueue /\ queue.branch \in Branch
      /\ job.kind # "abort" => queue.remaining # <<>>
      BY KnownFiles DEF MoveBranch, ReplayInv, JobInv, StepInv, QueueInv, Queue
<1>2. /\ UNCHANGED <<commit, timeline, blobs, head, index, staging, work, pc, cmd, queue>>
      /\ refs' = [refs EXCEPT ![queue.branch] = job.target]
      BY DEF MoveBranch
<1>3. /\ refs' \in [Ref -> State \cup {NoState}]
      /\ \A r \in Ref : refs'[r] = IF r = queue.branch THEN job.target ELSE refs[r]
      BY <1>1, <1>2 DEF ReplayInv, RepoInv, TypeOK, Ref
<1>4. \/ End
      \/ Goto("queue") /\ job.kind # "abort"
      \/ job' = Materializing(job, job.target, "unqueue") /\ holder' = holder
      BY DEF MoveBranch
<1>5. holder = job.proc /\ pc[holder] = "idle"
      /\ (holder' = holder \/ holder' = NoProc)
      BY <1>1, <1>4 DEF ReplayInv, JobInv, End, Goto
<1>6. TypeOK'
      <2>1. holder' \in Proc \cup {NoProc}
            BY <1>5 DEF ReplayInv, RepoInv, TypeOK
      <2>2. QED
            BY <1>2, <1>3, <2>1 DEF ReplayInv, RepoInv, TypeOK
<1>7. LockInv'
      <2>1. SUFFICES ASSUME NEW q \in Proc, pc[q] # "idle",
                            NoVerify \subseteq {TRUE} \/ cmd[q].kind \notin {"commit", "merge"}
                     PROVE  FALSE
            BY <1>2 DEF LockInv
      <2>2. holder = q
            BY <2>1 DEF LockInv, ReplayInv, RepoInv
      <2>3. QED
            BY <1>5, <2>1, <2>2
<1>8. HeadState' \in timeline
      BY <1>1, <1>2, <1>3, RepoAssumption DEF HeadState, Ref, ReplayInv, RepoInv, TypeOK, TipsInv
<1>9. TipsInv' /\ TimelineInv'
      BY <1>1, <1>2, <1>3, <1>8
      DEF TipsInv, TimelineInv, Parents, FilesOf, Contents, ReplayInv, RepoInv
<1>10. FlightInv'
      BY <1>1, <1>2, <1>3, RepoAssumption DEF FlightInv, Creates, Contents, Ref, ReplayInv, RepoInv
<1>11. RepoInv'
      BY <1>6, <1>7, <1>9, <1>10 DEF RepoInv
<1>12. QueueInv' /\ StackInv' /\ stack' = stack
      BY <1>2, QueueKept, StackKept DEF ReplayInv, stashVars
<1>13. CASE End
      BY <1>11, <1>12, <1>13 DEF ReplayInv, JobInv, StepInv, End
<1>14. CASE Goto("queue") /\ job.kind # "abort"
      <2>1. /\ job' \in Job /\ job'.step = "queue" /\ job'.target = job.target
            /\ job'.last = job.last /\ job'.pos = job.pos /\ job'.proc = job.proc
            BY <1>1, <1>14 DEF Goto, Job
      <2>2. JobInv'
            BY <1>2, <1>5, <1>14, <2>1 DEF Goto, JobInv
      <2>3. StepInv'
            BY <1>1, <1>2, <1>12, <1>14, <2>1 DEF StepInv, ReplayInv
      <2>4. QED
            BY <1>11, <1>12, <2>2, <2>3 DEF ReplayInv
<1>15. CASE job' = Materializing(job, job.target, "unqueue") /\ holder' = holder
      <2>1. job' \in Job
            BY <1>1, <1>15, MaterializingType DEF ReplayInv
      <2>2. job'.step = "tree" /\ job'.last = "unqueue" /\ job'.proc = job.proc
            BY <1>1, <1>15 DEF Materializing, Job
      <2>3. JobInv'
            BY <1>2, <1>5, <1>15, <2>1, <2>2 DEF JobInv
      <2>4. StepInv'
            BY <2>2 DEF StepInv
      <2>5. QED
            BY <1>11, <1>12, <2>3, <2>4 DEF ReplayInv
<1>16. QED
      BY <1>4, <1>13, <1>14, <1>15

\* The queue is saved without its first commit, or deleted.
LEMMA SaveQueueInv ==
    ASSUME ReplayInv, SaveQueue, UNCHANGED stashVars
    PROVE  ReplayInv'
<1>1. /\ job # NoJob /\ job \in Job /\ job.step = "queue" /\ job.target \in timeline
      /\ job.target \in State
      /\ queue # NoQueue /\ queue \in Queue /\ queue.remaining # <<>>
      /\ Quiet /\ holder' = holder
      BY KnownFiles DEF SaveQueue, ReplayInv, JobInv, StepInv, QueueInv
<1>2. StackInv' /\ UNCHANGED <<stack, timeline>>
      BY <1>1, StackKept DEF ReplayInv, Quiet, stores, stashVars
<1>3. CASE /\ queue' = NoQueue
           /\ job' = Materializing(job, job.target, "done")
      <2>1. job' \in Job
            BY <1>1, <1>3, MaterializingType DEF ReplayInv
      <2>2. job'.step = "tree" /\ job'.last = "done" /\ job'.proc = job.proc
            BY <1>1, <1>3 DEF Materializing, Job
      <2>3. RepoInv' /\ JobInv'
            BY <1>1, <2>1, <2>2, JobGoesOn
      <2>4. QueueInv' /\ StepInv'
            BY <1>3, <2>2 DEF QueueInv, StepInv
      <2>5. QED
            BY <1>2, <2>3, <2>4 DEF ReplayInv
<1>4. CASE /\ queue' = Replayed(queue, job.target)
           /\ job' = [job EXCEPT !.step = "replay", !.kind = "rebase"]
      <2>1. /\ job' \in Job /\ job'.step = "replay" /\ job'.proc = job.proc
            /\ job'.last = job.last /\ job'.pos = job.pos
            BY <1>1, <1>4 DEF Job
      <2>2. RepoInv' /\ JobInv'
            BY <1>1, <2>1, JobGoesOn
      <2>3. Tail(queue.remaining) \in Seq(State)
            BY <1>1 DEF Queue
      <2>4. /\ queue' \in Queue /\ queue'.conflicted = NoState /\ queue'.current = job.target
            /\ queue'.onto = queue.onto /\ queue'.original = queue.original
            BY <1>1, <1>4, <2>3 DEF Replayed, Queue
      <2>5. QueueInv'
            BY <1>1, <1>2, <2>4 DEF QueueInv, ReplayInv
      <2>6. StepInv'
            BY <1>1, <1>2, <2>1, <2>4, RebaseAssumption DEF StepInv, ReplayInv
      <2>7. QED
            BY <1>2, <2>2, <2>5, <2>6 DEF ReplayInv
<1>5. QED
      BY <1>3, <1>4 DEF SaveQueue

LEMMA FinishRebaseInv ==
    ASSUME ReplayInv, FinishRebase, UNCHANGED stashVars
    PROVE  ReplayInv'
<1>1. /\ job # NoJob /\ job \in Job /\ queue # NoQueue /\ queue.current \in timeline
      /\ Quiet /\ holder' = holder /\ queue' = NoQueue
      /\ job' = Materializing(job, queue.current, "done")
      BY DEF FinishRebase, ReplayInv, JobInv, StepInv, QueueInv
<1>2. StackInv'
      BY StackKept DEF ReplayInv
<1>3. job' \in Job
      BY <1>1, MaterializingType DEF ReplayInv
<1>4. job'.step = "tree" /\ job'.last = "done" /\ job'.proc = job.proc
      BY <1>1 DEF Materializing, Job
<1>5. RepoInv' /\ JobInv'
      BY <1>1, <1>3, <1>4, JobGoesOn
<1>6. QueueInv' /\ StepInv'
      BY <1>1, <1>4 DEF QueueInv, StepInv
<1>7. QED
      BY <1>2, <1>5, <1>6 DEF ReplayInv

LEMMA UnqueueInv ==
    ASSUME ReplayInv, Unqueue, UNCHANGED stashVars
    PROVE  ReplayInv'
<1>1. job # NoJob /\ End /\ Quiet /\ queue' = NoQueue
      BY DEF Unqueue
<1>2. RepoInv' /\ JobInv' /\ StepInv'
      BY <1>1, JobEnds
<1>3. QueueInv' /\ StackInv'
      BY <1>1, StackKept DEF ReplayInv, QueueInv
<1>4. QED
      BY <1>2, <1>3 DEF ReplayInv
-----------------------------------------------------------------------------
(* The steps both kinds of command share.                                  *)

LEMMA MaterializedType ==
    ASSUME NEW f \in Files, work \in Files, NEW removed, NEW written
    PROVE  Materialized(f, removed, written) \in Files
BY DEF Materialized, Files

\* The next step of a job that is past its own stores.
LEMMA GotoInv ==
    ASSUME ReplayInv, RepoInv', job # NoJob, NEW step \in {"index", "staging", "done", "unqueue", "unstack"},
           job.step \in {"tree", "index", "staging"}, step = "unstack" => job.last = "unstack",
           Goto(step), UNCHANGED <<timeline, pc, queue, stashVars>>
    PROVE  ReplayInv'
<1>1. /\ job \in Job /\ job' = [job EXCEPT !.step = step] /\ holder' = holder
      BY DEF ReplayInv, JobInv, Goto
<1>2. /\ job' \in Job /\ job'.step = step /\ job'.last = job.last /\ job'.pos = job.pos
      /\ job'.proc = job.proc
      BY <1>1 DEF Job
<1>3. JobInv'
      BY <1>1, <1>2 DEF JobInv, ReplayInv
<1>4. QueueInv' /\ StackInv' /\ stack' = stack
      BY QueueKept, StackKept DEF ReplayInv, stashVars
<1>5. StepInv'
      BY <1>2, <1>4 DEF StepInv, ReplayInv
<1>6. QED
      BY <1>3, <1>4, <1>5 DEF ReplayInv

LEMMA TreeStepInv ==
    ASSUME ReplayInv, TreeStep, UNCHANGED <<queue, stashVars>>
    PROVE  ReplayInv'
<1>1. /\ job # NoJob /\ job \in Job /\ job.step = "tree" /\ holder' = holder
      /\ UNCHANGED <<commit, timeline, blobs, refs, head, index, staging, pc, cmd>>
      /\ work' = Materialized(job.files, job.gone, job.put)
      BY DEF TreeStep, Goto, ReplayInv, JobInv
<1>2. work' \in Files
      BY <1>1, MaterializedType DEF Job, ReplayInv, RepoInv, TypeOK
<1>3. TypeOK'
      BY <1>1, <1>2 DEF ReplayInv, RepoInv, TypeOK
<1>4. RepoInv'
      BY <1>1, <1>3, QuietRepoInv DEF ReplayInv
<1>5. CASE Goto("index")
      BY <1>1, <1>4, <1>5, GotoInv
<1>6. CASE Goto(job.last)
      <2>1. job.last \in {"done", "unqueue", "unstack"}
            BY <1>1 DEF Job
      <2>2. QED
            BY <1>1, <1>4, <1>6, <2>1, GotoInv
<1>7. QED
      BY <1>5, <1>6 DEF TreeStep

LEMMA IndexStepInv ==
    ASSUME ReplayInv, IndexStep, UNCHANGED <<queue, stashVars>>
    PROVE  ReplayInv'
<1>1. /\ job # NoJob /\ job \in Job /\ job.step = "index" /\ holder' = holder /\ Goto("staging")
      /\ UNCHANGED <<commit, timeline, blobs, refs, head, staging, work, pc, cmd>>
      BY DEF IndexStep, Goto, ReplayInv, JobInv
<1>2. index' \in [Path -> State \cup {NoState}]
      BY <1>1 DEF IndexStep, Job
<1>3. TypeOK'
      BY <1>1, <1>2 DEF ReplayInv, RepoInv, TypeOK
<1>4. RepoInv'
      BY <1>1, <1>3, QuietRepoInv DEF ReplayInv
<1>5. QED
      BY <1>1, <1>4, GotoInv

LEMMA StagingStepInv ==
    ASSUME ReplayInv, StagingStep, UNCHANGED <<queue, stashVars>>
    PROVE  ReplayInv'
<1>1. /\ job # NoJob /\ job \in Job /\ job.step = "staging" /\ holder' = holder
      /\ Goto(job.last)
      /\ UNCHANGED <<commit, timeline, blobs, refs, head, index, work, pc, cmd>>
      BY DEF StagingStep, Goto, ReplayInv, JobInv
<1>2. staging' \in [active : BOOLEAN, entries : [Path -> Content \cup {Absent, NotStaged}]]
      <2>1. (staging.active /\ ~job.unstage) \in BOOLEAN
            OBVIOUS
      <2>2. Unstaged \in [Path -> Content \cup {Absent, NotStaged}]
            BY DEF Unstaged
      <2>3. QED
            BY <2>1, <2>2 DEF StagingStep
<1>3. TypeOK'
      BY <1>1, <1>2 DEF ReplayInv, RepoInv, TypeOK
<1>4. RepoInv'
      BY <1>1, <1>3, QuietRepoInv DEF ReplayInv
<1>5. job.last \in {"done", "unqueue", "unstack"}
      BY <1>1 DEF Job
<1>6. QED
      BY <1>1, <1>4, <1>5, GotoInv

LEMMA DoneStepInv ==
    ASSUME ReplayInv, DoneStep, UNCHANGED <<queue, stashVars>>
    PROVE  ReplayInv'
<1>1. job # NoJob /\ End /\ Quiet
      BY DEF DoneStep, Quiet
<1>2. RepoInv' /\ JobInv' /\ StepInv'
      BY <1>1, JobEnds
<1>3. QueueInv' /\ StackInv'
      BY <1>1, QueueKept, StackKept DEF ReplayInv, Quiet, stores
<1>4. QED
      BY <1>2, <1>3 DEF ReplayInv

\* What a job leaves of the tree when it stops there is a tree.
LEMMA StopJobInv ==
    ASSUME ReplayInv, StopJob, UNCHANGED <<queue, stashVars>>
    PROVE  ReplayInv'
<1>1. /\ job # NoJob /\ job \in Job /\ holder' = NoProc /\ job' = NoJob /\ pc[holder] = "idle"
      /\ UNCHANGED <<commit, timeline, blobs, refs, head, index, staging, pc, cmd>>
      BY DEF StopJob, End, ReplayInv, JobInv
<1>2. job.files \in Files /\ work \in Files
      BY <1>1 DEF Job, ReplayInv, RepoInv, TypeOK
<1>3. ASSUME NEW w \in HalfWritten PROVE w \in Files
      <2>1. CASE w \in {Materialized(job.files, removed, {}) : removed \in SUBSET job.gone}
            BY <1>2, <2>1, MaterializedType
      <2>2. CASE w \notin {Materialized(job.files, removed, {}) : removed \in SUBSET job.gone}
            <3>1. PICK written \in SUBSET job.put :
                     w \in {Materialized(job.files, job.gone \cup between, written) :
                              between \in {{}} \cup {{q} : q \in job.put}}
                  BY <2>2 DEF HalfWritten
            <3>2. QED
                  BY <1>2, <3>1, MaterializedType
      <2>3. QED
            BY <2>1, <2>2
<1>4. work' \in Files
      BY <1>2, <1>3 DEF StopJob
<1>5. TypeOK'
      BY <1>1, <1>4 DEF ReplayInv, RepoInv, TypeOK
<1>6. RepoInv'
      BY <1>1, <1>5, QuietRepoInv DEF ReplayInv
<1>7. JobInv' /\ StepInv'
      BY <1>1 DEF JobInv, StepInv
<1>8. QueueInv' /\ StackInv'
      BY <1>1, QueueKept, StackKept DEF ReplayInv
<1>9. QED
      BY <1>6, <1>7, <1>8 DEF ReplayInv

-----------------------------------------------------------------------------
(* The steps of stash.                                                     *)

\* push stores the blobs of what it saves.
LEMMA PushInv ==
    ASSUME ReplayInv, NEW p \in Proc, NEW untracked \in BOOLEAN, Push(p, untracked),
           queue' = queue
    PROVE  ReplayInv'
<1>. DEFINE saved == Changed(untracked)
<1>1. /\ holder = NoProc /\ pc[p] = "idle" /\ holder' = p /\ NextId \in StashId
      /\ UNCHANGED <<commit, timeline, refs, head, index, staging, work, pc, cmd, stack>>
      /\ blobs' = blobs \cup Contents(saved)
      /\ entry' = [i \in DOMAIN entry \cup {NextId} |->
                      IF i = NextId THEN [base |-> HeadState, files |-> saved] ELSE entry[i]]
      /\ job' = NewJob(p, "push", "stack", FALSE)
      BY DEF Push, CanTake, Free
<1>2. saved \in Files /\ HeadState \in State
      BY DEF Changed, Files, ReplayInv, RepoInv, TypeOK, TipsInv
<1>. HIDE DEF saved
<1>3. Contents(saved) \subseteq Content
      BY <1>2 DEF Contents, Files
<1>4. TypeOK'
      BY <1>1, <1>3 DEF ReplayInv, RepoInv, TypeOK
<1>5. LockInv'
      <2>1. SUFFICES ASSUME NEW q \in Proc, pc[q] # "idle",
                            NoVerify \subseteq {TRUE} \/ cmd[q].kind \notin {"commit", "merge"}
                     PROVE  FALSE
            BY <1>1 DEF LockInv
      <2>2. holder = q
            BY <2>1 DEF LockInv, ReplayInv, RepoInv
      <2>3. QED
            BY <1>1, <2>1, <2>2, RepoAssumption
<1>6. TipsInv' /\ TimelineInv' /\ FlightInv'
      BY <1>1 DEF TipsInv, TimelineInv, FlightInv, HeadState, Parents, FilesOf, Contents, Creates,
                  ReplayInv, RepoInv
<1>7. RepoInv'
      BY <1>4, <1>5, <1>6 DEF RepoInv
<1>8. job' \in Job /\ job'.step = "stack" /\ job'.last = "done" /\ job'.proc = p
      <2>1. job' \in Job
            BY <1>1, NewJobType
      <2>2. QED
            BY <1>1, <2>1 DEF NewJob
<1>9. JobInv'
      BY <1>1, <1>8 DEF JobInv
<1>10. StackInv'
      <2>1. [base |-> HeadState, files |-> saved] \in Stashed
            BY <1>2 DEF Stashed
      <2>2. QED
            BY <1>1, <2>1 DEF StackInv, ReplayInv
<1>11. QueueInv'
      BY <1>1, QueueKept DEF ReplayInv
<1>12. NextId' = NextId
      BY <1>1 DEF NextId, Listed
<1>13. StepInv'
      BY <1>1, <1>8, <1>12 DEF StepInv
<1>14. QED
      BY <1>7, <1>9, <1>10, <1>11, <1>13 DEF ReplayInv

LEMMA PushStackInv ==
    ASSUME ReplayInv, PushStack, queue' = queue
    PROVE  ReplayInv'
<1>1. /\ job # NoJob /\ job \in Job /\ NextId \in StashId
      /\ Quiet /\ holder' = holder /\ entry' = entry
      /\ stack' = <<NextId>> \o stack
      /\ job' = Materializing(job, HeadState, "done")
      /\ HeadState \in timeline
      BY DEF PushStack, ReplayInv, JobInv, StepInv, RepoInv, TipsInv
<1>2. job' \in Job
      BY <1>1, MaterializingType DEF ReplayInv
<1>3. job'.step = "tree" /\ job'.last = "done" /\ job'.proc = job.proc
      BY <1>1 DEF Materializing, Job
<1>4. RepoInv' /\ JobInv'
      BY <1>1, <1>2, <1>3, JobGoesOn
<1>5. StackInv'
      BY <1>1 DEF StackInv, ReplayInv
<1>6. QueueInv'
      BY <1>1, QueueKept DEF ReplayInv, Quiet, stores
<1>7. StepInv'
      BY <1>3 DEF StepInv
<1>8. QED
      BY <1>4, <1>5, <1>6, <1>7 DEF ReplayInv

LEMMA ApplyInv ==
    ASSUME ReplayInv, NEW p \in Proc, NEW kind \in {"apply", "pop"}, NEW pos \in DOMAIN stack,
           Apply(p, kind, pos), queue' = queue
    PROVE  ReplayInv'
<1>. DEFINE i == stack[pos]
            plan == StashPlan(i)
            f == [q \in Path |-> IF q \in Recorded(i) THEN plan[q] ELSE Absent]
            gone == {q \in Recorded(i) : plan[q] = Absent}
            put == {q \in Recorded(i) : plan[q] # Absent}
            last == IF kind = "pop" THEN "unstack" ELSE "done"
<1>1. /\ CanTake(p) /\ StashLoadable(i) /\ \A q \in Recorded(i) : plan[q] # Conflict
      /\ job' = [NewJob(p, kind, "tree", FALSE) EXCEPT
                    !.files = f, !.gone = gone, !.put = put, !.last = last, !.pos = pos]
      /\ holder' = p /\ UNCHANGED stashVars /\ Quiet
      BY DEF Apply
<1>2. f \in Files
      <2>1. entry[i].base \in timeline /\ HeadState \in timeline
            BY <1>1 DEF StashLoadable, Loadable, ReplayInv, RepoInv, TipsInv
      <2>2. FilesOf(entry[i].base) \in Files /\ HeadFiles \in Files
            BY <2>1, KnownFiles DEF HeadFiles, ReplayInv
      <2>3. entry[i].files \in Files
            BY <1>1 DEF StashLoadable, ReplayInv, StackInv, Stashed
      <2>4. plan \in [Path -> Content \cup {Absent, Conflict}]
            BY <2>2, <2>3, OutcomeType DEF StashPlan
      <2>. HIDE DEF plan
      <2>5. QED
            BY <1>1, <2>4 DEF Files
<1>3. Recorded(i) \in SUBSET Path
      BY DEF Recorded, Kept
<1>4. gone \in SUBSET Path /\ put \in SUBSET Path
      BY <1>3
<1>5. pos \in Nat /\ last \in {"done", "unqueue", "unstack"}
      BY DEF ReplayInv, StackInv
<1>. HIDE DEF f, gone, put, last
<1>6. NewJob(p, kind, "tree", FALSE) \in Job
      BY NewJobType
<1>7. job' \in Job /\ job'.step = "tree" /\ job'.proc = p /\ job'.pos = pos
      BY <1>1, <1>2, <1>4, <1>5, <1>6 DEF Job, NewJob
<1>8. RepoInv' /\ JobInv'
      BY <1>1, <1>7, JobBegins
<1>9. QueueInv' /\ StackInv' /\ stack' = stack
      BY <1>1, QueueKept, StackKept DEF ReplayInv, Quiet, stores, stashVars
<1>10. StepInv'
      BY <1>7, <1>9 DEF StepInv
<1>11. QED
      BY <1>8, <1>9, <1>10 DEF ReplayInv

LEMMA DropInv ==
    ASSUME ReplayInv, NEW p \in Proc, NEW pos \in DOMAIN stack, Drop(p, pos), queue' = queue
    PROVE  ReplayInv'
<1>1. /\ CanTake(p) /\ holder' = p /\ UNCHANGED stashVars /\ Quiet
      /\ job' = [NewJob(p, "drop", "unstack", FALSE) EXCEPT !.pos = pos]
      BY DEF Drop
<1>2. pos \in Nat
      BY DEF ReplayInv, StackInv
<1>3. NewJob(p, "drop", "unstack", FALSE) \in Job
      BY NewJobType
<1>4. job' \in Job /\ job'.step = "unstack" /\ job'.proc = p /\ job'.pos = pos
      BY <1>1, <1>2, <1>3 DEF Job, NewJob
<1>5. RepoInv' /\ JobInv'
      BY <1>1, <1>4, JobBegins
<1>6. QueueInv' /\ StackInv' /\ stack' = stack
      BY <1>1, QueueKept, StackKept DEF ReplayInv, Quiet, stores, stashVars
<1>7. StepInv'
      BY <1>4, <1>6 DEF StepInv
<1>8. QED
      BY <1>5, <1>6, <1>7 DEF ReplayInv

LEMMA ClearInv ==
    ASSUME ReplayInv, NEW p \in Proc, Clear(p), queue' = queue
    PROVE  ReplayInv'
<1>1. /\ CanTake(p) /\ holder' = p /\ UNCHANGED stashVars /\ Quiet
      /\ job' = [NewJob(p, "clear", "remove", FALSE) EXCEPT !.doomed = stack]
      BY DEF Clear
<1>2. StashId \subseteq Nat
      BY StashAssumption DEF StashId
<1>3. stack \in Seq(Nat)
      BY <1>2 DEF ReplayInv, StackInv
<1>4. NewJob(p, "clear", "remove", FALSE) \in Job
      BY NewJobType
<1>5. job' \in Job /\ job'.step = "remove" /\ job'.last = "done" /\ job'.proc = p
      BY <1>1, <1>3, <1>4 DEF Job, NewJob
<1>6. RepoInv' /\ JobInv'
      BY <1>1, <1>5, JobBegins
<1>7. QueueInv' /\ StackInv'
      BY <1>1, QueueKept, StackKept DEF ReplayInv, Quiet, stores, stashVars
<1>8. StepInv'
      BY <1>5 DEF StepInv
<1>9. QED
      BY <1>6, <1>7, <1>8 DEF ReplayInv
\* remove_stash_at's new list.
LEMMA RemoveAtIs ==
    ASSUME NEW S, NEW s \in Seq(S), NEW i \in DOMAIN s
    PROVE  /\ RemoveAt(s, i) \in Seq(S)
           /\ Len(RemoveAt(s, i)) = Len(s) - 1
           /\ \A k \in 1 .. Len(s) - 1 : RemoveAt(s, i)[k] = IF k < i THEN s[k] ELSE s[k + 1]
<1>1. Len(s) \in Nat /\ i \in 1 .. Len(s)
      OBVIOUS
<1>. DEFINE a == SubSeq(s, 1, i - 1)
            b == SubSeq(s, i + 1, Len(s))
<1>2. a \in Seq(S) /\ Len(a) = i - 1 /\ \A k \in 1 .. i - 1 : a[k] = s[k]
      BY <1>1
<1>3. b \in Seq(S) /\ Len(b) = Len(s) - i /\ \A k \in 1 .. Len(s) - i : b[k] = s[i + k]
      BY <1>1
<1>. HIDE DEF a, b
<1>4. a \o b \in Seq(S) /\ Len(a \o b) = Len(s) - 1
      BY <1>1, <1>2, <1>3
<1>5. ASSUME NEW k \in 1 .. Len(s) - 1 PROVE (a \o b)[k] = IF k < i THEN s[k] ELSE s[k + 1]
      <2>1. CASE k < i
            BY <1>1, <1>2, <1>3, <2>1
      <2>2. CASE k >= i
            <3>1. k - (i - 1) \in 1 .. Len(s) - i
                  BY <1>1, <2>2
            <3>2. (a \o b)[k] = b[k - (i - 1)]
                  <4>1. k \in 1 .. Len(a) + Len(b) /\ ~(k <= Len(a))
                        BY <1>1, <1>2, <1>3, <2>2
                  <4>2. (a \o b)[k] = b[k - Len(a)]
                        BY <1>2, <1>3, <4>1, ConcatProperties
                  <4>3. QED
                        BY <1>2, <4>2
            <3>3. i + (k - (i - 1)) = k + 1
                  BY <1>1
            <3>4. b[k - (i - 1)] = s[k + 1]
                  BY <1>3, <3>1, <3>3
            <3>5. ~(k < i)
                  BY <1>1, <2>2
            <3>6. QED
                  BY <3>2, <3>4, <3>5
      <2>3. k < i \/ k >= i
            BY <1>1
      <2>4. QED
            BY <2>1, <2>2, <2>3
<1>6. RemoveAt(s, i) = a \o b
      BY DEF RemoveAt, a, b
<1>7. QED
      BY <1>4, <1>5, <1>6

LEMMA UnstackInv ==
    ASSUME ReplayInv, Unstack, queue' = queue
    PROVE  ReplayInv'
<1>1. /\ job # NoJob /\ job \in Job /\ job.pos \in DOMAIN stack /\ stack \in Seq(StashId)
      /\ Quiet /\ holder' = holder /\ entry' = entry
      /\ stack' = RemoveAt(stack, job.pos)
      /\ job' = [job EXCEPT !.step = "remove", !.doomed = <<stack[job.pos]>>]
      BY DEF Unstack, ReplayInv, JobInv, StepInv, StackInv
<1>2. stack[job.pos] \in Nat
      <2>1. stack[job.pos] \in StashId
            BY <1>1
      <2>2. QED
            BY <2>1, StashAssumption DEF StashId
<1>3. job' \in Job /\ job'.step = "remove" /\ job'.proc = job.proc
      <2>1. <<stack[job.pos]>> \in Seq(Nat)
            BY <1>2
      <2>2. QED
            BY <1>1, <2>1 DEF Job
<1>4. RepoInv' /\ JobInv'
      BY <1>1, <1>3, JobGoesOn
<1>5. RemoveAt(stack, job.pos) \in Seq(StashId)
      BY <1>1, RemoveAtIs
<1>6. StackInv'
      BY <1>1, <1>5 DEF StackInv, ReplayInv
<1>7. QueueInv'
      BY <1>1, QueueKept DEF ReplayInv, Quiet, stores
<1>8. StepInv'
      BY <1>3 DEF StepInv
<1>9. QED
      BY <1>4, <1>6, <1>7, <1>8 DEF ReplayInv

LEMMA RemoveEntryInv ==
    ASSUME ReplayInv, RemoveEntry, queue' = queue
    PROVE  ReplayInv'
<1>1. /\ job # NoJob /\ job \in Job /\ job.step = "remove" /\ job.doomed # <<>>
      /\ Quiet /\ holder' = holder /\ stack' = stack
      /\ entry' = [i \in DOMAIN entry \ {Head(job.doomed)} |-> entry[i]]
      /\ job' = [job EXCEPT !.doomed = Tail(job.doomed)]
      BY DEF RemoveEntry, ReplayInv, JobInv
<1>2. Tail(job.doomed) \in Seq(Nat)
      BY <1>1 DEF Job
<1>3. job' \in Job /\ job'.step = "remove" /\ job'.proc = job.proc /\ job'.last = job.last
      /\ job'.pos = job.pos
      BY <1>1, <1>2 DEF Job
<1>4. RepoInv' /\ JobInv'
      BY <1>1, <1>3, JobGoesOn
<1>5. StackInv'
      BY <1>1 DEF StackInv, ReplayInv
<1>6. QueueInv'
      BY <1>1, QueueKept DEF ReplayInv, Quiet, stores
<1>7. StepInv'
      BY <1>1, <1>3 DEF StepInv, ReplayInv
<1>8. QED
      BY <1>4, <1>5, <1>6, <1>7 DEF ReplayInv

LEMMA RemovedInv ==
    ASSUME ReplayInv, Removed, queue' = queue
    PROVE  ReplayInv'
<1>1. job # NoJob /\ End /\ Quiet /\ entry' = entry /\ stack' \in {<<>>, stack}
      BY DEF Removed
<1>2. RepoInv' /\ JobInv' /\ StepInv'
      BY <1>1, JobEnds
<1>3. QueueInv'
      BY <1>1, QueueKept DEF ReplayInv, Quiet, stores
<1>4. stack' \in Seq(StashId)
      <2>1. <<>> \in Seq(StashId)
            OBVIOUS
      <2>2. QED
            BY <1>1, <2>1 DEF StackInv, ReplayInv
<1>5. StackInv'
      BY <1>1, <1>4 DEF StackInv, ReplayInv
<1>6. QED
      BY <1>2, <1>3, <1>5 DEF ReplayInv

-----------------------------------------------------------------------------
(* What the user runs in between.                                          *)

\* It only adds to the timeline.
LEMMA UserNextRepo ==
    ASSUME RepoInv, UserNext
    PROVE  RepoInv' /\ timeline \subseteq timeline'
<1>1. ASSUME NEW p \in Proc, Run(p) PROVE RepoInv' /\ timeline \subseteq timeline'
      <2>1. timeline \subseteq timeline'
            BY <1>1 DEF Run, Resume, FinishGuard, WriteBlobs, WriteTimeline, WriteTree,
                        WriteIndex, ClearStaging, WriteRef, stores
      <2>2. QED
            BY <1>1, <2>1, RunInv
<1>2. ASSUME NEW p \in Proc, Stop(p) PROVE RepoInv' /\ timeline \subseteq timeline'
      BY <1>2, StopInv DEF Stop
<1>3. ASSUME NEW p \in Proc, Start(p) PROVE RepoInv' /\ timeline \subseteq timeline'
      <2>1. PICK c, first : Begin(p, c, first)
            BY <1>3, StartPlanned DEF RepoInv
      <2>2. QED
            BY <1>3, <2>1, StartInv DEF Begin, stores
<1>4. ASSUME NEW p \in Proc, Free(p), Commit(p) PROVE Start(p)
      BY <1>4 DEF Start
<1>5. ASSUME NEW p \in Proc, Free(p), NEW b \in Branch, Checkout(p, b, FALSE) PROVE Start(p)
      <2>1. refs[b] \in timeline
            BY <1>5 DEF Checkout, Loadable
      <2>2. refs[b] # NoState
            BY <2>1, RepoAssumption DEF RepoInv, TypeOK
      <2>3. QED
            BY <1>5, <2>2 DEF Start
<1>6. ASSUME NEW q \in Path, NEW content \in Content \cup {Absent}, UserEdit(q, content)
      PROVE  RepoInv' /\ timeline \subseteq timeline'
      BY <1>6, UserEditInv DEF UserEdit
<1>7. ASSUME NEW q \in Path, Add({q}) PROVE RepoInv' /\ timeline \subseteq timeline'
      BY <1>7, AddInv DEF Add
<1>8. QED
      BY <1>1, <1>2, <1>3, <1>4, <1>5, <1>6, <1>7 DEF UserNext

LEMMA ReplayInitInv == ReplayInit => ReplayInv
<1>1. SUFFICES ASSUME ReplayInit PROVE ReplayInv
      OBVIOUS
<1>2. PICK c \in Scenarios :
          commit = [s \in DOMAIN Lineage |-> [parents |-> Lineage[s], files |-> c.files[s]]]
      BY <1>1 DEF ReplayInit
<1>3. /\ timeline = DOMAIN Lineage /\ DOMAIN commit = DOMAIN Lineage /\ timeline \subseteq State
      /\ \A s \in timeline : /\ commit[s].parents = Lineage[s] /\ Lineage[s] \subseteq timeline
                             /\ commit[s].files = c.files[s] /\ c.files[s] \in Files
      BY <1>1, <1>2, ReplayAssumption DEF ReplayInit
<1>4. blobs = UNION {Contents(FilesOf(s)) : s \in timeline}
      BY <1>1 DEF ReplayInit
<1>5. /\ refs \in [Ref -> timeline \cup {NoState}]
      /\ head \in Branch /\ refs[head] # NoState /\ head \notin State
      BY <1>1, <1>3, ReplayAssumption, RepoAssumption DEF ReplayInit
<1>6. HeadState \in timeline
      BY <1>5 DEF HeadState, Ref
<1>7. HeadFiles \in Files
      BY <1>3, <1>6 DEF HeadFiles, FilesOf
<1>8. TypeOK
      <2>1. commit \in [DOMAIN commit -> Entry]
            BY <1>2, <1>3 DEF Entry
      <2>2. blobs \subseteq Content
            BY <1>3, <1>4 DEF Contents, FilesOf, Files
      <2>3. refs \in [Ref -> State \cup {NoState}] /\ head \in Branch \cup State
            BY <1>3, <1>5
      <2>4. index \in [Path -> State \cup {NoState}]
            BY <1>1, <1>3, <1>6 DEF ReplayInit
      <2>5. staging \in [active : BOOLEAN, entries : [Path -> Content \cup {Absent, NotStaged}]]
            BY <1>1 DEF ReplayInit, Unstaged
      <2>6. work \in Files /\ holder \in Proc \cup {NoProc}
            BY <1>1, <1>7 DEF ReplayInit
      <2>7. pc \in [Proc -> Step] /\ cmd \in [Proc -> Command]
            BY <1>1, NoCmdType DEF ReplayInit, Step
      <2>8. QED
            BY <1>3, <2>1, <2>2, <2>3, <2>4, <2>5, <2>6, <2>7 DEF TypeOK
<1>9. LockInv /\ FlightInv
      BY <1>1 DEF ReplayInit, LockInv, FlightInv, Planning, Finishing
<1>10. TipsInv
      BY <1>5, <1>6 DEF TipsInv
<1>11. TimelineInv
      <2>1. Root \in timeline /\ Parents[Root] = {}
            BY <1>3, RepoAssumption, ReplayAssumption DEF Parents
      <2>2. ParentClosed(Parents, timeline)
            BY <1>3 DEF ParentClosed, Parents
      <2>3. QED
            BY <1>4, <2>1, <2>2 DEF TimelineInv
<1>12. JobInv /\ QueueInv /\ StepInv
      BY <1>1 DEF ReplayInit, JobInv, QueueInv, StepInv
<1>13. StackInv
      BY <1>1 DEF ReplayInit, StackInv
<1>14. QED
      BY <1>8, <1>9, <1>10, <1>11, <1>12, <1>13 DEF ReplayInv, RepoInv

\* Every step preserves the invariant.
LEMMA ReplayNextInv == ReplayInv /\ [ReplayNext]_replayVars => ReplayInv'
<1>1. SUFFICES ASSUME ReplayInv, [ReplayNext]_replayVars PROVE ReplayInv'
      OBVIOUS
<1>2. CASE RebaseCommand /\ UNCHANGED stashVars
      BY <1>1, <1>2, RebaseStartInv, ContinueInv, AbortInv DEF RebaseCommand
<1>3. CASE StashCommand(uses) /\ queue' = queue
      BY <1>1, <1>3, PushInv, ApplyInv, DropInv, ClearInv DEF StashCommand
<1>4. CASE RebaseStep /\ UNCHANGED stashVars
      BY <1>1, <1>4, ReplayCleanInv, ReplayConflictInv, ReplayFailsInv, PersistInv,
         MoveBranchInv, SaveQueueInv, FinishRebaseInv, UnqueueInv DEF RebaseStep
<1>5. CASE StashStep /\ queue' = queue
      BY <1>1, <1>5, PushStackInv, UnstackInv, RemoveEntryInv, RemovedInv DEF StashStep
<1>6. CASE (WriteStep \/ StopJob) /\ UNCHANGED <<queue, stashVars>>
      BY <1>1, <1>6, TreeStepInv, IndexStepInv, StagingStepInv, DoneStepInv, StopJobInv
      DEF WriteStep
<1>7. CASE job = NoJob /\ UserNext /\ UNCHANGED <<job, queue, stashVars>>
      <2>1. RepoInv' /\ timeline \subseteq timeline'
            BY <1>1, <1>7, UserNextRepo DEF ReplayInv
      <2>2. QueueInv' /\ StackInv'
            BY <1>1, <1>7, <2>1, QueueKept, StackKept DEF ReplayInv
      <2>3. QED
            BY <1>7, <2>1, <2>2 DEF ReplayInv, JobInv, StepInv
<1>8. CASE UNCHANGED replayVars
      <2>1. UNCHANGED <<commit, timeline, blobs, refs, head, index, staging, work, holder, pc,
                        cmd, job, queue, stack, entry>>
            BY <1>8 DEF replayVars, rebaseVars, stashVars, stores
      <2>2. TypeOK'
            BY <1>1, <2>1 DEF TypeOK, ReplayInv, RepoInv
      <2>3. RepoInv'
            BY <1>1, <2>1, <2>2, QuietRepoInv DEF ReplayInv
      <2>4. QueueInv' /\ StackInv'
            BY <1>1, <2>1, QueueKept, StackKept DEF ReplayInv, stashVars
      <2>5. NextId' = NextId
            BY <2>1 DEF NextId, Listed
      <2>6. JobInv' /\ StepInv'
            BY <1>1, <2>1, <2>5 DEF ReplayInv, JobInv, StepInv
      <2>7. QED
            BY <2>3, <2>4, <2>6 DEF ReplayInv
<1>9. QED
      BY <1>1, <1>2, <1>3, <1>4, <1>5, <1>6, <1>7, <1>8 DEF ReplayNext, JobStep

LEMMA ReplayAlways == ReplaySpec => []ReplayInv
BY ReplayInitInv, ReplayNextInv, PTL DEF ReplaySpec

\* The files of a repository, rebase-state.json and the stash stack with its entries keep
\* their form for any history, any number of users and any commands, wherever a rebase
\* or a stash command is killed; and the command in flight holds the lock.
THEOREM ReplayTyped == ReplaySpec => []ReplayTypeOK
<1>1. ReplayInv => ReplayTypeOK
      BY DEF ReplayInv, RepoInv, JobInv, QueueInv, StackInv, ReplayTypeOK
<1>2. QED
      BY <1>1, ReplayAlways, PTL


-----------------------------------------------------------------------------
(* The course of a command: which steps it goes through.                   *)

Course ==
    job # NoJob =>
        /\ job.kind \in {"rebase", "continue"} =>
              job.step \in {"replay", "persist", "ref", "queue", "tree", "index", "staging",
                            "done"}
              /\ job.last = "done"
        /\ job.kind = "abort" =>
              /\ job.step \in {"ref", "tree", "index", "staging", "unqueue"}
              /\ job.step # "ref" => job.last = "unqueue"
        /\ job.kind = "push" =>
              job.step \in {"stack", "tree", "index", "staging", "done"} /\ job.last = "done"
        /\ job.kind = "apply" => job.step \in {"tree", "done"} /\ job.last = "done"
        /\ job.kind = "pop" =>
              job.step \in {"tree", "unstack", "remove"} /\ job.last = "unstack"
        /\ job.kind = "drop" => job.step \in {"unstack", "remove"}
        /\ job.kind = "clear" => job.step = "remove"

\* Each step of a command leads to one of the next.
LEMMA CourseNext ==
    ASSUME ReplayInv, Course, [ReplayNext]_replayVars
    PROVE  Course'
<1>1. job # NoJob => job \in Job
      BY DEF ReplayInv, JobInv
<1>2. CASE RebaseCommand
      BY <1>2 DEF RebaseCommand, RebaseStart, Continue, Abort, NewJob, Course
<1>3. CASE StashCommand(uses)
      <2>1. ASSUME NEW p \in Proc, NEW untracked \in BOOLEAN, Push(p, untracked) PROVE Course'
            BY <2>1 DEF Push, NewJob, Course
      <2>2. ASSUME NEW p \in Proc, NEW pos \in DOMAIN stack, NEW kind \in {"apply", "pop"},
                   Apply(p, kind, pos)
            PROVE  Course'
            BY <2>2 DEF Apply, NewJob, Course
      <2>3. ASSUME NEW p \in Proc, NEW pos \in DOMAIN stack, Drop(p, pos) PROVE Course'
            BY <2>3 DEF Drop, NewJob, Course
      <2>4. ASSUME NEW p \in Proc, Clear(p) PROVE Course'
            BY <2>4 DEF Clear, NewJob, Course
      <2>5. QED
            BY <1>3, <2>1, <2>2, <2>3, <2>4 DEF StashCommand
<1>4. CASE RebaseStep
      <2>1. CASE ReplayClean
            BY <1>1, <2>1 DEF ReplayClean, Course, Job
      <2>2. CASE ReplayConflict
            BY <1>1, <2>2 DEF ReplayConflict, Course, Job, End
      <2>3. CASE ReplayFails
            BY <2>3 DEF ReplayFails, Course, End
      <2>4. CASE Persist
            BY <1>1, <2>4 DEF Persist, Course, Job
      <2>5. CASE MoveBranch
            BY <1>1, <2>5 DEF MoveBranch, Course, Job, End, Goto, Materializing
      <2>6. CASE SaveQueue
            BY <1>1, <2>6 DEF SaveQueue, Course, Job, Materializing
      <2>7. CASE FinishRebase
            BY <1>1, <2>7 DEF FinishRebase, Course, Job, Materializing
      <2>8. CASE Unqueue
            BY <2>8 DEF Unqueue, Course, End
      <2>9. QED
            BY <1>4, <2>1, <2>2, <2>3, <2>4, <2>5, <2>6, <2>7, <2>8 DEF RebaseStep
<1>5. CASE StashStep
      <2>1. CASE PushStack
            BY <1>1, <2>1 DEF PushStack, Course, Job, Materializing
      <2>2. CASE Unstack
            BY <1>1, <2>2 DEF Unstack, Course, Job
      <2>3. CASE RemoveEntry
            BY <1>1, <2>3 DEF RemoveEntry, Course, Job
      <2>4. CASE Removed
            BY <2>4 DEF Removed, Course, End
      <2>5. QED
            BY <1>5, <2>1, <2>2, <2>3, <2>4 DEF StashStep
<1>6. CASE WriteStep
      <2>1. CASE TreeStep
            BY <1>1, <2>1 DEF TreeStep, Goto, Course, Job
      <2>2. CASE IndexStep
            BY <1>1, <2>2 DEF IndexStep, Goto, Course, Job
      <2>3. CASE StagingStep
            BY <1>1, <2>3 DEF StagingStep, Goto, Course, Job
      <2>4. CASE DoneStep
            BY <2>4 DEF DoneStep, Course, End
      <2>5. QED
            BY <1>6, <2>1, <2>2, <2>3, <2>4 DEF WriteStep
<1>7. CASE StopJob
      BY <1>7 DEF StopJob, End, Course
<1>8. CASE UNCHANGED job
      BY <1>8 DEF Course
<1>9. QED
      BY <1>2, <1>3, <1>4, <1>5, <1>6, <1>7, <1>8
      DEF ReplayNext, JobStep, replayVars, rebaseVars

LEMMA CourseAlways == ReplaySpec => []Course
<1>1. ReplayInit => Course
      BY DEF ReplayInit, Course
<1>2. ReplayInv /\ Course /\ [ReplayNext]_replayVars => Course'
      BY CourseNext
<1>3. QED
      BY <1>1, <1>2, ReplayAlways, PTL DEF ReplaySpec

\* Only its own steps change a command in flight, and none starts beside it.
LEMMA InFlight ==
    ASSUME ReplayInv, ReplayNext, job # NoJob
    PROVE  \/ JobStep
           \/ StopJob /\ UNCHANGED <<queue, stashVars>>
BY DEF ReplayNext, RebaseCommand, RebaseStart, Continue, Abort, StashCommand, Push, Apply, Drop,
       Clear, CanTake

LEMMA StashKinds ==
    ASSUME StashCommand(uses)
    PROVE  job'.kind \in {"push", "apply", "pop", "drop", "clear"}
<1>1. ASSUME NEW p \in Proc, NEW untracked \in BOOLEAN, Push(p, untracked)
      PROVE  job'.kind = "push"
      BY <1>1 DEF Push, NewJob
<1>2. ASSUME NEW p \in Proc, NEW pos \in DOMAIN stack, NEW kind \in {"apply", "pop"},
             Apply(p, kind, pos)
      PROVE  job'.kind = kind
      BY <1>2 DEF Apply, NewJob
<1>3. ASSUME NEW p \in Proc, NEW pos \in DOMAIN stack, Drop(p, pos) PROVE job'.kind = "drop"
      BY <1>3 DEF Drop, NewJob
<1>4. ASSUME NEW p \in Proc, Clear(p) PROVE job'.kind = "clear"
      BY <1>4 DEF Clear, NewJob
<1>5. QED
      BY <1>1, <1>2, <1>3, <1>4 DEF StashCommand

LEMMA NothingToStep == job = NoJob => ~JobStep /\ ~StopJob
BY DEF JobStep, RebaseStep, ReplayClean, ReplayConflict, ReplayFails, Persist, MoveBranch,
       SaveQueue, FinishRebase, Unqueue, StashStep, PushStack, Unstack, RemoveEntry, Removed,
       WriteStep, TreeStep, IndexStep, StagingStep, DoneStep, StopJob

-----------------------------------------------------------------------------
(* rebase --abort.                                                         *)

\* What --abort has put back so far: the branch first, then the tracked files, then
\* index.json; the queue that names the original tip goes last.
AbortHeld ==
    job # NoJob /\ job.kind = "abort" =>
        /\ queue # NoQueue /\ job.target = queue.original
        /\ job.step # "ref" =>
              /\ refs[queue.branch] = queue.original
              /\ job.files = FilesOf(queue.original) /\ job.put = Kept(job.files)
        /\ job.step \in {"index", "staging", "unqueue"} =>
              \A q \in Kept(FilesOf(queue.original)) : work[q] = FilesOf(queue.original)[q]
        /\ job.step \in {"staging", "unqueue"} => IndexAt(queue.original)

LEMMA AbortHeldNext ==
    ASSUME ReplayInv, Course, AbortHeld, [ReplayNext]_replayVars
    PROVE  AbortHeld'
<1>1. SUFFICES ASSUME job' # NoJob, job'.kind = "abort" PROVE AbortHeld'
      BY DEF AbortHeld
<1>2. CASE UNCHANGED <<job, queue, refs, commit, work, index>>
      BY <1>2 DEF AbortHeld, FilesOf, Kept, IndexAt
<1>3. CASE job = NoJob /\ ReplayNext
      <2>1. CASE RebaseCommand
            <3>1. PICK p \in Proc : Abort(p)
                  BY <1>1, <2>1 DEF RebaseCommand, RebaseStart, Continue, NewJob
            <3>2. queue' # NoQueue /\ job'.target = queue'.original /\ job'.step = "ref"
                  BY <3>1 DEF Abort, NewJob
            <3>3. QED
                  BY <3>2 DEF AbortHeld
      <2>2. CASE StashCommand(uses)
            BY <1>1, <2>2, StashKinds
      <2>3. ~JobStep /\ ~StopJob
            BY <1>3, NothingToStep
      <2>4. QED
            BY <1>1, <1>3, <2>1, <2>2, <2>3 DEF ReplayNext
<1>4. CASE job # NoJob /\ ReplayNext
      <2>1. /\ job \in Job /\ ~End /\ JobStep
            /\ QueueInv /\ TypeOK
            BY <1>1, <1>4, InFlight DEF ReplayInv, RepoInv, JobInv, End, StopJob
      <2>2. job.kind = "abort"
            BY <1>1, <1>4, <2>1
            DEF JobStep, RebaseStep, ReplayClean, ReplayConflict, ReplayFails, Persist,
                MoveBranch, SaveQueue, FinishRebase, Unqueue, StashStep, PushStack, Unstack,
                RemoveEntry, Removed, WriteStep, TreeStep, IndexStep, StagingStep, DoneStep,
                Goto, Materializing, Job
      <2>3. MoveBranch \/ TreeStep \/ IndexStep \/ StagingStep
            BY <1>4, <2>1, <2>2
            DEF Course, JobStep, RebaseStep, ReplayClean, ReplayConflict, ReplayFails, Persist,
                SaveQueue, FinishRebase, Unqueue, StashStep, PushStack, Unstack,
                RemoveEntry, Removed, WriteStep, DoneStep
      <2>4. CASE MoveBranch
            <3>1. /\ queue' = queue /\ UNCHANGED <<commit, work, index>>
                  /\ refs' = [refs EXCEPT ![queue.branch] = queue.original]
                  /\ job' = Materializing(job, queue.original, "unqueue")
                  <4>1. job.target = queue.original /\ job.step = "ref"
                        BY <1>4, <2>2, <2>4 DEF AbortHeld, MoveBranch
                  <4>2. /\ queue' = queue /\ UNCHANGED <<commit, work, index>>
                        /\ refs' = [refs EXCEPT ![queue.branch] = job.target]
                        BY <2>4 DEF MoveBranch
                  <4>3. job' = Materializing(job, job.target, "unqueue")
                        BY <2>1, <2>2, <2>4 DEF MoveBranch
                  <4>4. QED
                        BY <4>1, <4>2, <4>3
            <3>2. queue.branch \in Ref /\ refs \in [Ref -> State \cup {NoState}]
                  <4>1. queue # NoQueue
                        BY <1>4, <2>2 DEF AbortHeld
                  <4>2. queue \in Queue
                        BY <2>1, <4>1 DEF QueueInv
                  <4>3. queue.branch \in Branch
                        BY <4>2 DEF Queue
                  <4>4. refs \in [Ref -> State \cup {NoState}]
                        BY <2>1 DEF TypeOK
                  <4>5. QED
                        BY <4>3, <4>4 DEF Ref
            <3>3. refs'[queue.branch] = queue.original
                  BY <3>1, <3>2
            <3>4. /\ job'.target = queue.original /\ job'.step = "tree"
                  /\ job'.files = FilesOf(queue.original) /\ job'.put = Kept(job'.files)
                  BY <2>1, <3>1 DEF Materializing, Job
            <3>5. FilesOf(queue.original)' = FilesOf(queue.original)
                  BY <3>1 DEF FilesOf
            <3>6. QED
                  BY <1>4, <2>2, <3>1, <3>3, <3>4, <3>5 DEF AbortHeld, Kept
      <2>5. CASE TreeStep
            <3>1. /\ UNCHANGED <<queue, refs, commit, index>> /\ job.step = "tree"
                  /\ work' = Materialized(job.files, job.gone, job.put)
                  /\ job' = [job EXCEPT !.step = "index"]
                  BY <2>1, <2>2, <2>5
                  DEF TreeStep, Goto, JobStep, RebaseStep, ReplayClean, ReplayConflict,
                      ReplayFails, Persist, MoveBranch, SaveQueue, FinishRebase, Unqueue,
                      StashStep, PushStack, Unstack, RemoveEntry, Removed
            <3>2. /\ job.files = FilesOf(queue.original) /\ job.put = Kept(job.files)
                  /\ refs[queue.branch] = queue.original /\ job.target = queue.original
                  BY <1>4, <2>2, <3>1 DEF AbortHeld
            <3>3. \A q \in Kept(FilesOf(queue.original)) : work'[q] = FilesOf(queue.original)[q]
                  BY <3>1, <3>2 DEF Materialized, Kept
            <3>4. /\ job'.target = job.target /\ job'.step = "index"
                  /\ job'.files = job.files /\ job'.put = job.put
                  BY <2>1, <3>1 DEF Job
            <3>5. FilesOf(queue.original)' = FilesOf(queue.original)
                  BY <3>1 DEF FilesOf
            <3>6. QED
                  BY <1>4, <2>2, <3>1, <3>2, <3>3, <3>4, <3>5 DEF AbortHeld, Kept
      <2>6. CASE IndexStep
            <3>1. /\ UNCHANGED <<queue, refs, commit, work>> /\ job.step = "index"
                  /\ index' = [q \in Path |-> IF job.files[q] = Absent THEN NoState ELSE job.target]
                  /\ job' = [job EXCEPT !.step = "staging"]
                  BY <2>1, <2>2, <2>6
                  DEF IndexStep, Goto, JobStep, RebaseStep, ReplayClean, ReplayConflict,
                      ReplayFails, Persist, MoveBranch, SaveQueue, FinishRebase, Unqueue,
                      StashStep, PushStack, Unstack, RemoveEntry, Removed
            <3>2. /\ job.files = FilesOf(queue.original) /\ job.put = Kept(job.files)
                  /\ refs[queue.branch] = queue.original /\ job.target = queue.original
                  /\ \A q \in Kept(FilesOf(queue.original)) : work[q] = FilesOf(queue.original)[q]
                  BY <1>4, <2>2, <3>1 DEF AbortHeld
            <3>3. /\ job'.target = job.target /\ job'.step = "staging"
                  /\ job'.files = job.files /\ job'.put = job.put
                  BY <2>1, <3>1 DEF Job
            <3>4. FilesOf(queue.original)' = FilesOf(queue.original)
                  BY <3>1 DEF FilesOf
            <3>5. \A q \in Path : index'[q] = IF FilesOf(queue.original)[q] = Absent THEN NoState
                                             ELSE queue.original
                  BY <3>1, <3>2
            <3>6. QED
                  BY <1>4, <2>2, <3>1, <3>2, <3>3, <3>4, <3>5 DEF AbortHeld, Kept, IndexAt
      <2>7. CASE StagingStep
            <3>1. /\ UNCHANGED <<queue, refs, commit, work, index>> /\ job.step = "staging"
                  /\ job' = [job EXCEPT !.step = job.last]
                  BY <2>1, <2>2, <2>7
                  DEF StagingStep, Goto, JobStep, RebaseStep, ReplayClean, ReplayConflict,
                      ReplayFails, Persist, MoveBranch, SaveQueue, FinishRebase, Unqueue,
                      StashStep, PushStack, Unstack, RemoveEntry, Removed
            <3>2. /\ job'.target = job.target /\ job'.step = "unqueue"
                  /\ job'.files = job.files /\ job'.put = job.put
                  BY <1>4, <2>1, <2>2, <3>1 DEF Job, Course
            <3>3. FilesOf(queue.original)' = FilesOf(queue.original)
                  BY <3>1 DEF FilesOf
            <3>4. QED
                  BY <1>4, <2>2, <3>1, <3>2, <3>3 DEF AbortHeld, Kept, IndexAt
      <2>8. QED
            BY <2>3, <2>4, <2>5, <2>6, <2>7
<1>5. QED
      BY <1>2, <1>3, <1>4 DEF replayVars, rebaseVars, stores

\* When rebase --abort forgets the queue, the branch is at its original tip, index.json at
\* that state, and the files of it are on disk: for every history, wherever an earlier
\* rebase or --abort was killed, and whatever was run in between (rebase_abort_unlocked).
THEOREM AbortGoesBack == ReplaySpec => AbortRestores
<1>1. ReplayInit => AbortHeld
      BY DEF ReplayInit, AbortHeld
<1>2. ReplayInv /\ Course /\ AbortHeld /\ [ReplayNext]_replayVars => AbortHeld'
      BY AbortHeldNext
<1>3. ASSUME ReplayInv, Course, AbortHeld, [ReplayNext]_replayVars,
             queue # NoQueue, queue' = NoQueue, job.kind = "abort"
      PROVE  /\ refs[queue.branch] = queue.original
             /\ IndexAt(queue.original)
             /\ \A q \in Kept(FilesOf(queue.original)) :
                   work[q] = FilesOf(queue.original)[q]
      <2>1. job # NoJob /\ ReplayNext
            <3>1. ReplayNext
                  BY <1>3 DEF replayVars, rebaseVars
            <3>2. CASE job = NoJob
                  BY <1>3, <3>1, <3>2, NothingToStep
                  DEF ReplayNext, RebaseCommand, RebaseStart, Continue, Abort
            <3>3. QED
                  BY <3>1, <3>2
      <2>2. JobStep
            BY <1>3, <2>1, InFlight
      <2>3. Unqueue
            BY <1>3, <2>1, <2>2
            DEF Course, JobStep, RebaseStep, ReplayClean, ReplayConflict, ReplayFails, Persist,
                MoveBranch, SaveQueue, FinishRebase
      <2>4. QED
            BY <1>3, <2>1, <2>3 DEF Unqueue, AbortHeld
<1>4. QED
      BY <1>1, <1>2, <1>3, ReplayAlways, CourseAlways, PTL DEF ReplaySpec, AbortRestores

-----------------------------------------------------------------------------
(* stash push.                                                             *)

\* What push is about to take off the disk: an edit of a file of HEAD.
Taken(q) == HeadFiles[q] # Absent /\ work[q] \notin {HeadFiles[q], Absent}

\* The entry has it from before the stack lists the entry, and the tree is as it was.
PushHeld ==
    job # NoJob /\ job.kind = "push" =>
        /\ job.step = "stack" =>
              \A q \in Path : Taken(q) => entry[NextId].files[q] = work[q]
        /\ job.step = "tree" =>
              /\ \A q \in Path : Taken(q) => entry[Head(stack)].files[q] = work[q]
              /\ job.files = HeadFiles
              /\ job.put = Kept(HeadFiles) /\ job.gone = Stale(HeadFiles)

\* The stack is listed with the new id first.
LEMMA PushedFirst ==
    ASSUME ReplayInv, PushStack
    PROVE  Head(stack') = NextId /\ stack' \in Seq(StashId)
<1>1. NextId \in StashId /\ stack \in Seq(StashId) /\ stack' = <<NextId>> \o stack
      BY DEF PushStack, ReplayInv, StepInv, StackInv
<1>2. <<NextId>> \in Seq(StashId) /\ Len(<<NextId>>) = 1 /\ <<NextId>>[1] = NextId
      BY <1>1
<1>3. Len(stack) \in Nat /\ 1 \in 1 .. Len(<<NextId>>) + Len(stack)
      BY <1>1, <1>2
<1>4. (<<NextId>> \o stack)[1] = <<NextId>>[1]
      BY <1>1, <1>2, <1>3, ConcatProperties
<1>5. QED
      BY <1>1, <1>2, <1>4, ConcatProperties

LEMMA PushHeldNext ==
    ASSUME ReplayInv, Course, PushHeld, [ReplayNext]_replayVars
    PROVE  PushHeld'
<1>1. SUFFICES ASSUME job' # NoJob, job'.kind = "push", job'.step \in {"stack", "tree"}
               PROVE  PushHeld'
      BY DEF PushHeld
<1>2. CASE UNCHANGED <<job, refs, head, commit, work, index, stack, entry>>
      <2>1. HeadFiles' = HeadFiles
            BY <1>2 DEF HeadFiles, HeadState, FilesOf
      <2>2. NextId' = NextId
            BY <1>2 DEF NextId, Listed
      <2>3. \A q \in Path : Taken(q)' <=> Taken(q)
            BY <1>2, <2>1 DEF Taken
      <2>4. Kept(HeadFiles)' = Kept(HeadFiles) /\ Stale(HeadFiles)' = Stale(HeadFiles)
            BY <1>2, <2>1 DEF Kept, Stale
      <2>5. QED
            BY <1>2, <2>1, <2>2, <2>3, <2>4 DEF PushHeld
<1>3. CASE job = NoJob /\ ReplayNext
      <2>1. CASE RebaseCommand
            BY <1>1, <2>1 DEF RebaseCommand, RebaseStart, Continue, Abort, NewJob
      <2>2. CASE StashCommand(uses)
            <3>1. PICK p \in Proc, untracked \in BOOLEAN : Push(p, untracked)
                  <4>1. ASSUME NEW p \in Proc, NEW pos \in DOMAIN stack,
                               NEW kind \in {"apply", "pop"}, Apply(p, kind, pos)
                        PROVE  FALSE
                        BY <1>1, <4>1 DEF Apply, NewJob
                  <4>2. ASSUME NEW p \in Proc, NEW pos \in DOMAIN stack, Drop(p, pos)
                        PROVE  FALSE
                        BY <1>1, <4>2 DEF Drop, NewJob
                  <4>3. ASSUME NEW p \in Proc, Clear(p) PROVE FALSE
                        BY <1>1, <4>3 DEF Clear, NewJob
                  <4>4. QED
                        BY <2>2, <4>1, <4>2, <4>3 DEF StashCommand
            <3>2. /\ UNCHANGED <<commit, refs, head, work, stack>>
                  /\ entry' = [i \in DOMAIN entry \cup {NextId} |->
                                  IF i = NextId THEN [base |-> HeadState, files |-> Changed(untracked)]
                                  ELSE entry[i]]
                  /\ job'.step = "stack"
                  BY <3>1 DEF Push, NewJob
            <3>3. NextId' = NextId
                  BY <3>2 DEF NextId, Listed
            <3>4. HeadFiles' = HeadFiles
                  BY <3>2 DEF HeadFiles, HeadState, FilesOf
            <3>5. entry'[NextId].files = Changed(untracked)
                  BY <3>2
            <3>6. ASSUME NEW q \in Path, Taken(q) PROVE entry'[NextId].files[q] = work[q]
                  BY <3>5, <3>6 DEF Taken, Changed
            <3>7. QED
                  BY <3>2, <3>3, <3>4, <3>6 DEF PushHeld, Taken
      <2>3. ~JobStep /\ ~StopJob
            BY <1>3, NothingToStep
      <2>4. QED
            BY <1>1, <1>3, <2>1, <2>2, <2>3 DEF ReplayNext
<1>4. CASE job # NoJob /\ ReplayNext
      <2>1. job \in Job /\ ~End /\ JobStep
            BY <1>1, <1>4, InFlight DEF ReplayInv, JobInv, End, StopJob
      <2>2. job.kind = "push"
            BY <1>1, <1>4, <2>1
            DEF JobStep, RebaseStep, ReplayClean, ReplayConflict, ReplayFails, Persist,
                MoveBranch, SaveQueue, FinishRebase, Unqueue, StashStep, PushStack, Unstack,
                RemoveEntry, Removed, WriteStep, TreeStep, IndexStep, StagingStep, DoneStep,
                Goto, Materializing, Job
      <2>3. PushStack
            <3>1. PushStack \/ TreeStep \/ IndexStep \/ StagingStep
                  BY <1>4, <2>1, <2>2
                  DEF Course, JobStep, RebaseStep, ReplayClean, ReplayConflict, ReplayFails,
                      Persist, MoveBranch, SaveQueue, FinishRebase, Unqueue, StashStep, Unstack,
                      RemoveEntry, Removed, WriteStep, DoneStep
            <3>2. ~TreeStep /\ ~IndexStep /\ ~StagingStep
                  BY <1>1, <1>4, <2>1, <2>2 DEF TreeStep, IndexStep, StagingStep, Goto, Job, Course
            <3>3. QED
                  BY <3>1, <3>2
      <2>4. /\ UNCHANGED <<commit, refs, head, work, index, entry>> /\ job.step = "stack"
            /\ job' = Materializing(job, HeadState, "done")
            BY <2>3 DEF PushStack, Quiet, stores
      <2>5. Head(stack') = NextId
            BY <2>3, PushedFirst
      <2>6. HeadFiles' = HeadFiles /\ Stale(HeadFiles)' = Stale(HeadFiles)
            BY <2>4 DEF HeadFiles, HeadState, FilesOf, Stale
      <2>7. \A q \in Path : Taken(q) => entry[NextId].files[q] = work[q]
            BY <1>4, <2>2, <2>4 DEF PushHeld
      <2>8. /\ job'.step = "tree" /\ job'.files = HeadFiles
            /\ job'.put = Kept(HeadFiles) /\ job'.gone = Stale(HeadFiles)
            BY <2>1, <2>4 DEF Materializing, Job, HeadFiles
      <2>9. QED
            BY <2>4, <2>5, <2>6, <2>7, <2>8 DEF PushHeld, Taken, Kept
<1>5. QED
      BY <1>2, <1>3, <1>4 DEF replayVars, rebaseVars, stashVars, stores

\* Whatever stash push takes off the disk while it brings the tree back to HEAD, at once or
\* by the part of it that a kill leaves, is in the newest entry: an edit of any file of HEAD.
\* A file that HEAD lacks goes only when index.json lists it.
THEOREM PushKeepsWork == ReplaySpec => StashKeepsWork
<1>1. ReplayInit => PushHeld
      BY DEF ReplayInit, PushHeld
<1>2. ReplayInv /\ Course /\ PushHeld /\ [ReplayNext]_replayVars => PushHeld'
      BY PushHeldNext
<1>3. ASSUME ReplayInv, PushHeld, [ReplayNext]_replayVars, NEW q \in Path,
             job # NoJob, job.kind = "push", job.step = "tree",
             work[q] \notin {HeadFiles[q], Absent}, work'[q] # work[q]
      PROVE  \/ entry[Head(stack)].files[q] = work[q]
             \/ HeadFiles[q] = Absent /\ index[q] # NoState
      <2>1. TreeStep \/ StopJob
            <3>1. ReplayNext
                  BY <1>3 DEF replayVars, rebaseVars, stores
            <3>2. JobStep \/ StopJob
                  BY <1>3, <3>1, InFlight
            <3>3. QED
                  BY <1>3, <3>2
                  DEF JobStep, RebaseStep, ReplayClean, ReplayConflict, ReplayFails, Persist,
                      MoveBranch, SaveQueue, FinishRebase, Unqueue, StashStep, PushStack,
                      Unstack, RemoveEntry, Removed, WriteStep, IndexStep, StagingStep, DoneStep
      <2>2. PICK removed \in SUBSET (job.gone \cup job.put), written \in SUBSET job.put :
                  work' = Materialized(job.files, removed, written)
            <3>1. CASE TreeStep
                  BY <3>1 DEF TreeStep
            <3>2. CASE StopJob
                  <4>1. work' \in HalfWritten
                        BY <1>3, <3>2 DEF StopJob
                  <4>2. QED
                        BY <4>1 DEF HalfWritten
            <3>3. QED
                  BY <2>1, <3>1, <3>2
      <2>3. q \in Stale(HeadFiles) \cup Kept(HeadFiles)
            BY <1>3, <2>2 DEF Materialized, PushHeld
      <2>4. CASE HeadFiles[q] # Absent
            BY <1>3, <2>4 DEF PushHeld, Taken
      <2>5. CASE HeadFiles[q] = Absent
            BY <2>3, <2>5 DEF Stale, Kept
      <2>6. QED
            BY <2>4, <2>5
<1>4. ASSUME ReplayInv, PushHeld, [ReplayNext]_replayVars
      PROVE  \A q \in Path :
                /\ job # NoJob /\ job.kind = "push" /\ job.step = "tree"
                /\ work[q] \notin {HeadFiles[q], Absent} /\ work'[q] # work[q]
                => \/ entry[Head(stack)].files[q] = work[q]
                   \/ HeadFiles[q] = Absent /\ index[q] # NoState
      BY <1>3, <1>4
<1>5. QED
      BY <1>1, <1>2, <1>4, ReplayAlways, CourseAlways, PTL DEF ReplaySpec, StashKeepsWork

-----------------------------------------------------------------------------
(* stash pop.                                                              *)

\* What pop has to put on disk is the plan made before it wrote anything, and once it
\* goes on to the stack it is there.
PopHeld ==
    job # NoJob /\ job.kind = "pop" =>
        LET i == stack[job.pos]
        IN  /\ job.step = "tree" =>
                  \A q \in Recorded(i) :
                      IF StashPlan(i)[q] = Absent THEN q \in job.gone /\ q \notin job.put
                      ELSE q \in job.put /\ job.files[q] = StashPlan(i)[q]
            /\ job.step = "unstack" =>
                  \A q \in Recorded(i) : work[q] = StashPlan(i)[q]

\* The plan depends on the entry and on HEAD alone.
LEMMA PlanKept ==
    ASSUME NEW pos, UNCHANGED <<refs, head, commit, stack, entry>>, job'.pos = pos
    PROVE  /\ Recorded(stack[job.pos])' = Recorded(stack[pos])
           /\ StashPlan(stack[job.pos])' = StashPlan(stack[pos])
<1>1. entry'[stack'[job'.pos]] = entry[stack[pos]] /\ HeadFiles' = HeadFiles
      BY DEF HeadFiles, HeadState, FilesOf
<1>2. FilesOf(entry[stack[job.pos]].base)' = FilesOf(entry[stack[pos]].base)
      BY <1>1 DEF FilesOf
<1>3. QED
      BY <1>1, <1>2 DEF Recorded, Kept, StashPlan, Outcome

LEMMA PopHeldNext ==
    ASSUME ReplayInv, Course, PopHeld, [ReplayNext]_replayVars
    PROVE  PopHeld'
<1>1. SUFFICES ASSUME job' # NoJob, job'.kind = "pop", job'.step \in {"tree", "unstack"}
               PROVE  PopHeld'
      BY DEF PopHeld
<1>3. CASE UNCHANGED <<job, refs, head, commit, work, index, stack, entry>>
      <2>1. /\ Recorded(stack[job.pos])' = Recorded(stack[job.pos])
            /\ StashPlan(stack[job.pos])' = StashPlan(stack[job.pos])
            BY <1>3, PlanKept
      <2>2. QED
            BY <1>3, <2>1 DEF PopHeld
<1>4. CASE job = NoJob /\ ReplayNext
      <2>1. CASE RebaseCommand
            BY <1>1, <2>1 DEF RebaseCommand, RebaseStart, Continue, Abort, NewJob
      <2>2. CASE StashCommand(uses)
            <3>1. PICK p \in Proc, pos \in DOMAIN stack : Apply(p, "pop", pos)
                  <4>1. ASSUME NEW p \in Proc, NEW untracked \in BOOLEAN, Push(p, untracked)
                        PROVE  FALSE
                        BY <1>1, <4>1 DEF Push, NewJob
                  <4>2. ASSUME NEW p \in Proc, NEW pos \in DOMAIN stack, Drop(p, pos)
                        PROVE  FALSE
                        BY <1>1, <4>2 DEF Drop, NewJob
                  <4>3. ASSUME NEW p \in Proc, Clear(p) PROVE FALSE
                        BY <1>1, <4>3 DEF Clear, NewJob
                  <4>4. ASSUME NEW p \in Proc, NEW pos \in DOMAIN stack,
                               NEW kind \in {"apply", "pop"}, Apply(p, kind, pos)
                        PROVE  kind = "pop"
                        BY <1>1, <4>4 DEF Apply, NewJob
                  <4>5. QED
                        BY <2>2, <4>1, <4>2, <4>3, <4>4 DEF StashCommand
            <3>. DEFINE i    == stack[pos]
                        plan == StashPlan(i)
            <3>2. /\ UNCHANGED <<refs, head, commit, stack, entry>>
                  /\ job'.files = [q \in Path |-> IF q \in Recorded(i) THEN plan[q] ELSE Absent]
                  /\ job'.gone = {q \in Recorded(i) : plan[q] = Absent}
                  /\ job'.put = {q \in Recorded(i) : plan[q] # Absent}
                  /\ job'.pos = pos /\ job'.step = "tree"
                  BY <3>1 DEF Apply, NewJob, stashVars, Quiet, stores
            <3>3. /\ Recorded(stack[job.pos])' = Recorded(i)
                  /\ StashPlan(stack[job.pos])' = plan
                  BY <3>2, PlanKept
            <3>4. Recorded(i) \subseteq Path
                  BY DEF Recorded, Kept
            <3>. HIDE DEF i, plan
            <3>5. \A q \in Recorded(i) :
                      IF plan[q] = Absent THEN q \in job'.gone /\ q \notin job'.put
                      ELSE q \in job'.put /\ job'.files[q] = plan[q]
                  BY <3>2, <3>4
            <3>6. QED
                  BY <3>2, <3>3, <3>5 DEF PopHeld
      <2>3. ~JobStep /\ ~StopJob
            BY <1>4, NothingToStep
      <2>4. QED
            BY <1>1, <1>4, <2>1, <2>2, <2>3 DEF ReplayNext
<1>5. CASE job # NoJob /\ ReplayNext
      <2>1. job \in Job /\ ~End /\ JobStep
            BY <1>1, <1>5, InFlight DEF ReplayInv, JobInv, End, StopJob
      <2>2. job.kind = "pop"
            BY <1>1, <1>5, <2>1
            DEF JobStep, RebaseStep, ReplayClean, ReplayConflict, ReplayFails, Persist,
                MoveBranch, SaveQueue, FinishRebase, Unqueue, StashStep, PushStack, Unstack,
                RemoveEntry, Removed, WriteStep, TreeStep, IndexStep, StagingStep, DoneStep,
                Goto, Materializing, Job
      <2>3. TreeStep
            <3>1. TreeStep \/ Unstack \/ RemoveEntry
                  BY <1>5, <2>1, <2>2
                  DEF Course, JobStep, RebaseStep, ReplayClean, ReplayConflict, ReplayFails,
                      Persist, MoveBranch, SaveQueue, FinishRebase, Unqueue, StashStep,
                      PushStack, Removed, WriteStep, IndexStep, StagingStep, DoneStep
            <3>2. ~Unstack /\ ~RemoveEntry
                  BY <1>1, <2>1 DEF Unstack, RemoveEntry, Job
            <3>3. QED
                  BY <3>1, <3>2
      <2>4. /\ UNCHANGED <<commit, refs, head, stack, entry>> /\ job.step = "tree"
            /\ work' = Materialized(job.files, job.gone, job.put)
            /\ job' = [job EXCEPT !.step = "unstack"]
            BY <1>5, <2>1, <2>2, <2>3
            DEF TreeStep, Goto, Course, JobStep, RebaseStep, ReplayClean, ReplayConflict,
                ReplayFails, Persist, MoveBranch, SaveQueue, FinishRebase, Unqueue, StashStep,
                PushStack, Unstack, RemoveEntry, Removed, stashVars
      <2>5. job'.pos = job.pos /\ job'.step = "unstack"
            BY <2>1, <2>4 DEF Job
      <2>. DEFINE i == stack[job.pos]
      <2>6. Recorded(i) \subseteq Path
            BY DEF Recorded, Kept
      <2>7. \A q \in Recorded(i) : work'[q] = StashPlan(i)[q]
            BY <1>5, <2>2, <2>4, <2>6 DEF PopHeld, Materialized
      <2>8. Recorded(i)' = Recorded(i) /\ StashPlan(i)' = StashPlan(i)
            BY <2>4, <2>5, PlanKept
      <2>. HIDE DEF i
      <2>9. \A q \in Recorded(i)' : work'[q] = StashPlan(i)'[q]
            BY <2>7, <2>8
      <2>10. QED
            BY <2>5, <2>9 DEF PopHeld, i
<1>6. QED
      BY <1>3, <1>4, <1>5 DEF replayVars, rebaseVars, stashVars, stores

\* stash pop forgets an entry only with every path the entry recorded on disk as the merge
\* onto HEAD made it: whenever it is killed, the entry or the merged tree is still there.
THEOREM PopGivesBack == ReplaySpec => PopDelivers
<1>1. ReplayInit => PopHeld
      BY DEF ReplayInit, PopHeld
<1>2. ReplayInv /\ Course /\ PopHeld /\ [ReplayNext]_replayVars => PopHeld'
      BY PopHeldNext
<1>3. PopHeld => (job # NoJob /\ job.kind = "pop" /\ job.step = "unstack" /\ stack' # stack =>
                      LET i == stack[job.pos]
                      IN  \A q \in Recorded(i) : work[q] = StashPlan(i)[q])
      BY DEF PopHeld
<1>4. QED
      BY <1>1, <1>2, <1>3, ReplayAlways, CourseAlways, PTL DEF ReplaySpec, PopDelivers

-----------------------------------------------------------------------------
(* The stack and the entry files.                                          *)

\* No id is listed twice, and a file that drop or pop is to remove is of no listed id.
ListHeld ==
    /\ \A a, b \in DOMAIN stack : stack[a] = stack[b] => a = b
    /\ job # NoJob /\ job.step = "remove" /\ job.kind # "clear" =>
          \A k \in DOMAIN job.doomed : job.doomed[k] \notin Listed

\* next_stash_id gives an id past all that are listed.
LEMMA NextFresh ==
    ASSUME StackInv
    PROVE  NextId \notin Listed
<1>1. stack \in Seq(StashId) /\ MaxStash \in Nat
      BY StashAssumption DEF StackInv
<1>2. Listed \subseteq 0 .. MaxStash
      BY <1>1 DEF Listed, StashId
<1>3. CASE stack = <<>>
      BY <1>3 DEF Listed
<1>4. CASE stack # <<>>
      <2>1. 1 \in DOMAIN stack
            BY <1>1, <1>4
      <2>2. stack[1] \in Listed
            BY <2>1 DEF Listed
      <2>3. PICK i \in Listed : \A k \in Listed : i >= k
            BY <1>1, <1>2, <2>2, GreatestNumber
      <2>4. \A k \in Listed : k <= i
            BY <1>1, <1>2, <2>3
      <2>. DEFINE Top == CHOOSE k \in Listed : \A j \in Listed : j <= k
      <2>5. Top \in Listed /\ \A j \in Listed : j <= Top
            BY <2>4
      <2>6. NextId = 1 + Top
            BY <1>4 DEF NextId
      <2>. HIDE DEF Top
      <2>7. QED
            BY <1>1, <1>2, <2>5, <2>6
<1>5. QED
      BY <1>3, <1>4

\* No other step touches the stack; those that start or go on with a removal.
LEMMA ListHeldNext ==
    ASSUME ReplayInv, Course, ListHeld, [ReplayNext]_replayVars
    PROVE  ListHeld'
<1>1. stack \in Seq(StashId) /\ (job # NoJob => job \in Job)
      BY DEF ReplayInv, StackInv, JobInv
<1>2. CASE PushStack
      <2>1. /\ NextId \in StashId /\ stack' = <<NextId>> \o stack
            /\ job # NoJob /\ job' = Materializing(job, HeadState, "done")
            BY <1>2 DEF PushStack, ReplayInv, StepInv
      <2>2. <<NextId>> \in Seq(StashId) /\ Len(<<NextId>>) = 1 /\ <<NextId>>[1] = NextId
            BY <2>1
      <2>3. /\ stack' \in Seq(StashId) /\ Len(stack') = Len(stack) + 1
            /\ \A k \in 1 .. Len(stack) + 1 : stack'[k] = IF k = 1 THEN NextId ELSE stack[k - 1]
            <3>1. /\ stack' \in Seq(StashId) /\ Len(stack') = 1 + Len(stack)
                  /\ \A k \in 1 .. 1 + Len(stack) :
                        stack'[k] = IF k <= 1 THEN <<NextId>>[k] ELSE stack[k - 1]
                  BY <1>1, <2>1, <2>2, ConcatProperties
            <3>2. Len(stack) \in Nat
                  BY <1>1
            <3>3. \A k \in 1 .. Len(stack) + 1 : k <= 1 <=> k = 1
                  BY <3>2
            <3>4. 1 + Len(stack) = Len(stack) + 1
                  BY <3>2
            <3>5. QED
                  BY <2>2, <3>1, <3>3, <3>4
      <2>4. NextId \notin Listed
            BY NextFresh DEF ReplayInv
      <2>5. ASSUME NEW a \in DOMAIN stack', NEW b \in DOMAIN stack', stack'[a] = stack'[b]
            PROVE  a = b
            <3>1. Len(stack) \in Nat /\ DOMAIN stack = 1 .. Len(stack)
                  /\ a \in 1 .. Len(stack) + 1 /\ b \in 1 .. Len(stack) + 1
                  BY <1>1, <2>3, <2>5
            <3>2. ASSUME NEW k \in 1 .. Len(stack) + 1, k # 1
                  PROVE  k - 1 \in DOMAIN stack /\ stack'[k] = stack[k - 1] /\ stack'[k] # NextId
                  <4>1. k - 1 \in DOMAIN stack
                        BY <3>1, <3>2
                  <4>2. QED
                        BY <2>3, <2>4, <3>2, <4>1 DEF Listed
            <3>3. stack'[1] = NextId
                  BY <2>3, <3>1
            <3>4. CASE a = 1 \/ b = 1
                  BY <2>5, <3>1, <3>2, <3>3, <3>4
            <3>5. CASE a # 1 /\ b # 1
                  <4>1. a - 1 = b - 1
                        BY <2>5, <3>1, <3>2, <3>5 DEF ListHeld
                  <4>2. QED
                        BY <3>1, <4>1
            <3>6. QED
                  BY <3>4, <3>5
      <2>6. job'.step = "tree"
            BY <1>1, <2>1 DEF Materializing, Job
      <2>7. QED
            BY <2>5, <2>6 DEF ListHeld
<1>3. CASE Unstack
      <2>. DEFINE n == job.pos
      <2>1. /\ n \in DOMAIN stack /\ stack' = RemoveAt(stack, n)
            /\ job # NoJob /\ job' = [job EXCEPT !.step = "remove", !.doomed = <<stack[n]>>]
            BY <1>3 DEF Unstack, ReplayInv, StepInv
      <2>. HIDE DEF n
      <2>2. /\ stack' \in Seq(StashId) /\ Len(stack') = Len(stack) - 1
            /\ \A k \in 1 .. Len(stack) - 1 :
                  stack'[k] = IF k < n THEN stack[k] ELSE stack[k + 1]
            BY <1>1, <2>1, RemoveAtIs
      <2>3. Len(stack) \in Nat /\ DOMAIN stack = 1 .. Len(stack) /\ n \in 1 .. Len(stack)
            /\ DOMAIN stack' = 1 .. Len(stack) - 1
            BY <1>1, <2>1, <2>2
      <2>. DEFINE at(k) == IF k < n THEN k ELSE k + 1
      <2>4. \A k \in DOMAIN stack' : /\ at(k) \in DOMAIN stack /\ at(k) # n
                                     /\ stack'[k] = stack[at(k)]
            BY <2>2, <2>3
      <2>5. \A a, b \in DOMAIN stack' : at(a) = at(b) => a = b
            BY <2>3
      <2>. HIDE DEF at
      <2>6. \A a, b \in DOMAIN stack' : stack'[a] = stack'[b] => a = b
            BY <2>4, <2>5 DEF ListHeld
      <2>7. stack[n] \notin Listed'
            BY <2>1, <2>4 DEF Listed, ListHeld
      <2>8. job'.doomed = <<stack[n]>>
            BY <1>1, <2>1 DEF Job
      <2>9. \A k \in DOMAIN job'.doomed : job'.doomed[k] \notin Listed'
            BY <2>7, <2>8
      <2>10. QED
            BY <2>6, <2>9 DEF ListHeld
<1>4. CASE RemoveEntry
      <2>1. /\ job # NoJob /\ job.step = "remove" /\ stack' = stack /\ job.doomed # <<>>
            /\ job' = [job EXCEPT !.doomed = Tail(job.doomed)] /\ job \in Job
            BY <1>1, <1>4 DEF RemoveEntry
      <2>2. /\ job'.doomed = Tail(job.doomed) /\ job'.kind = job.kind
            /\ job.doomed \in Seq(Nat)
            BY <2>1 DEF Job
      <2>3. \A k \in DOMAIN job'.doomed : k + 1 \in DOMAIN job.doomed
                                         /\ job'.doomed[k] = job.doomed[k + 1]
            BY <2>1, <2>2
      <2>4. QED
            BY <2>1, <2>2, <2>3 DEF ListHeld, Listed
<1>5. CASE Removed
      <2>1. job' = NoJob /\ stack' \in {<<>>, stack}
            BY <1>5 DEF Removed, End
      <2>2. QED
            BY <2>1 DEF ListHeld
<1>6. CASE UNCHANGED <<stack, job>>
      BY <1>6 DEF ListHeld, Listed
<1>7. ASSUME stack' = stack, job' # NoJob => job'.step # "remove" \/ job'.kind = "clear"
      PROVE  ListHeld'
      BY <1>7 DEF ListHeld
<1>8. CASE RebaseCommand /\ UNCHANGED stashVars
      BY <1>7, <1>8 DEF RebaseCommand, RebaseStart, Continue, Abort, NewJob, stashVars
<1>9. CASE StashCommand(uses)
      <2>1. ASSUME NEW p \in Proc, NEW untracked \in BOOLEAN, Push(p, untracked) PROVE ListHeld'
            BY <1>7, <2>1 DEF Push, NewJob
      <2>2. ASSUME NEW p \in Proc, NEW pos \in DOMAIN stack, NEW kind \in {"apply", "pop"},
                   Apply(p, kind, pos)
            PROVE  ListHeld'
            BY <1>7, <2>2 DEF Apply, NewJob, stashVars
      <2>3. ASSUME NEW p \in Proc, NEW pos \in DOMAIN stack, Drop(p, pos) PROVE ListHeld'
            BY <1>7, <2>3 DEF Drop, NewJob, stashVars
      <2>4. ASSUME NEW p \in Proc, Clear(p) PROVE ListHeld'
            BY <1>7, <2>4 DEF Clear, NewJob, stashVars
      <2>5. QED
            BY <1>9, <2>1, <2>2, <2>3, <2>4 DEF StashCommand
<1>10. CASE RebaseStep /\ UNCHANGED stashVars
      <2>1. job # NoJob
            BY <1>10, NothingToStep DEF JobStep
      <2>2. job' # NoJob => job'.step # "remove"
            <3>1. CASE ReplayClean
                  BY <1>1, <2>1, <3>1 DEF ReplayClean, Job
            <3>2. CASE ReplayConflict
                  BY <1>1, <2>1, <3>2 DEF ReplayConflict, Job, End
            <3>3. CASE Persist
                  BY <1>1, <2>1, <3>3 DEF Persist, Job
            <3>4. CASE MoveBranch
                  BY <1>1, <2>1, <3>4 DEF MoveBranch, Job, End, Goto, Materializing
            <3>5. CASE SaveQueue
                  BY <1>1, <2>1, <3>5 DEF SaveQueue, Job, Materializing
            <3>6. CASE FinishRebase
                  BY <1>1, <2>1, <3>6 DEF FinishRebase, Job, Materializing
            <3>7. CASE ReplayFails \/ Unqueue
                  BY <3>7 DEF ReplayFails, Unqueue, End
            <3>8. QED
                  BY <1>10, <3>1, <3>2, <3>3, <3>4, <3>5, <3>6, <3>7 DEF RebaseStep
      <2>3. QED
            BY <1>7, <1>10, <2>2 DEF stashVars
<1>11. CASE (WriteStep \/ StopJob) /\ UNCHANGED stashVars
      <2>1. job' # NoJob => job'.step # "remove"
            BY <1>1, <1>11
            DEF WriteStep, TreeStep, IndexStep, StagingStep, DoneStep, StopJob, Goto, End, Job
      <2>2. QED
            BY <1>7, <1>11, <2>1 DEF stashVars
<1>12. QED
      BY <1>2, <1>3, <1>4, <1>5, <1>6, <1>8, <1>9, <1>10, <1>11
      DEF ReplayNext, JobStep, StashStep, replayVars, rebaseVars, stashVars

\* No stash command but clear removes the entry file of a stash that stays listed, and push
\* never gives a new stash the id, and so the file, of a listed one: for any number of
\* stashes, wherever commands are killed (remove_stash_at, next_stash_id).
THEOREM ListedStay == ReplaySpec => ListedHaveEntries
<1>1. ReplayInit => ListHeld
      BY DEF ReplayInit, ListHeld
<1>2. ReplayInv /\ Course /\ ListHeld /\ [ReplayNext]_replayVars => ListHeld'
      BY ListHeldNext
<1>3. ASSUME ReplayInv, Course, ListHeld, [ReplayNext]_replayVars,
             NEW i \in Listed', i \in DOMAIN entry, i \notin DOMAIN entry'
      PROVE  job.kind = "clear"
      <2>1. ReplayNext
            BY <1>3 DEF replayVars, stashVars
      <2>2. RemoveEntry
            <3>1. ASSUME NEW p \in Proc, NEW untracked \in BOOLEAN, Push(p, untracked) PROVE FALSE
                  BY <1>3, <3>1 DEF Push
            <3>2. ~StashCommand(uses)
                  BY <1>3, <3>1 DEF StashCommand, Apply, Drop, Clear, stashVars
            <3>3. ~PushStack /\ ~Unstack /\ ~Removed
                  BY <1>3 DEF PushStack, Unstack, Removed
            <3>4. QED
                  BY <1>3, <2>1, <3>2, <3>3 DEF ReplayNext, JobStep, StashStep, stashVars
      <2>3. /\ job # NoJob /\ job.step = "remove" /\ job.doomed # <<>> /\ stack' = stack
            /\ DOMAIN entry' = DOMAIN entry \ {Head(job.doomed)}
            BY <2>2 DEF RemoveEntry
      <2>4. i = Head(job.doomed) /\ i \in Listed
            BY <1>3, <2>3 DEF Listed
      <2>5. job.doomed \in Seq(Nat)
            BY <1>3, <2>3 DEF Job, ReplayInv, JobInv
      <2>6. 1 \in DOMAIN job.doomed /\ Head(job.doomed) = job.doomed[1]
            BY <2>3, <2>5
      <2>7. QED
            BY <1>3, <2>3, <2>4, <2>6 DEF ListHeld
<1>4. ASSUME ReplayInv, Course, ListHeld, [ReplayNext]_replayVars
      PROVE  \A i \in Listed' : i \in DOMAIN entry => i \in DOMAIN entry' \/ job.kind = "clear"
      BY <1>3, <1>4
<1>5. QED
      BY <1>1, <1>2, <1>4, ReplayAlways, CourseAlways, PTL DEF ReplaySpec, ListedHaveEntries

-----------------------------------------------------------------------------
(* The history under a rebase.                                             *)

\* Nothing is forgotten, and ids name earlier states.
GraphInv == timeline = DOMAIN commit /\ Acyclic(Parents)

\* A step records the state s with parents P.
Adds(s, P) ==
    /\ s \in DOMAIN commit => commit[s].parents = P
    /\ DOMAIN commit' = DOMAIN commit \cup {s} /\ timeline' = timeline \cup {s}
    /\ commit'[s].parents = P
    /\ \A t \in DOMAIN commit : commit'[t].parents = commit[t].parents

LEMMA AddsParents ==
    ASSUME RepoInv, RepoInv', GraphInv, NEW s \in State, NEW P \in SUBSET timeline, Adds(s, P)
    PROVE  /\ GraphInv'
           /\ Parents'[s] = P
           /\ \A t \in State \ {s} : Parents'[t] = Parents[t]
           /\ \A t \in timeline : Parents'[t] = Parents[t]
<1>1. Parents \in [State -> SUBSET State]
      BY ParentsTyped
<1>2. Parents' \in [State -> SUBSET State]
      <2>1. TypeOK'
            BY DEF RepoInv
      <2>2. QED
            BY <2>1 DEF TypeOK, Parents, Entry
<1>3. timeline = DOMAIN commit /\ Acyclic(Parents) /\ timeline \in SUBSET State
      BY DEF GraphInv, RepoInv, TypeOK
<1>4. /\ Parents'[s] = P
      /\ \A t \in State \ {s} : Parents'[t] = Parents[t]
      /\ \A t \in timeline : Parents'[t] = Parents[t]
      /\ \A t \in State \ timeline : Parents[t] = {}
      BY <1>3 DEF Adds, Parents
<1>5. ParentClosed(Parents, timeline)
      BY DEF RepoInv, TimelineInv
<1>6. Acyclic(Parents')
      <2>1. CASE s \in timeline
            <3>1. Parents' = Parents
                  BY <1>1, <1>2, <1>4, <2>1
            <3>2. QED
                  BY <1>3, <3>1
      <2>2. CASE s \notin timeline
            <3>1. s \in State \ timeline /\ Parents'[s] \subseteq timeline
                  BY <1>4, <2>2
            <3>2. QED
                  BY <1>1, <1>2, <1>3, <1>4, <1>5, <3>1, AcyclicGrows
      <2>3. QED
            BY <2>1, <2>2
<1>7. timeline' = DOMAIN commit'
      BY <1>3 DEF Adds
<1>8. QED
      BY <1>4, <1>6, <1>7 DEF GraphInv

\* Only a replayed commit and a user's commit are recorded.
LEMMA HistorySteps ==
    ASSUME ReplayInv, [ReplayNext]_replayVars
    PROVE  \/ UNCHANGED <<commit, timeline>>
           \/ job # NoJob /\ Persist
           \/ job = NoJob /\ \E p \in Proc : WriteTimeline(p)
<1>1. CASE UNCHANGED replayVars
      BY <1>1 DEF replayVars, rebaseVars, stores
<1>2. CASE job = NoJob /\ ReplayNext
      <2>1. ~JobStep /\ ~StopJob
            BY <1>2, NothingToStep
      <2>2. CASE RebaseCommand
            BY <2>2 DEF RebaseCommand, RebaseStart, Continue, Abort, Quiet, stores
      <2>3. CASE StashCommand(uses)
            BY <2>3 DEF StashCommand, Push, Apply, Drop, Clear, Quiet, stores
      <2>4. CASE UserNext
            <3>1. ASSUME NEW p \in Proc, Run(p)
                  PROVE  UNCHANGED <<commit, timeline>> \/ WriteTimeline(p)
                  BY <3>1 DEF Run, Resume, FinishGuard, WriteBlobs, WriteTree, WriteIndex,
                              ClearStaging, WriteRef, stores
            <3>2. ASSUME NEW p \in Proc, Stop(p) \/ Commit(p) PROVE UNCHANGED <<commit, timeline>>
                  BY <3>2 DEF Stop, Commit, Begin, stores
            <3>3. ASSUME NEW p \in Proc, NEW b \in Branch, Checkout(p, b, FALSE)
                  PROVE  UNCHANGED <<commit, timeline>>
                  BY <3>3 DEF Checkout, Begin, stores
            <3>4. ASSUME NEW q \in Path, NEW content \in Content \cup {Absent}, UserEdit(q, content)
                  PROVE  UNCHANGED <<commit, timeline>>
                  BY <3>4 DEF UserEdit
            <3>5. ASSUME NEW q \in Path, Add({q}) PROVE UNCHANGED <<commit, timeline>>
                  BY <3>5 DEF Add
            <3>6. QED
                  BY <1>2, <2>4, <3>1, <3>2, <3>3, <3>4, <3>5 DEF UserNext
      <2>5. QED
            BY <1>2, <2>1, <2>2, <2>3, <2>4 DEF ReplayNext
<1>3. CASE job # NoJob /\ ReplayNext
      <2>1. CASE StopJob
            BY <2>1 DEF StopJob
      <2>2. CASE RebaseStep
            BY <1>3, <2>2
            DEF RebaseStep, ReplayClean, ReplayConflict, ReplayFails, MoveBranch, SaveQueue,
                FinishRebase, Unqueue, Quiet, stores
      <2>3. CASE StashStep
            BY <2>3 DEF StashStep, PushStack, Unstack, RemoveEntry, Removed, Quiet, stores
      <2>4. CASE WriteStep
            BY <2>4 DEF WriteStep, TreeStep, IndexStep, StagingStep, DoneStep, stores
      <2>5. QED
            BY <1>3, <2>1, <2>2, <2>3, <2>4, InFlight DEF JobStep
<1>4. QED
      BY <1>1, <1>2, <1>3

LEMMA PersistAdds ==
    ASSUME ReplayInv, Persist
    PROVE  \E s \in State : /\ Adds(s, {queue.current})
                            /\ job' = [job EXCEPT !.step = "ref", !.target = s]
<1>. DEFINE e == [parents |-> {queue.current}, files |-> job.files]
<1>1. PICK s \in IdsFor(e) :
            /\ commit' = [t \in DOMAIN commit \cup {s} |-> IF t = s THEN e ELSE commit[t]]
            /\ timeline' = timeline \cup {s}
            /\ job' = [job EXCEPT !.step = "ref", !.target = s]
      BY DEF Persist
<1>2. s \in State /\ (s \in DOMAIN commit => commit[s] = e)
      BY DEF IdsFor
<1>3. Adds(s, {queue.current})
      BY <1>1, <1>2 DEF Adds
<1>4. QED
      BY <1>1, <1>2, <1>3

LEMMA WriteTimelineAdds ==
    ASSUME NEW p, WriteTimeline(p)
    PROVE  \E s \in State : Adds(s, cmd[p].parents)
<1>. DEFINE e == [parents |-> cmd[p].parents, files |-> cmd[p].files]
<1>1. PICK s \in State :
            /\ s \in DOMAIN commit => commit[s] = e
            /\ commit' = [t \in DOMAIN commit \cup {s} |-> IF t = s THEN e ELSE commit[t]]
            /\ timeline' = timeline \cup {s}
      BY DEF WriteTimeline
<1>2. Adds(s, cmd[p].parents)
      BY <1>1 DEF Adds
<1>3. QED
      BY <1>2

\* What is recorded hangs off states that are.
LEMMA GraphNext ==
    ASSUME ReplayInv, ReplayInv', GraphInv, [ReplayNext]_replayVars
    PROVE  /\ GraphInv'
           /\ \A t \in timeline : Parents'[t] = Parents[t]
<1>1. CASE UNCHANGED <<commit, timeline>>
      BY <1>1 DEF GraphInv, Parents
<1>2. CASE job # NoJob /\ Persist
      <2>1. PICK s \in State : Adds(s, {queue.current})
            BY <1>2, PersistAdds
      <2>2. {queue.current} \in SUBSET timeline
            BY <1>2 DEF Persist, ReplayInv, StepInv, QueueInv
      <2>3. QED
            BY <2>1, <2>2, AddsParents DEF ReplayInv
<1>3. CASE \E p \in Proc : WriteTimeline(p)
      <2>1. PICK p \in Proc : WriteTimeline(p)
            BY <1>3
      <2>2. PICK s \in State : Adds(s, cmd[p].parents)
            BY <2>1, WriteTimelineAdds
      <2>3. cmd[p].parents \in SUBSET timeline
            BY <2>1 DEF WriteTimeline, ReplayInv, RepoInv, FlightInv, Planning
      <2>4. QED
            BY <2>2, <2>3, AddsParents DEF ReplayInv
<1>4. QED
      BY <1>1, <1>2, <1>3, HistorySteps

LEMMA GraphInit == ReplayInit => GraphInv
<1>1. SUFFICES ASSUME ReplayInit PROVE GraphInv
      OBVIOUS
<1>2. PICK c \in Scenarios :
          commit = [s \in DOMAIN Lineage |-> [parents |-> Lineage[s], files |-> c.files[s]]]
      BY <1>1 DEF ReplayInit
<1>. DEFINE L == DOMAIN Lineage
<1>3. timeline = L /\ DOMAIN commit = L /\ L \in SUBSET State
      BY <1>1, <1>2, ReplayAssumption DEF ReplayInit
<1>4. Parents \in [State -> SUBSET State]
      BY <1>1, ReplayInitInv, ParentsTyped DEF ReplayInv
<1>5. /\ \A s \in L : Parents[s] = Lineage[s]
      /\ \A s \in State \ L : Parents[s] = {}
      BY <1>2, <1>3 DEF Parents
<1>6. \A s \in L : \A t \in Lineage[s] : t \in L /\ s \notin Reachable(Lineage, {t})
      BY ReplayAssumption DEF IsAncestorOf
<1>7. ASSUME NEW t \in L PROVE Reachable(Parents, {t}) \subseteq Reachable(Lineage, {t})
      <2>. DEFINE R == Reachable(Lineage, {t})
      <2>1. Lineage \in [L -> SUBSET L]
            BY ReplayAssumption
      <2>2. t \in R /\ R \subseteq L /\ ParentClosed(Lineage, R)
            BY <2>1, AncestorSelf, ReachableClosed
      <2>. HIDE DEF R
      <2>3. {t} \subseteq R /\ R \in SUBSET DOMAIN Parents /\ ParentClosed(Parents, R)
            BY <1>3, <1>4, <1>5, <2>2 DEF ParentClosed
      <2>4. Reachable(Parents, {t}) \subseteq R
            BY <2>3, ReachableLeast
      <2>5. QED
            BY <2>4 DEF R
<1>8. ASSUME NEW s \in State, NEW t \in Parents[s] PROVE s \notin Reachable(Parents, {t})
      <2>1. s \in L /\ t \in Lineage[s]
            BY <1>5, <1>8
      <2>2. QED
            BY <1>6, <1>7, <2>1
<1>9. QED
      BY <1>3, <1>4, <1>8 DEF GraphInv, Acyclic, IsAncestorOf

-----------------------------------------------------------------------------
(* The queue of a rebase.                                                  *)

\* The commits replayed and those left to replay.
Tally == Len(queue.remaining) + Distance(Parents, queue.current, queue.onto)

\* What the branch had that onto lacked.
Owed == Lacking(Parents, queue.original, queue.onto)

\* A replayed commit hangs off the last one, and the branch names it before the queue
\* does.
MovedInv ==
    job # NoJob =>
        /\ job.step \in {"ref", "queue"} /\ job.kind # "abort" =>
              Parents[job.target] = {queue.current}
        /\ job.step = "queue" => refs[queue.branch] = job.target
        /\ job.step = "replay" /\ queue.remaining = <<>> =>
              refs[queue.branch] = queue.current

\* What a rebase starts with: the commits down to a merge base, and none replayed.
LEMMA StartTally ==
    ASSUME ReplayInv, ReplayInv', GraphInv, NEW p \in Proc, NEW upstream \in Resolvable,
           NEW force \in BOOLEAN, RebaseStart(p, upstream, force)
    PROVE  \E base \in MergeBases(Parents, HeadState, upstream) :
              /\ LinearTo(Parents, HeadState, base)
              /\ queue'.original = HeadState /\ queue'.onto = upstream
              /\ Tally' = Distance(Parents, HeadState, base)
              /\ queue'.remaining # <<>>
              /\ QueueFollows'
<1>1. HeadState \in State /\ upstream \in State
      BY ResolvableKnown DEF ReplayInv, RepoInv, TipsInv, TypeOK
<1>2. PICK base \in MergeBases(Parents, HeadState, upstream) :
          /\ LinearTo(Parents, HeadState, base) /\ base # HeadState
          /\ queue' = [branch |-> head, onto |-> upstream, original |-> HeadState,
                       current |-> upstream, remaining |-> Commits(Parents, HeadState, base),
                       conflicted |-> NoState]
      BY DEF RebaseStart
<1>3. Parents' = Parents /\ Parents \in [State -> SUBSET State] /\ Acyclic(Parents)
      BY ParentsTyped DEF RebaseStart, Quiet, stores, Parents, ReplayInv, GraphInv
<1>4. base \in State
      BY <1>2, BaseIsAncestor, <1>3 DEF IsAncestorOf, Reachable
<1>. DEFINE n == Distance(Parents, HeadState, base)
            w == Walk(Parents, HeadState)
            c == Commits(Parents, HeadState, base)
<1>5. /\ n \in 0 .. Cardinality(State) /\ w[n] = base
      /\ c \in Seq(State) /\ Len(c) = n /\ \A i \in 1 .. n : c[i] = w[n - i]
      BY <1>1, <1>2, <1>3, <1>4, CommitsIs
<1>6. Cardinality(State) \in Nat /\ w[0] = HeadState /\ Walk(Parents, upstream)[0] = upstream
      BY <1>1, <1>3, WalkIs DEF Walks
<1>7. LinearTo(Parents, upstream, upstream) /\ Distance(Parents, upstream, upstream) = 0
      <2>1. 0 \in 0 .. Cardinality(State)
            BY <1>6
      <2>2. QED
            BY <1>1, <1>3, <1>6, <2>1, DistanceIs
<1>8. n # 0 /\ n \in Nat
      BY <1>2, <1>5, <1>6
<1>. HIDE DEF n, w, c
<1>9. /\ queue'.original = HeadState /\ queue'.onto = upstream /\ queue'.current = upstream
      /\ queue'.remaining = c
      BY <1>2 DEF c
<1>10. Tally' = n
      BY <1>3, <1>5, <1>7, <1>8, <1>9 DEF Tally
<1>11. c # <<>>
      BY <1>5, <1>8
<1>12. QueueFollows'
      <2>1. \A i \in 1 .. Len(c) : c[i] = Walk(Parents, HeadState)[Len(c) - i]
            BY <1>5 DEF w
      <2>2. QED
            BY <1>3, <1>7, <1>9, <2>1 DEF QueueFollows
<1>13. QED
      BY <1>2, <1>9, <1>10, <1>11, <1>12 DEF n

\* A queue goes on as it was, but for the mark of a conflict, or has its first commit
\* replayed; what else is recorded meanwhile does not touch what it names.
LEMMA QueueSteps ==
    ASSUME ReplayInv, ReplayInv', [ReplayNext]_replayVars, queue # NoQueue, queue' # NoQueue
    PROVE  \/ /\ queue'.onto = queue.onto /\ queue'.original = queue.original
              /\ queue'.current = queue.current /\ queue'.remaining = queue.remaining
              /\ queue'.branch = queue.branch
           \/ /\ job # NoJob /\ SaveQueue
              /\ queue' = Replayed(queue, job.target)
              /\ job' = [job EXCEPT !.step = "replay", !.kind = "rebase"]
<1>1. queue \in Queue
      BY DEF ReplayInv, QueueInv
<1>2. CASE job # NoJob /\ ReplayConflict
      BY <1>1, <1>2 DEF ReplayConflict, Queue
<1>3. CASE job # NoJob /\ SaveQueue
      BY <1>3 DEF SaveQueue
<1>4. CASE queue' = queue
      BY <1>4
<1>5. CASE ReplayNext
      <2>1. RebaseCommand => queue' = queue
            BY DEF RebaseCommand, RebaseStart, Continue, Abort
      <2>2. RebaseStep => queue' = queue \/ (job # NoJob /\ (ReplayConflict \/ SaveQueue))
            BY DEF RebaseStep, ReplayClean, ReplayConflict, ReplayFails, Persist, MoveBranch,
                   SaveQueue, FinishRebase, Unqueue
      <2>3. QED
            BY <1>2, <1>3, <1>4, <1>5, <2>1, <2>2 DEF ReplayNext, JobStep
<1>6. QED
      BY <1>4, <1>5 DEF replayVars, rebaseVars

\* So no commit is dropped from it, and none is added.
LEMMA TallyKept ==
    ASSUME ReplayInv, ReplayInv', Course, GraphInv, GraphInv', QueueFollows, MovedInv,
           [ReplayNext]_replayVars, queue # NoQueue, queue' # NoQueue
    PROVE  /\ QueueFollows'
           /\ Tally' = Tally
           /\ Owed' = Owed
<1>1. /\ queue \in Queue /\ timeline \in SUBSET State
      /\ {queue.onto, queue.original, queue.current} \subseteq timeline
      /\ {queue.onto, queue.original, queue.current} \subseteq State
      BY DEF ReplayInv, QueueInv, RepoInv, TypeOK
<1>2. Parents \in [State -> SUBSET State] /\ Acyclic(Parents)
      BY ParentsTyped DEF ReplayInv, GraphInv
<1>3. Parents' \in [State -> SUBSET State]
      <2>1. TypeOK'
            BY DEF ReplayInv, RepoInv
      <2>2. QED
            BY <2>1 DEF TypeOK, Parents, Entry
<1>4. ParentClosed(Parents, timeline) /\ \A t \in timeline : Parents'[t] = Parents[t]
      BY GraphNext DEF ReplayInv, RepoInv, TimelineInv
<1>5. /\ LinearTo(Parents, queue.current, queue.onto)
      /\ \A i \in 1 .. Len(queue.remaining) :
            queue.remaining[i] = Walk(Parents, queue.original)[Len(queue.remaining) - i]
      BY DEF QueueFollows
<1>6. \A t \in timeline : Walk(Parents', t) = Walk(Parents, t)
      BY <1>1, <1>2, <1>3, <1>4, WalkKept
<1>7. \A t \in timeline : Reachable(Parents', {t}) = Reachable(Parents, {t})
      <2>1. \A t \in timeline : {t} \in SUBSET timeline
            OBVIOUS
      <2>2. QED
            BY <1>1, <1>2, <1>3, <1>4, <2>1, ReachableKept
<1>8. CASE /\ queue'.onto = queue.onto /\ queue'.original = queue.original
           /\ queue'.current = queue.current /\ queue'.remaining = queue.remaining
      <2>1. /\ Walk(Parents', queue'.original) = Walk(Parents, queue.original)
            /\ Walk(Parents', queue'.current) = Walk(Parents, queue.current)
            BY <1>1, <1>6, <1>8
      <2>2. /\ LinearTo(Parents', queue'.current, queue'.onto)
            /\ Distance(Parents', queue'.current, queue'.onto)
                  = Distance(Parents, queue.current, queue.onto)
            BY <1>5, <1>8, <2>1 DEF LinearTo, Distance
      <2>3. QueueFollows'
            BY <1>5, <1>8, <2>1, <2>2 DEF QueueFollows
      <2>4. Tally' = Tally
            BY <1>8, <2>2 DEF Tally
      <2>5. Owed' = Owed
            BY <1>1, <1>7, <1>8 DEF Owed, Lacking
      <2>6. QED
            BY <2>3, <2>4, <2>5
<1>9. CASE /\ job # NoJob /\ SaveQueue
           /\ queue' = Replayed(queue, job.target)
           /\ job' = [job EXCEPT !.step = "replay", !.kind = "rebase"]
      <2>1. /\ job.step = "queue" /\ Parents' = Parents /\ job \in Job
            /\ queue.remaining # <<>> /\ job.target \in timeline
            BY <1>9 DEF SaveQueue, Quiet, stores, Parents, ReplayInv, JobInv, StepInv
      <2>2. job.kind # "abort" /\ job.target \in State
            BY <1>1, <1>9, <2>1 DEF Course
      <2>3. Parents[job.target] = {queue.current}
            BY <1>9, <2>1, <2>2 DEF MovedInv
      <2>4. /\ queue'.onto = queue.onto /\ queue'.original = queue.original
            /\ queue'.current = job.target /\ queue'.remaining = Tail(queue.remaining)
            BY <1>1, <1>9 DEF Replayed, Queue
      <2>5. /\ LinearTo(Parents, job.target, queue.onto)
            /\ Distance(Parents, job.target, queue.onto)
                  = Distance(Parents, queue.current, queue.onto) + 1
            BY <1>1, <1>2, <1>5, <2>2, <2>3, DistanceGrows
      <2>6. Distance(Parents, queue.current, queue.onto) \in Nat
            <3>1. Distance(Parents, queue.current, queue.onto) \in 0 .. Cardinality(State)
                  BY <1>1, <1>2, <1>5, CommitsIs
            <3>2. Cardinality(State) \in Nat
                  BY <1>1, <1>2, WalkIs
            <3>3. QED
                  BY <3>1, <3>2
      <2>. DEFINE r == queue.remaining
                  v == Walk(Parents, queue.original)
      <2>7. r \in Seq(State) /\ r # <<>> /\ \A i \in 1 .. Len(r) : r[i] = v[Len(r) - i]
            BY <1>1, <1>5, <2>1 DEF Queue
      <2>8. /\ Len(r) \in Nat /\ Len(Tail(r)) = Len(r) - 1 /\ Len(Tail(r)) \in Nat
            /\ \A i \in 1 .. Len(Tail(r)) : Tail(r)[i] = r[i + 1]
            BY <2>7
      <2>9. \A i \in 1 .. Len(Tail(r)) : Tail(r)[i] = v[Len(Tail(r)) - i]
            <3>. HIDE DEF r, v
            <3>1. SUFFICES ASSUME NEW i \in 1 .. Len(Tail(r))
                           PROVE  Tail(r)[i] = v[Len(Tail(r)) - i]
                  OBVIOUS
            <3>2. i + 1 \in 1 .. Len(r) /\ Len(r) - (i + 1) = Len(Tail(r)) - i
                  BY <2>8
            <3>3. r[i + 1] = v[Len(r) - (i + 1)]
                  BY <2>7, <3>2
            <3>4. QED
                  BY <2>8, <3>2, <3>3
      <2>10. QueueFollows'
            BY <2>1, <2>4, <2>5, <2>9 DEF QueueFollows
      <2>11. Tally' = Tally
            BY <2>1, <2>4, <2>5, <2>6, <2>8 DEF Tally
      <2>12. Owed' = Owed
            BY <2>1, <2>4 DEF Owed
      <2>13. QED
            BY <2>10, <2>11, <2>12
<1>10. QED
      BY <1>8, <1>9, QueueSteps

LEMMA MovedNext ==
    ASSUME ReplayInv, ReplayInv', Course, GraphInv, MovedInv, [ReplayNext]_replayVars
    PROVE  MovedInv'
<1>1. CASE UNCHANGED <<job, queue, refs, commit>>
      BY <1>1 DEF MovedInv, Parents
<1>2. CASE job' = NoJob
      BY <1>2 DEF MovedInv
<1>3. CASE job = NoJob /\ ReplayNext
      <2>1. ~JobStep /\ ~StopJob
            BY <1>3, NothingToStep
      <2>2. CASE RebaseCommand
            <3>1. ASSUME NEW p \in Proc, NEW force \in BOOLEAN, NEW s \in Upstream \cap Resolvable,
                         RebaseStart(p, s, force)
                  PROVE  MovedInv'
                  <4>1. queue'.remaining # <<>>
                        BY <3>1, StartTally
                  <4>2. job'.step = "replay"
                        BY <3>1 DEF RebaseStart, NewJob
                  <4>3. QED
                        BY <4>1, <4>2 DEF MovedInv
            <3>2. ASSUME NEW p \in Proc, NEW force \in BOOLEAN, Continue(p, force)
                  PROVE  MovedInv'
                  BY <3>2 DEF Continue, NewJob, MovedInv
            <3>3. ASSUME NEW p \in Proc, Abort(p)
                  PROVE  MovedInv'
                  BY <3>3 DEF Abort, NewJob, MovedInv
            <3>4. QED
                  BY <2>2, <3>1, <3>2, <3>3 DEF RebaseCommand
      <2>3. CASE StashCommand(uses)
            <3>1. job'.step \in {"stack", "tree", "unstack", "remove"}
                  <4>1. ASSUME NEW p \in Proc, NEW untracked \in BOOLEAN, Push(p, untracked)
                        PROVE  job'.step = "stack"
                        BY <4>1 DEF Push, NewJob
                  <4>2. ASSUME NEW p \in Proc, NEW pos \in DOMAIN stack,
                               NEW kind \in {"apply", "pop"}, Apply(p, kind, pos)
                        PROVE  job'.step = "tree"
                        BY <4>2 DEF Apply, NewJob
                  <4>3. ASSUME NEW p \in Proc, NEW pos \in DOMAIN stack, Drop(p, pos)
                        PROVE  job'.step \in {"unstack", "remove"}
                        BY <4>3 DEF Drop, NewJob
                  <4>4. ASSUME NEW p \in Proc, Clear(p) PROVE job'.step = "remove"
                        BY <4>4 DEF Clear, NewJob
                  <4>5. QED
                        BY <2>3, <4>1, <4>2, <4>3, <4>4 DEF StashCommand
            <3>2. QED
                  BY <3>1 DEF MovedInv
      <2>4. QED
            BY <1>2, <1>3, <2>1, <2>2, <2>3 DEF ReplayNext
<1>4. CASE job # NoJob /\ job' # NoJob /\ ReplayNext
      <2>1. job \in Job /\ JobStep
            BY <1>4, InFlight DEF ReplayInv, JobInv, StopJob, End
      <2>2. CASE RebaseStep
            <3>1. CASE ReplayClean
                  BY <2>1, <3>1 DEF ReplayClean, MovedInv, Job
            <3>2. CASE ReplayConflict
                  BY <1>4, <2>1, <3>2 DEF ReplayConflict, End, MovedInv, Job
            <3>3. CASE ReplayFails
                  BY <1>4, <3>3 DEF ReplayFails, End
            <3>4. CASE Persist
                  <4>1. PICK s \in State : /\ Adds(s, {queue.current})
                                           /\ job' = [job EXCEPT !.step = "ref", !.target = s]
                        BY <3>4, PersistAdds
                  <4>2. {queue.current} \in SUBSET timeline /\ queue' = queue
                        BY <3>4 DEF Persist, ReplayInv, StepInv, QueueInv
                  <4>3. Parents'[s] = {queue.current}
                        BY <4>1, <4>2, AddsParents DEF ReplayInv
                  <4>4. job'.step = "ref" /\ job'.target = s
                        BY <2>1, <4>1 DEF Job
                  <4>5. QED
                        BY <4>2, <4>3, <4>4 DEF MovedInv
            <3>5. CASE MoveBranch
                  <4>1. /\ UNCHANGED <<queue, commit>> /\ job.step = "ref"
                        /\ refs' = [refs EXCEPT ![queue.branch] = job.target]
                        BY <3>5 DEF MoveBranch
                  <4>2. refs'[queue.branch] = job.target
                        <5>1. queue # NoQueue /\ queue \in Queue
                              BY <1>4, <4>1 DEF ReplayInv, StepInv, QueueInv
                        <5>2. queue.branch \in DOMAIN refs
                              BY <5>1 DEF Queue, ReplayInv, RepoInv, TypeOK, Ref
                        <5>3. QED
                              BY <4>1, <5>2
                  <4>3. CASE job.kind # "abort"
                        <5>1. /\ job'.step = "queue" /\ job'.target = job.target
                              /\ job'.kind = job.kind
                              BY <2>1, <3>5, <4>3 DEF MoveBranch, Goto, Job
                        <5>2. Parents[job.target] = {queue.current}
                              BY <1>4, <4>1, <4>3 DEF MovedInv
                        <5>3. Parents' = Parents
                              BY <4>1 DEF Parents
                        <5>4. QED
                              BY <4>1, <4>2, <5>1, <5>2, <5>3 DEF MovedInv
                  <4>4. CASE job.kind = "abort"
                        <5>1. job'.step = "tree"
                              BY <1>4, <2>1, <3>5, <4>4 DEF MoveBranch, End, Materializing, Job
                        <5>2. QED
                              BY <5>1 DEF MovedInv
                  <4>5. QED
                        BY <4>3, <4>4
            <3>6. CASE SaveQueue
                  <4>1. /\ job.step = "queue" /\ UNCHANGED <<refs, commit>>
                        /\ queue # NoQueue /\ queue \in Queue /\ job.target \in State
                        BY <1>4, <2>1, <3>6
                        DEF SaveQueue, Quiet, stores, ReplayInv, StepInv, QueueInv, Job
                  <4>2. refs[queue.branch] = job.target
                        BY <1>4, <4>1 DEF MovedInv
                  <4>3. CASE job' = Materializing(job, job.target, "done")
                        BY <2>1, <4>3 DEF Materializing, Job, MovedInv
                  <4>4. CASE /\ queue' = Replayed(queue, job.target)
                             /\ job' = [job EXCEPT !.step = "replay", !.kind = "rebase"]
                        <5>1. queue'.branch = queue.branch /\ queue'.current = job.target
                              BY <4>1, <4>4 DEF Replayed, Queue
                        <5>2. job'.step = "replay"
                              BY <2>1, <4>4 DEF Job
                        <5>3. QED
                              BY <4>1, <4>2, <5>1, <5>2 DEF MovedInv
                  <4>5. QED
                        BY <3>6, <4>3, <4>4 DEF SaveQueue
            <3>7. CASE FinishRebase
                  BY <2>1, <3>7 DEF FinishRebase, Materializing, Job, MovedInv
            <3>8. CASE Unqueue
                  BY <1>4, <3>8 DEF Unqueue, End
            <3>9. QED
                  BY <2>2, <3>1, <3>2, <3>3, <3>4, <3>5, <3>6, <3>7, <3>8 DEF RebaseStep
      <2>3. CASE StashStep
            BY <1>4, <2>1, <2>3
            DEF StashStep, PushStack, Unstack, RemoveEntry, Removed, End, Materializing, Job,
                MovedInv
      <2>4. CASE WriteStep
            <3>1. job'.step \in {"index", "staging", "done", "unqueue", "unstack"}
                  BY <1>4, <2>1, <2>4
                  DEF WriteStep, TreeStep, IndexStep, StagingStep, DoneStep, Goto, End, Job
            <3>2. QED
                  BY <3>1 DEF MovedInv
      <2>5. QED
            BY <2>1, <2>2, <2>3, <2>4 DEF JobStep
<1>5. QED
      BY <1>1, <1>2, <1>3, <1>4 DEF replayVars, rebaseVars, stores

LEMMA QueueAlways == ReplaySpec => [](GraphInv /\ MovedInv)
<1>1. ReplayInit => MovedInv
      BY DEF ReplayInit, MovedInv
<1>2. ReplayInv /\ ReplayInv' /\ GraphInv /\ [ReplayNext]_replayVars => GraphInv'
      BY GraphNext
<1>3. /\ ReplayInv /\ ReplayInv' /\ Course /\ GraphInv /\ MovedInv /\ [ReplayNext]_replayVars
      => MovedInv'
      BY MovedNext
<1>4. QED
      BY <1>1, <1>2, <1>3, GraphInit, ReplayAlways, CourseAlways, PTL DEF ReplaySpec

LEMMA QueueBegins ==
    ASSUME ReplayInv, [ReplayNext]_replayVars, queue = NoQueue, queue' # NoQueue
    PROVE  \E p \in Proc, upstream \in Resolvable, force \in BOOLEAN :
              RebaseStart(p, upstream, force)
<1>1. ReplayNext
      BY DEF replayVars, rebaseVars
<1>2. RebaseStep => queue' = queue
      BY DEF ReplayInv, StepInv, RebaseStep, ReplayClean, ReplayConflict, ReplayFails, Persist,
             MoveBranch, SaveQueue, FinishRebase, Unqueue
<1>3. RebaseCommand
      BY <1>1, <1>2 DEF ReplayNext, JobStep
<1>4. QED
      BY <1>3 DEF RebaseCommand, Continue, Abort

\* The queue holds at least what the branch had that onto lacked.
Covers == queue # NoQueue => Cardinality(Owed) <= Tally

LEMMA StartCovers ==
    ASSUME ReplayInv, ReplayInv', GraphInv, NEW p \in Proc, NEW upstream \in Resolvable,
           NEW force \in BOOLEAN, RebaseStart(p, upstream, force)
    PROVE  QueueFollows' /\ Covers'
<1>1. HeadState \in State /\ upstream \in State
      BY ResolvableKnown DEF ReplayInv, RepoInv, TipsInv, TypeOK
<1>2. PICK base \in MergeBases(Parents, HeadState, upstream) :
          /\ LinearTo(Parents, HeadState, base)
          /\ queue'.original = HeadState /\ queue'.onto = upstream
          /\ Tally' = Distance(Parents, HeadState, base)
          /\ QueueFollows'
      BY StartTally
<1>3. Parents' = Parents /\ Parents \in [State -> SUBSET State] /\ Acyclic(Parents)
      BY ParentsTyped DEF RebaseStart, Quiet, stores, Parents, ReplayInv, GraphInv
<1>4. /\ IsAncestorOf(Parents, base, HeadState) /\ IsAncestorOf(Parents, base, upstream)
      /\ base \in State
      BY <1>1, <1>2, <1>3, BaseIsAncestor DEF IsAncestorOf, Reachable
<1>. DEFINE n == Distance(Parents, HeadState, base)
            met == Met(Parents, HeadState, n)
            owed == Lacking(Parents, HeadState, upstream)
<1>5. owed \subseteq met
      BY <1>1, <1>2, <1>3, <1>4, LackingIsMet
<1>6. n \in 0 .. Cardinality(State) /\ Walk(Parents, HeadState)[n] = base
      BY <1>1, <1>2, <1>3, <1>4, CommitsIs
<1>7. base # NoState /\ n \in Nat /\ Cardinality(State) \in Nat
      BY <1>1, <1>3, <1>4, <1>6, WalkIs, RepoAssumption
<1>8. n = 0 \/ Walk(Parents, HeadState)[n - 1] # NoState
      <2>1. \A m \in 0 .. n : Walk(Parents, HeadState)[m] \in State
            BY <1>1, <1>3, <1>6, <1>7, WalkKnown
      <2>2. n # 0 => n - 1 \in 0 .. n
            BY <1>7
      <2>3. QED
            BY <2>1, <2>2, RepoAssumption
<1>9. IsFiniteSet(met) /\ Cardinality(met) = n
      BY <1>1, <1>3, <1>6, <1>8, WalkCount DEF Met
<1>. HIDE DEF n, met, owed
<1>10. Cardinality(owed) <= n
      BY <1>5, <1>9, FS_Subset
<1>11. Owed' = owed
      BY <1>2, <1>3 DEF Owed, owed
<1>12. QED
      BY <1>2, <1>10, <1>11 DEF Covers, n

LEMMA CoversNext ==
    ASSUME ReplayInv, ReplayInv', Course, GraphInv, GraphInv', MovedInv, QueueFollows, Covers,
           [ReplayNext]_replayVars
    PROVE  QueueFollows' /\ Covers'
<1>1. CASE queue' = NoQueue
      BY <1>1 DEF QueueFollows, Covers
<1>2. CASE queue = NoQueue /\ queue' # NoQueue
      BY <1>2, QueueBegins, StartCovers
<1>3. CASE queue # NoQueue /\ queue' # NoQueue
      BY <1>3, TallyKept DEF Covers
<1>4. QED
      BY <1>1, <1>2, <1>3

\* However the history looks, and wherever a rebase is stopped: the commits replayed are a
\* line on top of onto, those left are the newest of the original branch, and together they
\* are no fewer than the branch had that onto lacked (rebase_start, save_rebase_state).
THEOREM QueueLosesNothing == ReplaySpec => [](QueueFollows /\ Covers)
<1>1. ReplayInit => QueueFollows /\ Covers
      BY DEF ReplayInit, QueueFollows, Covers
<1>2. /\ ReplayInv /\ ReplayInv' /\ Course /\ GraphInv /\ GraphInv' /\ MovedInv
      /\ QueueFollows /\ Covers /\ [ReplayNext]_replayVars
      => QueueFollows' /\ Covers'
      BY CoversNext
<1>3. QED
      BY <1>1, <1>2, ReplayAlways, CourseAlways, QueueAlways, PTL DEF ReplaySpec

\* A queue goes without --abort only once it is empty, and its branch is then on the last
\* commit replayed.
LEMMA QueueEnds ==
    ASSUME ReplayInv, Course, GraphInv, MovedInv, QueueFollows, [ReplayNext]_replayVars,
           queue # NoQueue, queue' = NoQueue, job.kind # "abort"
    PROVE  /\ LinearTo(Parents, refs[queue.branch], queue.onto)
           /\ Distance(Parents, refs[queue.branch], queue.onto) = Tally
<1>1. ReplayNext
      BY DEF replayVars, rebaseVars
<1>2. job # NoJob
      <2>1. CASE job = NoJob
            BY <1>1, <2>1, NothingToStep
            DEF ReplayNext, RebaseCommand, RebaseStart, Continue, Abort
      <2>2. QED
            BY <2>1
<1>3. JobStep
      BY <1>1, <1>2, InFlight
<1>4. job \in Job /\ queue \in Queue
      BY <1>2 DEF ReplayInv, JobInv, QueueInv
<1>5. {queue.onto, queue.current} \subseteq State
      BY <1>4 DEF Queue
<1>6. Parents \in [State -> SUBSET State] /\ Acyclic(Parents)
      BY ParentsTyped DEF ReplayInv, GraphInv
<1>7. LinearTo(Parents, queue.current, queue.onto)
      BY DEF QueueFollows
<1>8. Distance(Parents, queue.current, queue.onto) \in Nat
      <2>1. Distance(Parents, queue.current, queue.onto) \in 0 .. Cardinality(State)
            BY <1>5, <1>6, <1>7, CommitsIs
      <2>2. Cardinality(State) \in Nat
            BY <1>5, <1>6, WalkIs
      <2>3. QED
            BY <2>1, <2>2
<1>9. job.step # "unqueue"
      BY <1>2, <1>4 DEF Course, Job
<1>10. CASE FinishRebase
      <2>1. queue.remaining = <<>> /\ refs[queue.branch] = queue.current
            BY <1>2, <1>10 DEF FinishRebase, MovedInv
      <2>2. QED
            BY <1>7, <1>8, <2>1 DEF Tally
<1>11. CASE SaveQueue
      <2>1. job.step = "queue"
            BY <1>11 DEF SaveQueue
      <2>2. /\ queue.remaining \in Seq(State) /\ queue.remaining # <<>>
            /\ job.target \in State
            BY <1>2, <1>4, <2>1 DEF ReplayInv, StepInv, Queue, Job
      <2>3. Tail(queue.remaining) = <<>>
            <3>1. Tail(queue.remaining) \in Seq(State)
                  BY <2>2
            <3>2. /\ Replayed(queue, job.target) \in Queue
                  /\ Replayed(queue, job.target).remaining = Tail(queue.remaining)
                  BY <1>4, <2>2, <3>1 DEF Replayed, Queue
            <3>3. Replayed(queue, job.target) # NoQueue
                  BY <3>2, RebaseAssumption
            <3>4. Replayed(queue, job.target).remaining = <<>>
                  BY <1>11, <3>3 DEF SaveQueue
            <3>5. QED
                  BY <3>2, <3>4
      <2>4. Len(queue.remaining) = 1
            <3>1. Len(Tail(queue.remaining)) = Len(queue.remaining) - 1
                  BY <2>2
            <3>2. Len(queue.remaining) \in Nat
                  BY <2>2
            <3>3. Len(<<>>) = 0
                  OBVIOUS
            <3>4. Len(Tail(queue.remaining)) = 0
                  BY <2>3, <3>3, Zenon
            <3>5. QED
                  BY <3>1, <3>2, <3>4
      <2>5. Parents[job.target] = {queue.current} /\ refs[queue.branch] = job.target
            BY <1>2, <2>1 DEF MovedInv
      <2>6. /\ LinearTo(Parents, job.target, queue.onto)
            /\ Distance(Parents, job.target, queue.onto)
                  = Distance(Parents, queue.current, queue.onto) + 1
            BY <1>5, <1>6, <1>7, <2>2, <2>5, DistanceGrows
      <2>7. QED
            BY <1>8, <2>4, <2>5, <2>6 DEF Tally
<1>12. FinishRebase \/ SaveQueue
      <2>1. ~ReplayConflict
            <3>1. SUFFICES ASSUME ReplayConflict PROVE FALSE
                  OBVIOUS
            <3>2. queue.remaining \in Seq(State) /\ queue.remaining # <<>>
                  BY <1>4, <3>1 DEF ReplayConflict, Queue
            <3>3. Head(queue.remaining) \in State
                  BY <3>2
            <3>4. queue' \in Queue
                  BY <1>4, <3>1, <3>3 DEF ReplayConflict, Queue
            <3>5. QED
                  BY <3>4, RebaseAssumption
      <2>2. RebaseStep
            BY <1>3 DEF JobStep
      <2>3. QED
            BY <1>9, <2>1, <2>2
            DEF RebaseStep, ReplayClean, ReplayFails, Persist, MoveBranch, Unqueue
<1>13. QED
      BY <1>10, <1>11, <1>12

\* A rebase that ends without --abort never leaves its branch on fewer commits over onto
\* than the branch had that onto lacked, for any history (rebase_advance_unlocked).
THEOREM NoCommitLost ==
    ReplaySpec =>
        [][queue # NoQueue /\ queue' = NoQueue /\ job.kind # "abort" =>
              /\ LinearTo(Parents, refs[queue.branch], queue.onto)
              /\ Cardinality(Owed) <= Distance(Parents, refs[queue.branch], queue.onto)]_replayVars
<1>1. ASSUME ReplayInv, Course, GraphInv, MovedInv, QueueFollows, Covers,
             [ReplayNext]_replayVars,
             queue # NoQueue, queue' = NoQueue, job.kind # "abort"
      PROVE  /\ LinearTo(Parents, refs[queue.branch], queue.onto)
             /\ Cardinality(Owed) <= Distance(Parents, refs[queue.branch], queue.onto)
      BY <1>1, QueueEnds DEF Covers
<1>2. QED
      BY <1>1, ReplayAlways, CourseAlways, QueueAlways, QueueLosesNothing, PTL DEF ReplaySpec

-----------------------------------------------------------------------------
(* Histories without merge commits.                                        *)

\* Neither a rebase nor what is run between records a commit of two parents.
SingleInv ==
    /\ Unmerged(Parents)
    /\ \A p \in Proc : cmd[p].parents = {} \/ \E t \in State : cmd[p].parents = {t}

LEMMA AddsSingle ==
    ASSUME RepoInv, RepoInv', GraphInv, Unmerged(Parents), NEW s \in State,
           NEW P \in SUBSET timeline, P = {} \/ \E t \in State : P = {t}, Adds(s, P)
    PROVE  Unmerged(Parents')
<1>1. Parents'[s] = P /\ \A x \in State \ {s} : Parents'[x] = Parents[x]
      BY AddsParents
<1>2. DOMAIN Parents = State /\ DOMAIN Parents' = State
      BY DEF Parents
<1>3. QED
      BY <1>1, <1>2 DEF Unmerged, IsLinear

LEMMA SingleNext ==
    ASSUME ReplayInv, ReplayInv', GraphInv, SingleInv, [ReplayNext]_replayVars
    PROVE  SingleInv'
<1>1. cmd \in [Proc -> Command]
      BY DEF ReplayInv, RepoInv, TypeOK
<1>2. Unmerged(Parents')
      <2>1. CASE UNCHANGED <<commit, timeline>>
            BY <2>1 DEF SingleInv, Parents
      <2>2. CASE job # NoJob /\ Persist
            <3>1. PICK s \in State : Adds(s, {queue.current})
                  BY <2>2, PersistAdds
            <3>2. {queue.current} \in SUBSET timeline /\ queue.current \in State
                  BY <2>2 DEF Persist, ReplayInv, StepInv, QueueInv, Queue
            <3>3. QED
                  BY <3>1, <3>2, AddsSingle DEF ReplayInv, SingleInv
      <2>3. CASE \E p \in Proc : WriteTimeline(p)
            <3>1. PICK p \in Proc : WriteTimeline(p)
                  BY <2>3
            <3>2. PICK s \in State : Adds(s, cmd[p].parents)
                  BY <3>1, WriteTimelineAdds
            <3>3. cmd[p].parents \in SUBSET timeline
                  BY <3>1 DEF WriteTimeline, ReplayInv, RepoInv, FlightInv, Planning
            <3>4. QED
                  BY <3>2, <3>3, AddsSingle DEF ReplayInv, SingleInv
      <2>4. QED
            BY <2>1, <2>2, <2>3, HistorySteps
<1>3. CASE UNCHANGED cmd
      BY <1>2, <1>3 DEF SingleInv
<1>4. ASSUME NEW p \in Proc, NEW c, cmd' = [cmd EXCEPT ![p] = c],
             c.parents = {} \/ \E t \in State : c.parents = {t}
      PROVE  SingleInv'
      BY <1>1, <1>2, <1>4 DEF SingleInv
<1>5. CASE job = NoJob /\ ReplayNext /\ UserNext
      <2>1. ASSUME NEW p \in Proc, Run(p) PROVE SingleInv'
            <3>1. CASE WriteTimeline(p)
                  <4>1. PICK s \in State : cmd' = [cmd EXCEPT ![p].target = s]
                        BY <3>1 DEF WriteTimeline
                  <4>2. \A r \in Proc : cmd'[r].parents = cmd[r].parents
                        BY <1>1, <4>1 DEF Command
                  <4>3. QED
                        BY <1>2, <4>2 DEF SingleInv
            <3>2. CASE WriteRef(p)
                  BY <1>4, <3>2 DEF WriteRef, NoCmd
            <3>3. CASE UNCHANGED cmd
                  BY <1>3, <3>3
            <3>4. QED
                  BY <2>1, <3>1, <3>2, <3>3
                  DEF Run, Resume, FinishGuard, WriteBlobs, WriteTree, WriteIndex, ClearStaging
      <2>2. ASSUME NEW p \in Proc, Stop(p) PROVE SingleInv'
            BY <1>4, <2>2 DEF Stop, NoCmd
      <2>3. ASSUME NEW p \in Proc, Commit(p) PROVE SingleInv'
            <3>1. PICK noVerify \in NoVerify :
                     Begin(p, [Recording("commit", {HeadState}, CommitFiles, FALSE)
                                  EXCEPT !.active = staging.active],
                           IF noVerify THEN "blobs" ELSE "hook")
                  BY <2>3 DEF Commit
            <3>. DEFINE c == [Recording("commit", {HeadState}, CommitFiles, FALSE)
                                 EXCEPT !.active = staging.active]
            <3>2. cmd' = [cmd EXCEPT ![p] = c]
                  BY <3>1 DEF Begin
            <3>3. c.parents = {HeadState} /\ HeadState \in State
                  BY DEF Recording, NoCmd, ReplayInv, RepoInv, TipsInv, TypeOK
            <3>. HIDE DEF c
            <3>4. QED
                  BY <1>4, <3>2, <3>3
      <2>4. ASSUME NEW p \in Proc, NEW b \in Branch, Checkout(p, b, FALSE) PROVE SingleInv'
            <3>. DEFINE c == [Onto("checkout", IF b \in Branch THEN refs[b] ELSE b, FALSE)
                                 EXCEPT !.dest = b]
            <3>1. cmd' = [cmd EXCEPT ![p] = c]
                  BY <2>4 DEF Checkout, Begin
            <3>2. c.parents = {}
                  BY DEF Onto, NoCmd
            <3>. HIDE DEF c
            <3>3. QED
                  BY <1>4, <3>1, <3>2
      <2>5. ASSUME NEW q \in Path, NEW content \in Content \cup {Absent}, UserEdit(q, content)
            PROVE  SingleInv'
            BY <1>3, <2>5 DEF UserEdit
      <2>6. ASSUME NEW q \in Path, Add({q}) PROVE SingleInv'
            BY <1>3, <2>6 DEF Add
      <2>7. QED
            BY <1>5, <2>1, <2>2, <2>3, <2>4, <2>5, <2>6 DEF UserNext
<1>6. CASE RebaseCommand
      BY <1>3, <1>6 DEF RebaseCommand, RebaseStart, Continue, Abort, Quiet
<1>7. CASE StashCommand(uses)
      BY <1>3, <1>7 DEF StashCommand, Push, Apply, Drop, Clear, Quiet
<1>8. CASE RebaseStep
      BY <1>3, <1>8
      DEF RebaseStep, ReplayClean, ReplayConflict, ReplayFails, Persist, MoveBranch, SaveQueue,
          FinishRebase, Unqueue, Quiet
<1>9. CASE StashStep
      BY <1>3, <1>9 DEF StashStep, PushStack, Unstack, RemoveEntry, Removed, Quiet
<1>10. CASE WriteStep
      BY <1>3, <1>10 DEF WriteStep, TreeStep, IndexStep, StagingStep, DoneStep
<1>11. CASE StopJob
      BY <1>3, <1>11 DEF StopJob
<1>12. CASE UNCHANGED replayVars
      BY <1>3, <1>12 DEF replayVars, rebaseVars
<1>13. QED
      BY <1>5, <1>6, <1>7, <1>8, <1>9, <1>10, <1>11, <1>12 DEF ReplayNext, JobStep

LEMMA SingleInit == Unmerged(Lineage) /\ ReplayInit => SingleInv
<1>1. SUFFICES ASSUME Unmerged(Lineage), ReplayInit PROVE SingleInv
      OBVIOUS
<1>2. PICK c \in Scenarios :
          commit = [s \in DOMAIN Lineage |-> [parents |-> Lineage[s], files |-> c.files[s]]]
      BY <1>1 DEF ReplayInit
<1>3. \A s \in State : Parents[s] = IF s \in DOMAIN Lineage THEN Lineage[s] ELSE {}
      BY <1>2 DEF Parents
<1>4. Unmerged(Parents)
      BY <1>1, <1>3 DEF Unmerged, IsLinear, Parents
<1>5. QED
      BY <1>1, <1>4 DEF SingleInv, ReplayInit, NoCmd

LEMMA StartCounts ==
    ASSUME ReplayInv, ReplayInv', GraphInv, SingleInv, NEW p \in Proc,
           NEW upstream \in Resolvable, NEW force \in BOOLEAN, RebaseStart(p, upstream, force)
    PROVE  QueueFollows' /\ QueueCounts'
<1>1. HeadState \in State /\ upstream \in State
      BY ResolvableKnown DEF ReplayInv, RepoInv, TipsInv, TypeOK
<1>2. PICK base \in MergeBases(Parents, HeadState, upstream) :
          /\ LinearTo(Parents, HeadState, base)
          /\ queue'.original = HeadState /\ queue'.onto = upstream
          /\ Tally' = Distance(Parents, HeadState, base)
          /\ QueueFollows'
      BY StartTally
<1>3. Parents' = Parents /\ Parents \in [State -> SUBSET State] /\ Acyclic(Parents)
      BY ParentsTyped DEF RebaseStart, Quiet, stores, Parents, ReplayInv, GraphInv
<1>. DEFINE n == Distance(Parents, HeadState, base)
            owed == Lacking(Parents, HeadState, upstream)
<1>4. Cardinality(owed) = n
      BY <1>1, <1>2, <1>3, LackingIs DEF SingleInv
<1>. HIDE DEF n, owed
<1>5. Owed' = owed
      BY <1>2, <1>3 DEF Owed, owed
<1>6. Tally' = Cardinality(Owed')
      BY <1>2, <1>4, <1>5 DEF n
<1>7. QED
      BY <1>2, <1>6 DEF QueueCounts, Tally, Owed

LEMMA CountsNext ==
    ASSUME ReplayInv, ReplayInv', Course, GraphInv, GraphInv', MovedInv, SingleInv, QueueFollows,
           QueueCounts, [ReplayNext]_replayVars
    PROVE  QueueFollows' /\ QueueCounts'
<1>1. CASE queue' = NoQueue
      BY <1>1 DEF QueueFollows, QueueCounts
<1>2. CASE queue = NoQueue /\ queue' # NoQueue
      BY <1>2, QueueBegins, StartCounts
<1>3. CASE queue # NoQueue /\ queue' # NoQueue
      <2>1. QueueFollows' /\ Tally' = Tally /\ Owed' = Owed
            BY <1>3, TallyKept
      <2>2. Tally = Cardinality(Owed)
            BY <1>3 DEF QueueCounts, Tally, Owed
      <2>3. Tally' = Cardinality(Owed')
            BY <2>1, <2>2
      <2>4. QED
            BY <2>1, <2>3 DEF QueueCounts, Tally, Owed
<1>4. QED
      BY <1>1, <1>2, <1>3

LEMMA SingleAlways == ASSUME Unmerged(Lineage) PROVE ReplaySpec => []SingleInv
<1>1. ReplayInit => SingleInv
      BY SingleInit
<1>2. ReplayInv /\ ReplayInv' /\ GraphInv /\ SingleInv /\ [ReplayNext]_replayVars => SingleInv'
      BY SingleNext
<1>3. QED
      BY <1>1, <1>2, ReplayAlways, QueueAlways, PTL DEF ReplaySpec

\* From a history without merge commits, the count is exact: what a queue stands for stays
\* true through conflicts, stops and whatever is run between.  With merges, a merge base of
\* least total depth need not be a nearest one, and then the queue holds more.
THEOREM QueueStaysSound == ASSUME Unmerged(Lineage) PROVE ReplaySpec => []QueueSound
<1>1. ReplayInit => QueueFollows /\ QueueCounts
      BY DEF ReplayInit, QueueFollows, QueueCounts
<1>2. /\ ReplayInv /\ ReplayInv' /\ Course /\ GraphInv /\ GraphInv' /\ MovedInv /\ SingleInv
      /\ QueueFollows /\ QueueCounts /\ [ReplayNext]_replayVars
      => QueueFollows' /\ QueueCounts'
      BY CountsNext
<1>3. QED
      BY <1>1, <1>2, ReplayAlways, CourseAlways, QueueAlways, SingleAlways, PTL
      DEF ReplaySpec, QueueSound

\* From a history without merge commits, a rebase that ends without --abort leaves its
\* branch on exactly as many commits over onto as the branch had that onto lacked, however
\* often it stopped for a conflict or was killed (MoveBranch before SaveQueue).
THEOREM RebaseReplaysAll == ASSUME Unmerged(Lineage) PROVE ReplaySpec => EveryCommitReplayed
<1>1. ASSUME ReplayInv, Course, GraphInv, MovedInv, QueueSound, [ReplayNext]_replayVars,
             queue # NoQueue, queue' = NoQueue, job.kind # "abort"
      PROVE  LET tip == refs[queue.branch]
             IN  /\ LinearTo(Parents, tip, queue.onto)
                 /\ Distance(Parents, tip, queue.onto)
                       = Cardinality(Lacking(Parents, queue.original, queue.onto))
      <2>1. QueueFollows /\ Tally = Cardinality(Owed)
            BY <1>1 DEF QueueSound, QueueCounts, Tally, Owed
      <2>2. /\ LinearTo(Parents, refs[queue.branch], queue.onto)
            /\ Distance(Parents, refs[queue.branch], queue.onto) = Tally
            BY <1>1, <2>1, QueueEnds
      <2>3. QED
            BY <2>1, <2>2 DEF Owed
<1>2. QED
      BY <1>1, ReplayAlways, CourseAlways, QueueAlways, QueueStaysSound, PTL
      DEF ReplaySpec, EveryCommitReplayed
=============================================================================
