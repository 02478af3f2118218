---------------------------- MODULE HistoryProofs ----------------------------
(***************************************************************************)
(* What the walks of History collect, for every graph of commits: facts    *)
(* that the proofs about each component rest on.                           *)
(***************************************************************************)
EXTENDS History, WellFoundedInduction, TLAPS

-----------------------------------------------------------------------------
(* Numbers, and walks that follow one link at a time.                      *)

\* A set of numbers that is not empty has a least one.
LEMMA LeastNumber ==
    ASSUME NEW T \in SUBSET Nat, T # {}
    PROVE  \E x \in T : \A y \in T : x <= y
<1>. DEFINE R == OpToRel(<, Nat)
<1>1. ASSUME NEW x \in Nat, NEW y \in Nat, <<y, x>> \notin R
      PROVE  x <= y
      <2>1. ~(y < x)
            BY <1>1 DEF OpToRel
      <2>2. QED
            BY <2>1
<1>2. IsWellFoundedOn(R, Nat)
      BY NatLessThanWellFounded
<1>. HIDE DEF R
<1>3. PICK x \in T : \A y \in T : ~(<<y, x>> \in R)
      BY <1>2, WFMin
<1>4. \A y \in T : x <= y
      BY <1>1, <1>3
<1>5. QED
      BY <1>4

\* A set of numbers under a bound that is not empty has a greatest one.
LEMMA GreatestNumber ==
    ASSUME NEW n \in Nat, NEW T \in SUBSET 0 .. n, T # {}
    PROVE  \E x \in T : \A y \in T : x >= y
<1>. DEFINE D == {n - x : x \in T}
<1>1. \A x \in T : x \in Nat /\ n - x \in Nat
      OBVIOUS
<1>2. D \in SUBSET Nat
      BY <1>1
<1>3. D # {}
      OBVIOUS
<1>4. PICK d \in D : \A e \in D : d <= e
      BY <1>2, <1>3, LeastNumber
<1>5. PICK x \in T : d = n - x
      BY <1>4
<1>6. ASSUME NEW y \in T PROVE x >= y
      <2>1. n - x <= n - y
            BY <1>4, <1>5
      <2>2. QED
            BY <1>1, <2>1
<1>7. QED
      BY <1>6

\* A function that is defined by what it does at each step exists.
LEMMA StepsExist ==
    ASSUME NEW X, NEW x \in X, NEW N \in Nat, NEW step \in [1 .. N -> [X -> X]]
    PROVE  \E f \in [0 .. N -> X] : f[0] = x /\ \A n \in 1 .. N : f[n] = step[n][f[n - 1]]
<1> DEFINE Steps(f, k) == f[0] = x /\ \A n \in 1 .. k : f[n] = step[n][f[n - 1]]
           T == {k \in 0 .. N : ~\E f \in [0 .. k -> X] : Steps(f, k)}
<1>1. SUFFICES ASSUME T # {} PROVE FALSE
  OBVIOUS
<1>2. T \in SUBSET Nat
  OBVIOUS
<1>3. PICK k \in T : \A j \in T : k <= j
  BY <1>1, <1>2, LeastNumber
<1>9. k \in 0 .. N /\ k \in Nat /\ ~\E f \in [0 .. k -> X] : Steps(f, k)
  BY <1>3
<1>4. CASE k = 0
  <2> DEFINE f == [n \in 0 .. k |-> x]
  <2>1. f \in [0 .. k -> X] /\ f[0] = x
    BY <1>4
  <2>2. 1 .. k = {}
    BY <1>4
  <2>3. Steps(f, k)
    BY <2>1, <2>2
  <2> HIDE DEF f, Steps
  <2> QED
    BY <1>9, <2>1, <2>3
<1>5. CASE k # 0
  <2>1. k - 1 \in 0 .. N /\ k \in 1 .. N /\ k - 1 < k
    BY <1>5, <1>9
  <2>2. PICK f \in [0 .. k - 1 -> X] : Steps(f, k - 1)
    <3> HIDE DEF Steps
    <3> QED
      BY <1>3, <1>9, <2>1
  <2> DEFINE g == [n \in 0 .. k |-> IF n = k THEN step[k][f[k - 1]] ELSE f[n]]
  <2>3. f[k - 1] \in X /\ step[k] \in [X -> X]
    BY <2>1
  <2>4. g \in [0 .. k -> X]
    BY <2>1, <2>3
  <2>5. ASSUME NEW n \in 1 .. k PROVE g[n] = step[n][g[n - 1]]
    <3>1. CASE n = k
      BY <2>1, <3>1
    <3>2. CASE n # k
      <4>1. n \in 1 .. k - 1
        BY <3>2
      <4> QED
        BY <2>2, <4>1
    <3> QED
      BY <3>1, <3>2
  <2>6. g[0] = x
    BY <1>5, <2>2
  <2> HIDE DEF g
  <2> QED
    BY <1>9, <2>4, <2>5, <2>6
<1> QED
  BY <1>4, <1>5

\* f goes N steps from x, each where next leads.
Walks(f, next, x, N) == f[0] = x /\ \A n \in 1 .. N : f[n] = next[f[n - 1]]

\* Such a walk exists: it is defined by what it does at each step.
LEMMA WalkExists ==
    ASSUME NEW X, NEW next \in [X -> X], NEW x \in X, NEW N \in Nat
    PROVE  \E f \in [0 .. N -> X] : Walks(f, next, x, N)
<1>. DEFINE T == {k \in Nat : ~ \E f \in [0 .. k -> X] : Walks(f, next, x, k)}
<1>1. SUFFICES T = {}
      OBVIOUS
<1>2. SUFFICES ASSUME T # {} PROVE FALSE
      OBVIOUS
<1>3. PICK k \in T : \A j \in T : k <= j
      BY <1>2, LeastNumber
<1>4. CASE k = 0
      <2>. DEFINE f == [n \in 0 .. k |-> x]
      <2>1. f \in [0 .. k -> X] /\ f[0] = x
            BY <1>4
      <2>2. 1 .. k = {}
            BY <1>4
      <2>3. Walks(f, next, x, k)
            BY <2>1, <2>2 DEF Walks
      <2>. HIDE DEF f
      <2>4. QED
            BY <2>1, <2>3, <1>3
<1>5. CASE k # 0
      <2>1. k - 1 \in Nat /\ k - 1 \notin T
            BY <1>3, <1>5
      <2>2. PICK f \in [0 .. k - 1 -> X] : Walks(f, next, x, k - 1)
            BY <2>1
      <2>. DEFINE g == [n \in 0 .. k |-> IF n = k THEN next[f[k - 1]] ELSE f[n]]
      <2>3. f[k - 1] \in X
            BY <2>1
      <2>4. g \in [0 .. k -> X]
            BY <2>1, <2>3
      <2>5. ASSUME NEW n \in 1 .. k PROVE g[n] = next[g[n - 1]]
            <3>1. CASE n = k
                  BY <1>5, <3>1
            <3>2. CASE n # k
                  <4>1. n \in 1 .. k - 1
                        BY <3>2
                  <4>2. f[n] = next[f[n - 1]]
                        BY <2>2, <4>1 DEF Walks
                  <4>3. g[n] = f[n] /\ g[n - 1] = f[n - 1]
                        BY <4>1
                  <4>4. QED
                        BY <4>2, <4>3
            <3>3. QED
                  BY <3>1, <3>2
      <2>6. g[0] = x
            BY <1>5, <2>2 DEF Walks
      <2>7. Walks(g, next, x, k)
            BY <2>5, <2>6 DEF Walks
      <2>. HIDE DEF g
      <2>8. QED
            BY <2>4, <2>7, <1>3
<1>6. QED
      BY <1>4, <1>5

-----------------------------------------------------------------------------
(* What is reachable.                                                      *)

\* The walk stays inside every parent-closed set that holds its tips.
LEMMA ReachableLeast ==
    ASSUME NEW par, NEW tips, NEW C \in SUBSET DOMAIN par,
           tips \subseteq C, ParentClosed(par, C)
    PROVE  Reachable(par, tips) \subseteq C
BY DEF Reachable

\* The walk visits its tips.
LEMMA ReachableTips ==
    ASSUME NEW par, NEW tips \in SUBSET DOMAIN par
    PROVE  tips \subseteq Reachable(par, tips)
BY DEF Reachable

\* The walk leaves no parent out.
LEMMA ReachableClosed ==
    ASSUME NEW S, NEW par \in [S -> SUBSET S], NEW tips
    PROVE  ParentClosed(par, Reachable(par, tips))
<1>1. SUFFICES ASSUME NEW s \in Reachable(par, tips), NEW t \in par[s]
               PROVE  t \in Reachable(par, tips)
      BY DEF ParentClosed
<1>2. s \in S /\ t \in S
      BY DEF Reachable
<1>3. ASSUME NEW C \in SUBSET S, tips \subseteq C, ParentClosed(par, C)
      PROVE  t \in C
      <2>1. s \in C
            BY <1>3 DEF Reachable
      <2>2. QED
            BY <2>1, <1>3 DEF ParentClosed
<1>4. QED
      BY <1>2, <1>3 DEF Reachable

-----------------------------------------------------------------------------
(* Ancestors: what is reachable from one state.                            *)

\* A state is an ancestor of itself, and so are its parents.
LEMMA AncestorSelf ==
    ASSUME NEW S, NEW par \in [S -> SUBSET S], NEW s \in S
    PROVE  /\ s \in Reachable(par, {s})
           /\ par[s] \subseteq Reachable(par, {s})
           /\ Reachable(par, {s}) \subseteq S
<1>1. {s} \in SUBSET DOMAIN par
      OBVIOUS
<1>2. s \in Reachable(par, {s})
      BY <1>1, ReachableTips
<1>3. QED
      BY <1>2, ReachableClosed DEF ParentClosed, Reachable

\* A parent is an ancestor.
LEMMA ParentIsAncestor ==
    ASSUME NEW S, NEW par \in [S -> SUBSET S], NEW s \in S, NEW t \in par[s]
    PROVE  IsAncestorOf(par, t, s)
BY AncestorSelf DEF IsAncestorOf

\* Ancestors of ancestors are ancestors.
LEMMA AncestorsNest ==
    ASSUME NEW S, NEW par \in [S -> SUBSET S], NEW t \in S, NEW s \in Reachable(par, {t})
    PROVE  Reachable(par, {s}) \subseteq Reachable(par, {t})
<1>. DEFINE C == Reachable(par, {t})
<1>1. C \in SUBSET DOMAIN par
      BY DEF Reachable
<1>2. ParentClosed(par, C)
      BY ReachableClosed
<1>3. {s} \subseteq C
      OBVIOUS
<1>. HIDE DEF C
<1>4. Reachable(par, {s}) \subseteq C
      BY <1>1, <1>2, <1>3, ReachableLeast
<1>5. QED
      BY <1>4 DEF C

\* A walk that goes anywhere goes through a parent.
LEMMA AncestorStep ==
    ASSUME NEW S, NEW par \in [S -> SUBSET S], NEW s \in S,
           NEW a \in Reachable(par, {s}), a # s
    PROVE  \E t \in par[s] : a \in Reachable(par, {t})
<1>. DEFINE C == {s} \cup UNION {Reachable(par, {t}) : t \in par[s]}
<1>1. C \in SUBSET DOMAIN par
      BY DEF Reachable
<1>2. ASSUME NEW x \in C, NEW y \in par[x] PROVE y \in C
      <2>1. CASE x = s
            <3>1. y \in S /\ y \in par[s]
                  BY <2>1
            <3>2. y \in Reachable(par, {y})
                  BY <3>1, AncestorSelf
            <3>3. QED
                  BY <3>1, <3>2
      <2>2. CASE x # s
            <3>1. PICK t \in par[s] : x \in Reachable(par, {t})
                  BY <2>2
            <3>2. y \in Reachable(par, {t})
                  BY <3>1, ReachableClosed DEF ParentClosed
            <3>3. QED
                  BY <3>2
      <2>3. QED
            BY <2>1, <2>2
<1>3. ParentClosed(par, C)
      BY <1>2 DEF ParentClosed
<1>4. {s} \subseteq C
      OBVIOUS
<1>. HIDE DEF C
<1>5. Reachable(par, {s}) \subseteq C
      BY <1>1, <1>3, <1>4, ReachableLeast
<1>6. QED
      BY <1>5 DEF C

\* A merge base is an ancestor of both sides.
LEMMA BaseIsAncestor ==
    ASSUME NEW par, NEW a, NEW b, NEW base \in MergeBases(par, a, b)
    PROVE  IsAncestorOf(par, base, a) /\ IsAncestorOf(par, base, b)
BY DEF MergeBases, Depths, IsAncestorOf

-----------------------------------------------------------------------------
(* A history that grows.                                                   *)

\* No state is its own ancestor through a parent: ids are hashes of what they name.
Acyclic(par) == \A s \in DOMAIN par : \A t \in par[s] : ~IsAncestorOf(par, s, t)

\* What is reachable from inside a parent-closed part depends on that part only.
LEMMA ReachableKept ==
    ASSUME NEW S, NEW par \in [S -> SUBSET S], NEW new \in [S -> SUBSET S],
           NEW C \in SUBSET S, ParentClosed(par, C), \A s \in C : new[s] = par[s],
           NEW tips \in SUBSET C
    PROVE  Reachable(new, tips) = Reachable(par, tips) /\ Reachable(par, tips) \subseteq C
<1>. DEFINE R == Reachable(par, tips)
            Q == Reachable(new, tips)
<1>1. DOMAIN par = S /\ DOMAIN new = S /\ tips \in SUBSET S
      OBVIOUS
<1>2. ParentClosed(new, C)
      BY DEF ParentClosed
<1>3. R \subseteq C /\ Q \subseteq C
      BY <1>1, <1>2, ReachableLeast
<1>4. ParentClosed(par, R) /\ ParentClosed(new, Q)
      BY ReachableClosed
<1>5. tips \subseteq R /\ tips \subseteq Q
      BY <1>1, ReachableTips
<1>. HIDE DEF R, Q
<1>6. ParentClosed(new, R) /\ ParentClosed(par, Q)
      BY <1>3, <1>4 DEF ParentClosed
<1>7. Reachable(new, tips) \subseteq R /\ Reachable(par, tips) \subseteq Q
      BY <1>1, <1>3, <1>5, <1>6, ReachableLeast
<1>8. QED
      BY <1>3, <1>7 DEF R, Q

\* A new state whose parents are known closes no cycle.
LEMMA AcyclicGrows ==
    ASSUME NEW S, NEW par \in [S -> SUBSET S], NEW new \in [S -> SUBSET S],
           NEW C \in SUBSET S, ParentClosed(par, C), Acyclic(par),
           NEW s \in S \ C, new[s] \subseteq C,
           \A t \in S \ {s} : new[t] = par[t], \A t \in S \ C : par[t] = {}
    PROVE  Acyclic(new)
<1>1. \A t \in C : Reachable(new, {t}) = Reachable(par, {t}) /\ Reachable(par, {t}) \subseteq C
      <2>1. SUFFICES ASSUME NEW t \in C
                     PROVE  /\ Reachable(new, {t}) = Reachable(par, {t})
                            /\ Reachable(par, {t}) \subseteq C
            OBVIOUS
      <2>2. {t} \in SUBSET C /\ \A u \in C : new[u] = par[u]
            OBVIOUS
      <2>3. QED
            BY <2>2, ReachableKept
<1>2. ASSUME NEW u \in S, NEW t \in new[u] PROVE u \notin Reachable(new, {t})
      <2>1. CASE u = s
            BY <1>1, <2>1
      <2>2. CASE u # s
            <3>1. t \in par[u] /\ u \in C
                  BY <2>2
            <3>2. t \in C
                  BY <3>1 DEF ParentClosed
            <3>3. u \notin Reachable(par, {t})
                  BY <3>1 DEF Acyclic, IsAncestorOf
            <3>4. QED
                  BY <1>1, <3>2, <3>3
      <2>3. QED
            BY <2>1, <2>2
<1>3. QED
      BY <1>2 DEF Acyclic, IsAncestorOf
=============================================================================
