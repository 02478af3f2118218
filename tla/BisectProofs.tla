---------------------------- MODULE BisectProofs ----------------------------
(***************************************************************************)
(* Proofs about Bisect: the way back is kept with every command run beside *)
(* the script, wherever runs and resets are killed; and, where no command  *)
(* sets boundaries beside the script, the search is sound and the state it *)
(* reports is the first bad one.                                           *)
(***************************************************************************)
EXTENDS Bisect, HistoryProofs, FiniteSetTheorems, TLAPS

\* The file holds the origin that start recorded, whatever else it holds.
Fields == {"origin", "good", "bad", "skipped", "candidates", "low", "high"}
Records(s, origin) ==
    /\ s = [f \in Fields |-> s[f]]
    /\ s.origin = origin

\* The inductive form of WayBack: the file and a reset under way agree on home, they are
\* never there together, and with neither of them HEAD is at home.
WayInv ==
    /\ search # NoSearch => Records(search, home)
    /\ Resetting => undo = {home} /\ search = NoSearch
    /\ search = NoSearch /\ ~Resetting => head = home

LEMMA RecordsExist ==
    ASSUME NEW s, NEW origin, Records(s, origin)
    PROVE  s # NoSearch
<1>1. DOMAIN s = Fields
  BY DEF Records
<1>2. DOMAIN NoSearch = {"origin"}
  BY DEF NoSearch
<1> QED
  BY <1>1, <1>2 DEF Fields

\* Fresh boundaries keep the origin.
LEMMA BoundedRecords ==
    ASSUME NEW s, NEW origin, NEW good, NEW bad, Records(s, origin)
    PROVE  Records(Bounded(s, good, bad), origin)
BY DEF Bounded, Records, Fields

\* So does a new range, or dropping a candidate.
LEMMA NarrowedRecords ==
    ASSUME NEW s, NEW origin, NEW n, Records(s, origin)
    PROVE  /\ Records([s EXCEPT !.low = n], origin)
           /\ Records([s EXCEPT !.high = n], origin)
BY DEF Records, Fields

LEMMA WithoutRecords ==
    ASSUME NEW s, NEW origin, NEW mid, NEW tested, Records(s, origin)
    PROVE  Records(Without(s, mid, tested), origin)
BY DEF Without, Records, Fields

LEMMA WayInit == Init => WayInv
BY DEF Init, WayInv, Resetting

LEMMA WayNext == BisectAssumption /\ WayInv /\ [Next]_vars => WayInv'
<1> SUFFICES ASSUME BisectAssumption, WayInv, [Next]_vars
             PROVE  WayInv'
    OBVIOUS
<1> USE DEF WayInv, Resetting, truth
<1>1. ASSUME NEW good \in State, NEW bad \in State, Start(good, bad)
      PROVE  WayInv'
  <2> DEFINE new == [origin |-> head, good |-> good, bad |-> bad, skipped |-> {},
                     candidates |-> <<>>, low |-> 0, high |-> 0]
  <2>1. head = home
    BY <1>1 DEF Start, MayRun, NotInProgress
  <2>2. Records(new, head)
    BY DEF Records, Fields
  <2>3. Records(search', home)
    BY <1>1, <2>1, <2>2, BoundedRecords DEF Start
  <2>4. ~Resetting /\ UNCHANGED <<home, head, undo>>
    BY <1>1 DEF Start, MayRun
  <2> QED
    BY <2>3, <2>4, RecordsExist DEF Records
<1>2. ASSUME NEW s \in State, Mark(s)
      PROVE  WayInv'
  <2>1. Records(search', home)
    BY <1>2, BoundedRecords DEF Mark
  <2>2. ~Resetting /\ search # NoSearch /\ UNCHANGED <<home, head, undo>>
    BY <1>2 DEF Mark, MayRun
  <2> QED
    BY <2>1, <2>2, RecordsExist DEF Records
<1>3. ASSUME NEW h \in Homes, Checkout(h)
      PROVE  WayInv'
  BY <1>3 DEF Checkout, MayRun
<1>4. CASE Reset
  <2>1. undo' = {home} /\ home' = home /\ search' = NoSearch
    BY <1>4 DEF Reset, MayRun, Records
  <2> QED
    BY <1>4, <2>1 DEF Reset
<1>5. CASE FinishReset
  BY <1>5 DEF FinishReset
<1>6. CASE BeginRun
  BY <1>6 DEF BeginRun
<1>7. CASE Test
  BY <1>7 DEF Test, Fail
<1>8. CASE ScriptEnds
  <2>1. CASE Resetting \/ search = NoSearch
    BY <1>8, <2>1 DEF ScriptEnds, Fail
  <2>2. CASE ~(Resetting \/ search = NoSearch)
    <3>0. Records(search, home)
      BY <2>2
    <3>1. /\ TestedGood \/ TestedBad \/ Skipped
          /\ UNCHANGED <<head, home, undo>>
      BY <1>8, <2>2 DEF ScriptEnds, TestedGood, TestedBad, Skipped, Save, Report, Fail
    <3>2. ASSUME TestedGood PROVE Records(search', home)
      <4>1. search' = search \/ search' = [search EXCEPT !.low = run.mid + 1]
        BY <3>2, Zenon DEF TestedGood, Save, Report
      <4>2. Records([search EXCEPT !.low = run.mid + 1], home)
        BY <3>0, NarrowedRecords
      <4> QED
        BY <3>0, <4>1, <4>2
    <3>3. ASSUME TestedBad PROVE Records(search', home)
      <4>1. search' = search \/ search' = [search EXCEPT !.high = run.mid]
        BY <3>3, Zenon DEF TestedBad, Save, Report, Fail
      <4>2. Records([search EXCEPT !.high = run.mid], home)
        BY <3>0, NarrowedRecords
      <4> QED
        BY <3>0, <4>1, <4>2
    <3>4. Skipped => Records(search', home)
      BY <2>2, WithoutRecords DEF Skipped, Save, Fail
    <3> QED
      BY <2>2, <3>1, <3>2, <3>3, <3>4, RecordsExist DEF Records
  <2> QED
    BY <2>1, <2>2
<1>9. CASE StopRun
  BY <1>9 DEF StopRun, Fail
<1>10. CASE StopReset
  BY <1>10 DEF StopReset
<1>11. CASE UNCHANGED vars
  BY <1>11 DEF vars
<1> QED
  BY <1>1, <1>2, <1>3, <1>4, <1>5, <1>6, <1>7, <1>8, <1>9, <1>10, <1>11 DEF Next

\* HEAD can always be brought back to where the bisect found it: bisect_start refuses to
\* overwrite a file, and reset does not drop it before it has read the origin.
THEOREM WayBackKept == Spec => []WayBack
<1>1. WayInv => WayBack
  BY DEF WayInv, WayBack, Records
<1> QED
  BY <1>1, WayInit, WayNext, BisectAssumption, PTL DEF Spec
-----------------------------------------------------------------------------
(* The candidates form a line. *)

LEMMA AncestorsOf ==
    ASSUME NEW s \in State
    PROVE  /\ Ancestors[s] = Reachable(Parents, {s})
           /\ s \in Ancestors[s] /\ Ancestors[s] \subseteq State
           /\ \A a \in Ancestors[s] : Ancestors[a] \subseteq Ancestors[s]
           /\ \A a \in Ancestors[s] : Parents[a] \subseteq Ancestors[s]
           /\ \A a \in Ancestors[s] \ {s} : \E t \in Parents[s] : a \in Ancestors[t]
<1>1. Parents \in [State -> SUBSET State]
      BY BisectAssumption
<1>2. \A t \in State : Ancestors[t] = Reachable(Parents, {t})
      BY DEF Ancestors
<1>3. \A t \in State : t \in Ancestors[t] /\ Ancestors[t] \subseteq State
      <2>1. ASSUME NEW t \in State
            PROVE  t \in Reachable(Parents, {t}) /\ Reachable(Parents, {t}) \subseteq State
            BY <1>1, AncestorSelf, Zenon
      <2>2. QED
            BY <2>1, <1>2
<1>4. ASSUME NEW a \in Ancestors[s]
      PROVE  Ancestors[a] \subseteq Ancestors[s] /\ Parents[a] \subseteq Ancestors[s]
      <2>1. a \in State /\ a \in Reachable(Parents, {s})
            BY <1>2, <1>3
      <2>2. Reachable(Parents, {a}) \subseteq Reachable(Parents, {s})
            BY <1>1, <2>1, AncestorsNest, Zenon
      <2>3. Parents[a] \subseteq Reachable(Parents, {a})
            BY <1>1, <2>1, AncestorSelf, Zenon
      <2>4. QED
            BY <1>2, <2>1, <2>2, <2>3
<1>5. ASSUME NEW a \in Ancestors[s], a # s
      PROVE  \E t \in Parents[s] : a \in Ancestors[t]
      <2>1. a \in Reachable(Parents, {s})
            BY <1>2
      <2>2. PICK t \in Parents[s] : a \in Reachable(Parents, {t})
            BY <1>1, <1>5, <2>1, AncestorStep, Zenon
      <2>3. t \in State
            BY <1>1
      <2>4. QED
            BY <1>2, <2>2, <2>3
<1>6. QED
      BY <1>2, <1>3, <1>4, <1>5

\* A set that holds bad, good's history, and the parent of each of its states between
\* them, holds bad's history.
LEMMA WalkDown ==
    ASSUME NEW good \in State, NEW bad \in State, NEW C \in SUBSET State,
           bad \in C, Ancestors[good] \subseteq C,
           \A x \in C \cap Between(good, bad) : Parents[x] \subseteq C
    PROVE  Ancestors[bad] \subseteq C
<1>. DEFINE D == C \cap Ancestors[bad]
<1>1. ParentClosed(Parents, D)
      <2>1. ASSUME NEW x \in D PROVE Parents[x] \subseteq D
            <3>1. Parents[x] \subseteq Ancestors[bad]
                  BY AncestorsOf
            <3>2. CASE x \in Ancestors[good]
                  <4>1. Parents[x] \subseteq Ancestors[good]
                        BY <3>2, AncestorsOf
                  <4>2. QED
                        BY <3>1, <4>1
            <3>3. CASE x \notin Ancestors[good]
                  BY <3>1, <3>3 DEF Between
            <3>4. QED
                  BY <3>2, <3>3
      <2>2. QED
            BY <2>1 DEF ParentClosed
<1>2. DOMAIN Parents = State
      BY BisectAssumption
<1>3. {bad} \subseteq D
      BY AncestorsOf
<1>. HIDE DEF D
<1>4. D \in SUBSET DOMAIN Parents
      BY <1>2 DEF D
<1>5. Reachable(Parents, {bad}) \subseteq D
      BY <1>1, <1>3, <1>4, ReachableLeast
<1>6. QED
      BY <1>5, AncestorsOf DEF D

\* A state between two bisectable ends has one parent, through which its history goes.
LEMMA OneParent ==
    ASSUME NEW good \in State, NEW bad \in State, Bisectable(good, bad),
           NEW x \in Between(good, bad)
    PROVE  \E y \in State : /\ Parents[x] = {y}
                            /\ Ancestors[x] \ {x} \subseteq Ancestors[y]
                            /\ Ancestors[y] \subseteq Ancestors[x]
<1>1. x \in State
      BY AncestorsOf DEF Between
<1>2. PICK y : y \in Parents[x] /\ Parents[x] = {y}
      BY DEF Bisectable, IsLinear
<1>3. y \in State
      BY <1>1, <1>2, BisectAssumption
<1>4. QED
      BY <1>1, <1>2, <1>3, AncestorsOf

LEMMA GoodBelow ==
    ASSUME NEW good \in State, NEW bad \in State, Bisectable(good, bad),
           NEW s \in Between(good, bad)
    PROVE  good \in Ancestors[s]
<1>. DEFINE C == Ancestors[good] \cup {x \in State : good \in Ancestors[x]}
<1>1. C \in SUBSET State /\ Ancestors[good] \subseteq C /\ bad \in C
      BY AncestorsOf DEF Bisectable
<1>2. ASSUME NEW x \in C \cap Between(good, bad) PROVE Parents[x] \subseteq C
      <2>1. good \in Ancestors[x] /\ x # good
            BY AncestorsOf DEF Between
      <2>2. QED
            BY <2>1, OneParent
<1>. HIDE DEF C
<1>3. Ancestors[bad] \subseteq C
      BY <1>1, <1>2, WalkDown
<1>4. QED
      BY <1>3 DEF C, Between

\* Of two states between, one is an ancestor of the other,
LEMMA Comparable ==
    ASSUME NEW good \in State, NEW bad \in State, Bisectable(good, bad),
           NEW s \in Between(good, bad), NEW t \in Between(good, bad)
    PROVE  s \in Ancestors[t] \/ t \in Ancestors[s]
<1>. DEFINE C == Ancestors[good] \cup Ancestors[s] \cup {x \in State : s \in Ancestors[x]}
<1>0. s \in State
      BY AncestorsOf DEF Between
<1>1. C \in SUBSET State /\ Ancestors[good] \subseteq C /\ bad \in C
      BY <1>0, AncestorsOf DEF Between
<1>2. ASSUME NEW x \in C \cap Between(good, bad) PROVE Parents[x] \subseteq C
      <2>1. CASE x \in Ancestors[s]
            BY <1>0, <2>1, AncestorsOf
      <2>2. CASE x \notin Ancestors[s]
            <3>1. s \in Ancestors[x] /\ x # s
                  BY <1>0, <2>2, AncestorsOf DEF Between
            <3>2. QED
                  BY <3>1, OneParent
      <2>3. QED
            BY <2>1, <2>2
<1>. HIDE DEF C
<1>3. Ancestors[bad] \subseteq C
      BY <1>1, <1>2, WalkDown
<1>4. QED
      BY <1>3 DEF C, Between

\* and not both, unless they are the same: the walk from bad meets good.
LEMMA NoCycle ==
    ASSUME NEW good \in State, NEW bad \in State, Bisectable(good, bad),
           NEW s \in Between(good, bad), NEW t \in Between(good, bad),
           s \in Ancestors[t], t \in Ancestors[s]
    PROVE  s = t
<1>. SUFFICES ASSUME s # t PROVE FALSE
     OBVIOUS
<1>. DEFINE C == {x \in Ancestors[s] : s \in Ancestors[x]}
<1>0. s \in State /\ t \in State
      BY AncestorsOf DEF Between
<1>1. ASSUME NEW x \in C PROVE Parents[x] \subseteq C
      <2>1. x \in Between(good, bad)
            <3>1. x \in Ancestors[bad]
                  BY <1>0, AncestorsOf DEF Between
            <3>2. x \notin Ancestors[good]
                  BY <1>0, AncestorsOf DEF Between
            <3>3. QED
                  BY <3>1, <3>2 DEF Between
      <2>2. PICK y \in State : /\ Parents[x] = {y}
                               /\ Ancestors[x] \ {x} \subseteq Ancestors[y]
                               /\ Ancestors[y] \subseteq Ancestors[x]
            BY <2>1, OneParent
      <2>3. y \in Ancestors[s]
            BY <1>0, <2>2, AncestorsOf
      <2>4. s \in Ancestors[y]
            <3>1. CASE x # s
                  BY <2>2, <3>1
            <3>2. CASE x = s
                  <4>1. t \in Ancestors[y]
                        BY <2>2, <3>2
                  <4>2. QED
                        BY <2>2, <4>1, AncestorsOf
            <3>3. QED
                  BY <3>1, <3>2
      <2>5. QED
            BY <2>2, <2>3, <2>4
<1>2. ParentClosed(Parents, C)
      BY <1>1 DEF ParentClosed
<1>3. {s} \subseteq C /\ C \subseteq State
      BY <1>0, AncestorsOf
<1>4. good \in Ancestors[s]
      BY GoodBelow
<1>. HIDE DEF C
<1>5. C \in SUBSET DOMAIN Parents
      BY <1>3, BisectAssumption
<1>6. Ancestors[s] \subseteq C
      <2>1. Reachable(Parents, {s}) \subseteq C
            BY <1>2, <1>3, <1>5, ReachableLeast
      <2>2. QED
            BY <1>0, <2>1, AncestorsOf
<1>7. s \in Ancestors[good]
      BY <1>4, <1>6 DEF C
<1>8. QED
      BY <1>7 DEF Between

\* The list start and mark write: the states between, oldest first, bad the last of them.
LEMMA LineSound ==
    ASSUME NEW good \in State, NEW bad \in State, Bisectable(good, bad),
           bad \notin Ancestors[good]
    PROVE  LET n    == Cardinality(Between(good, bad))
               line == Line(good, bad)
           IN  /\ n \in Nat \ {0}
               /\ line \in Seq(State) /\ Len(line) = n
               /\ Listed(line) = Between(good, bad)
               /\ line[n] = bad
               /\ \A i, j \in 1 .. n : i <= j => line[i] \in Ancestors[line[j]]
<1>. DEFINE B      == Between(good, bad)
            n      == Cardinality(B)
            age(s) == Cardinality(B \cap Ancestors[s])
            line   == Line(good, bad)
<1>1. B \subseteq State /\ bad \in B
      BY AncestorsOf DEF Between
<1>2. IsFiniteSet(B) /\ n \in Nat
      BY <1>1, BisectAssumption, FS_Subset, FS_CardinalityType
<1>3. \A s, t \in B : s \in Ancestors[t] \/ t \in Ancestors[s]
      BY Comparable
<1>4. \A s, t \in B : s \in Ancestors[t] /\ t \in Ancestors[s] => s = t
      BY NoCycle
<1>. HIDE DEF B
<1>5. ASSUME NEW s \in B
      PROVE  age(s) \in 1 .. n
      <2>1. B \cap Ancestors[s] \in SUBSET B /\ s \in B \cap Ancestors[s]
            BY <1>1, AncestorsOf
      <2>2. IsFiniteSet(B \cap Ancestors[s]) /\ age(s) <= n /\ age(s) \in Nat
            BY <1>2, <2>1, FS_Subset, FS_CardinalityType
      <2>3. age(s) # 0
            BY <2>1, <2>2, FS_EmptySet
      <2>4. QED
            BY <1>2, <2>2, <2>3
<1>6. ASSUME NEW s \in B, NEW t \in B, s \in Ancestors[t]
      PROVE  age(s) <= age(t) /\ (age(s) = age(t) => s = t)
      <2>1. B \cap Ancestors[s] \in SUBSET (B \cap Ancestors[t])
            BY <1>1, <1>6, AncestorsOf
      <2>2. IsFiniteSet(B \cap Ancestors[t])
            BY <1>2, FS_Subset
      <2>3. /\ age(s) <= age(t)
            /\ age(s) = age(t) => B \cap Ancestors[s] = B \cap Ancestors[t]
            BY <2>1, <2>2, FS_Subset
      <2>4. t \in B \cap Ancestors[t]
            BY <1>1, AncestorsOf
      <2>5. QED
            BY <1>4, <1>6, <2>3, <2>4
<1>. DEFINE f == [s \in B |-> age(s)]
<1>7. f \in Injection(B, 1 .. n)
      <2>1. f \in [B -> 1 .. n]
            BY <1>5
      <2>2. ASSUME NEW s \in B, NEW t \in B, age(s) = age(t)
            PROVE  s = t
            BY <1>3, <1>6, <2>2
      <2>3. QED
            BY <2>1, <2>2 DEF Injection, IsInjective
<1>8. \A i \in 1 .. n : \E s \in B : age(s) = i
      <2>1. IsFiniteSet(1 .. n) /\ Cardinality(1 .. n) = n
            BY <1>2, FS_Interval
      <2>2. f \in Surjection(B, 1 .. n)
            BY <1>7, <2>1, FS_Injection
      <2>3. QED
            BY <2>2 DEF Surjection
<1>9. /\ line = [i \in 1 .. n |-> CHOOSE s \in B : age(s) = i]
      /\ Listed(line) = {line[i] : i \in DOMAIN line}
      BY DEF Line, B, Listed
<1>. HIDE DEF line, n, age
<1>10. \A i \in 1 .. n : line[i] \in B /\ age(line[i]) = i
      BY <1>8, <1>9
<1>11. \A s, t \in B : age(s) = age(t) => s = t
      BY <1>3, <1>6
<1>12. \A s \in B : line[age(s)] = s
      BY <1>5, <1>10, <1>11
<1>13. age(bad) = n
      <2>1. B \cap Ancestors[bad] = B
            BY DEF B, Between
      <2>2. QED
            BY <2>1 DEF age, n
<1>14. n \in Nat \ {0}
      BY <1>1, <1>2, <1>5, <1>13
<1>15. line \in Seq(State) /\ Len(line) = n
      BY <1>1, <1>2, <1>9, <1>10
<1>16. Listed(line) = B
      <2>1. DOMAIN line = 1 .. n
            BY <1>9
      <2>2. \A s \in B : age(s) \in 1 .. n
            BY <1>5
      <2>3. ASSUME NEW s \in B PROVE s \in Listed(line)
            <3>1. age(s) \in DOMAIN line /\ line[age(s)] = s
                  BY <1>12, <2>1, <2>2
            <3>2. QED
                  BY <1>9, <3>1
      <2>4. Listed(line) \subseteq B
            BY <1>9, <1>10, <2>1
      <2>5. QED
            BY <2>3, <2>4
<1>17. \A i, j \in 1 .. n : i <= j => line[i] \in Ancestors[line[j]]
      <2>1. ASSUME NEW i \in 1 .. n, NEW j \in 1 .. n, i <= j, line[i] \notin Ancestors[line[j]]
            PROVE  FALSE
            <3>1. line[j] \in Ancestors[line[i]]
                  BY <1>3, <1>10, <2>1
            <3>2. j <= i
                  BY <1>6, <1>10, <3>1
            <3>3. line[i] = line[j] /\ line[i] \in State
                  BY <1>1, <1>2, <1>10, <2>1, <3>2
            <3>4. QED
                  BY <2>1, <3>3, AncestorsOf
      <2>2. QED
            BY <2>1
<1>18. line[n] = bad
      BY <1>1, <1>12, <1>13
<1>19. QED
      BY <1>14, <1>15, <1>16, <1>17, <1>18 DEF line, n, B
-----------------------------------------------------------------------------
(* The search is sound when no other command writes boundaries beside the  *)
(* script: the verdict is then applied to the range it was asked for.      *)
(* (A start or a mark there would change the range under the script.)      *)

Unmarked == Nested \subseteq {"reset", "checkout"}

\* A bug, once in, stays in every later state.
Bugs == {B \in SUBSET State :
            \A s, t \in State : s \in B /\ s \in Ancestors[t] => t \in B}

\* bisect-state.json, with any bounds.
File == [origin : Branch \cup State, good : State, bad : State, skipped : SUBSET State,
         candidates : Seq(State), low : Nat, high : Nat]

\* Each candidate is an ancestor of those after it.
Ordered(candidates) ==
    \A i, j \in 1 .. Len(candidates) : i <= j => candidates[i] \in Ancestors[candidates[j]]

\* What the candidates of a search s must tell of the bugs B, the states U aside.
Covers(s, B, U) ==
    LET listed == Listed(s.candidates)
    IN  /\ listed \subseteq Between(s.good, s.bad)
        /\ Between(s.good, s.bad) \ listed \subseteq U
        /\ \A i \in 1 .. s.low - 1 : s.candidates[i] \notin B
        /\ listed \cap B # {} => s.candidates[s.high] \in B

\* A file the commands and the loop of the run may leave.
Searching(s, B, U) ==
    /\ s \in File
    /\ s.good \notin B /\ s.bad \in B /\ Bisectable(s.good, s.bad)
    /\ 1 <= s.low /\ s.low <= s.high /\ s.high <= Len(s.candidates)
    /\ Ordered(s.candidates)
    /\ Covers(s, B, U)

\* The script answers for the candidate in the middle of the range.
Asked ==
    /\ run.mid \in search.low .. search.high
    /\ run.candidate = search.candidates[run.mid]

\* The inductive form of SearchSound.
SearchInv ==
    /\ broken \in Bugs /\ untestable \subseteq State
    /\ {home, head} \subseteq Branch \cup State
    /\ search # NoSearch => Searching(search, broken, untestable)
    /\ run \in [phase : {"none", "next", "script"}, mid : Nat, candidate : State \cup {NoState}]
    /\ run.phase = "script" /\ search # NoSearch => Asked
    /\ undo \subseteq Branch \cup State
    /\ report \in State \cup {NoState}

\* Fresh boundaries, one good and one bad, make a sound search of any file.
LEMMA BoundedSearching ==
    ASSUME NEW B \in Bugs, NEW U \in SUBSET State, NEW s \in File,
           NEW good \in State, NEW bad \in State, Bisectable(good, bad),
           good \notin B, bad \in B
    PROVE  Searching(Bounded(s, good, bad), B, U)
<1>. DEFINE n    == Cardinality(Between(good, bad))
            line == Line(good, bad)
            b    == Bounded(s, good, bad)
<1>1. bad \notin Ancestors[good]
      BY DEF Bugs
<1>2. /\ n \in Nat \ {0}
      /\ line \in Seq(State) /\ Len(line) = n
      /\ Listed(line) = Between(good, bad)
      /\ line[n] = bad
      /\ \A i, j \in 1 .. n : i <= j => line[i] \in Ancestors[line[j]]
      BY <1>1, LineSound
<1>. HIDE DEF n, line
<1>3. /\ b.good = good /\ b.bad = bad /\ b.candidates = line /\ b.low = 1 /\ b.high = n
      /\ b \in File
      BY <1>2 DEF Bounded, File, n, line
<1>. HIDE DEF b
<1>4. Ordered(b.candidates)
      BY <1>2, <1>3 DEF Ordered
<1>5. Covers(b, B, U)
      BY <1>2, <1>3 DEF Covers
<1>6. Searching(b, B, U)
      BY <1>2, <1>3, <1>4, <1>5 DEF Searching
<1>7. QED
      BY <1>6 DEF b

\* The candidates before a good one are good.
LEMMA GoodBefore ==
    ASSUME NEW B \in Bugs, NEW c \in Seq(State), Ordered(c),
           NEW i \in 1 .. Len(c), NEW j \in 1 .. Len(c), i <= j, c[i] \in B
    PROVE  c[j] \in B
<1>1. c[i] \in State /\ c[j] \in State /\ c[i] \in Ancestors[c[j]]
      BY DEF Ordered
<1>2. QED
      BY <1>1 DEF Bugs

LEMMA GoodSearching ==
    ASSUME NEW B \in Bugs, NEW U \in SUBSET State, NEW s, Searching(s, B, U),
           NEW mid \in s.low .. s.high - 1, s.candidates[mid] \notin B
    PROVE  Searching([s EXCEPT !.low = mid + 1], B, U)
<1>. DEFINE b == [s EXCEPT !.low = mid + 1]
<1>1. /\ s \in File /\ s.low \in Nat /\ s.high \in Nat /\ s.candidates \in Seq(State)
      /\ mid \in Nat /\ mid + 1 <= s.high
      BY DEF Searching, File
<1>2. /\ b \in File
      /\ b.good = s.good /\ b.bad = s.bad /\ b.candidates = s.candidates
      /\ b.low = mid + 1 /\ b.high = s.high
      BY <1>1 DEF File
<1>. HIDE DEF b
<1>3. ASSUME NEW i \in 1 .. mid PROVE s.candidates[i] \notin B
      <2>1. i \in 1 .. Len(s.candidates) /\ mid \in 1 .. Len(s.candidates) /\ i <= mid
            BY <1>1 DEF Searching
      <2>2. QED
            BY <1>1, <2>1, GoodBefore DEF Searching
<1>4. Covers(b, B, U)
      BY <1>1, <1>2, <1>3 DEF Covers, Searching
<1>5. Searching(b, B, U)
      BY <1>1, <1>2, <1>4 DEF Searching
<1>6. QED
      BY <1>5 DEF b

LEMMA BadSearching ==
    ASSUME NEW B \in Bugs, NEW U \in SUBSET State, NEW s, Searching(s, B, U),
           NEW mid \in s.low .. s.high, s.candidates[mid] \in B
    PROVE  Searching([s EXCEPT !.high = mid], B, U)
<1>. DEFINE b == [s EXCEPT !.high = mid]
<1>1. /\ s \in File /\ s.low \in Nat /\ s.high \in Nat /\ s.candidates \in Seq(State)
      /\ mid \in Nat
      BY DEF Searching, File
<1>2. /\ b \in File
      /\ b.good = s.good /\ b.bad = s.bad /\ b.candidates = s.candidates
      /\ b.low = s.low /\ b.high = mid
      BY <1>1 DEF File
<1>. HIDE DEF b
<1>3. Covers(b, B, U)
      BY <1>2 DEF Covers, Searching
<1>4. Searching(b, B, U)
      BY <1>1, <1>2, <1>3 DEF Searching
<1>5. QED
      BY <1>4 DEF b

\* A candidate that cannot be tested is dropped: the range stays around the same bugs.
LEMMA WithoutSearching ==
    ASSUME NEW B \in Bugs, NEW U \in SUBSET State, NEW s, Searching(s, B, U),
           NEW mid \in s.low .. s.high, s.candidates[mid] \in U, Len(s.candidates) > 1
    PROVE  Searching(Without(s, mid, s.candidates[mid]), B, U)
<1>. DEFINE c    == s.candidates
            n    == Len(c) - 1
            left == SubSeq(c, 1, mid - 1) \o SubSeq(c, mid + 1, Len(c))
            low  == IF s.low > n THEN n ELSE s.low
            high == IF s.high > n THEN n ELSE s.high
            b    == Without(s, mid, c[mid])
<1>1. /\ s \in File /\ s.low \in Nat /\ s.high \in Nat /\ c \in Seq(State)
      /\ mid \in Nat /\ Len(c) \in Nat /\ n \in Nat /\ n >= 1
      /\ 1 <= s.low /\ s.low <= mid /\ mid <= s.high /\ s.high <= n + 1
      BY DEF Searching, File
<1>. HIDE DEF c
<1>2. /\ left \in Seq(State) /\ Len(left) = n
      /\ \A i \in 1 .. n : left[i] = IF i < mid THEN c[i] ELSE c[i + 1]
      <2>. DEFINE below == SubSeq(c, 1, mid - 1)
                  above == SubSeq(c, mid + 1, Len(c))
      <2>1. /\ below \in Seq(State) /\ Len(below) = mid - 1
            /\ \A i \in 1 .. mid - 1 : below[i] = c[i]
            BY <1>1
      <2>2. /\ above \in Seq(State) /\ Len(above) = Len(c) - mid
            /\ \A i \in 1 .. Len(c) - mid : above[i] = c[mid + i]
            BY <1>1
      <2>. HIDE DEF below, above
      <2>. DEFINE both == below \o above
      <2>3. both \in Seq(State) /\ Len(both) = n
            BY <1>1, <2>1, <2>2
      <2>4. ASSUME NEW i \in 1 .. n
            PROVE  both[i] = IF i < mid THEN c[i] ELSE c[i + 1]
            <3>1. both[i] = IF i <= mid - 1 THEN below[i] ELSE above[i - (mid - 1)]
                  BY <1>1, <2>1, <2>2
            <3>2. CASE i < mid
                  BY <1>1, <2>1, <3>1, <3>2
            <3>3. CASE ~(i < mid)
                  <4>1. i - (mid - 1) \in 1 .. Len(c) - mid /\ mid + (i - (mid - 1)) = i + 1
                        BY <1>1, <3>3
                  <4>2. QED
                        BY <1>1, <2>2, <3>1, <3>3, <4>1
            <3>4. QED
                  BY <3>2, <3>3
      <2>5. left = both
            BY DEF below, above
      <2>6. QED
            BY <2>3, <2>4, <2>5
<1>. HIDE DEF left
<1>3. /\ low \in Nat /\ high \in Nat
      /\ 1 <= low /\ low <= high /\ high <= n
      BY <1>1
<1>4. /\ b \in File
      /\ b.good = s.good /\ b.bad = s.bad /\ b.candidates = left
      /\ b.low = low /\ b.high = high
      <2>. DEFINE skipped == (s.skipped \cup {c[mid]}) \cap Listed(left)
      <2>1. b = [s EXCEPT !.candidates = left, !.skipped = skipped, !.low = low, !.high = high]
            <3>. DEFINE lo == IF s.low > Len(left) THEN Len(left) ELSE s.low
                        hi == IF s.high > Len(left) THEN Len(left) ELSE s.high
            <3>1. b = [s EXCEPT !.candidates = left, !.skipped = skipped,
                                !.low = IF lo > hi THEN 1 ELSE lo,
                                !.high = IF lo > hi THEN Len(left) ELSE hi]
                  BY DEF Without, left, c
            <3>2. lo = low /\ hi = high /\ ~(lo > hi)
                  BY <1>1, <1>2, <1>3
            <3>. HIDE DEF lo, hi, low, high, b, skipped
            <3>3. QED
                  BY <3>1, <3>2
      <2>2. c[mid] \in State /\ skipped \subseteq State
            BY <1>1 DEF File
      <2>. HIDE DEF b, low, high, skipped
      <2>3. QED
            BY <1>1, <1>2, <1>3, <2>1, <2>2 DEF File
<1>. HIDE DEF b
<1>5. Ordered(left)
      <2>1. \A i, j \in 1 .. n + 1 : i <= j => c[i] \in Ancestors[c[j]]
            BY <1>1 DEF Ordered, Searching, c
      <2>2. ASSUME NEW i \in 1 .. n, NEW j \in 1 .. n, i <= j
            PROVE  left[i] \in Ancestors[left[j]]
            <3>. DEFINE old(k) == IF k < mid THEN k ELSE k + 1
            <3>1. /\ left[i] = c[old(i)] /\ left[j] = c[old(j)]
                  BY <1>2
            <3>2. old(i) \in 1 .. n + 1 /\ old(j) \in 1 .. n + 1 /\ old(i) <= old(j)
                  BY <1>1, <2>2
            <3>3. QED
                  BY <2>1, <3>1, <3>2
      <2>3. QED
            BY <1>2, <2>2 DEF Ordered
<1>6. Listed(left) \subseteq Listed(c) /\ Listed(c) \ Listed(left) \subseteq {c[mid]}
      <2>1. ASSUME NEW i \in 1 .. n PROVE left[i] \in Listed(c)
            BY <1>1, <1>2 DEF Listed
      <2>2. ASSUME NEW j \in 1 .. n + 1, j # mid PROVE c[j] \in Listed(left)
            <3>1. CASE j < mid
                  BY <1>1, <1>2, <3>1 DEF Listed
            <3>2. CASE j > mid
                  <4>1. j - 1 \in 1 .. n /\ left[j - 1] = c[j]
                        BY <1>1, <1>2, <3>2
                  <4>2. QED
                        BY <1>2, <4>1 DEF Listed
            <3>3. QED
                  BY <1>1, <2>2, <3>1, <3>2
      <2>3. DOMAIN left = 1 .. n /\ DOMAIN c = 1 .. n + 1
            BY <1>1, <1>2
      <2>4. QED
            BY <2>1, <2>2, <2>3 DEF Listed
<1>7. ASSUME NEW i \in 1 .. low - 1 PROVE left[i] \notin B
      <2>1. i \in 1 .. s.low - 1 /\ left[i] = c[i]
            BY <1>1, <1>2, <1>3
      <2>2. QED
            BY <2>1 DEF Searching, Covers, c
<1>8. ASSUME NEW j \in 1 .. n, left[j] \in B PROVE left[high] \in B
      <2>1. CASE s.high = n + 1
            <3>1. high = n
                  BY <1>1, <2>1
            <3>2. QED
                  <4>1. j \in 1 .. Len(left) /\ n \in 1 .. Len(left) /\ j <= n
                        BY <1>1, <1>2
                  <4>2. left[n] \in B
                        BY <1>2, <1>5, <1>8, <4>1, GoodBefore
                  <4>3. QED
                        BY <3>1, <4>2
      <2>2. CASE s.high # n + 1
            <3>0. s.high \in 1 .. n /\ ~(s.high < mid) /\ high = s.high
                  BY <1>1, <2>2
            <3>1. high = s.high /\ left[high] = c[s.high + 1]
                  BY <1>2, <3>0
            <3>2. left[j] \in Listed(c) \cap B
                  BY <1>2, <1>6, <1>8 DEF Listed
            <3>3. c[s.high] \in B
                  BY <3>2 DEF Searching, Covers, c
            <3>4. s.high \in 1 .. Len(c) /\ s.high + 1 \in 1 .. Len(c)
                  BY <1>1, <2>2
            <3>5. c[s.high + 1] \in B
                  BY <1>1, <3>3, <3>4, GoodBefore DEF Searching, c
            <3>6. QED
                  BY <3>1, <3>5
      <2>3. QED
            BY <2>1, <2>2
<1>9. Covers(b, B, U)
      <2>1. Listed(left) \subseteq Between(s.good, s.bad)
            BY <1>6 DEF Searching, Covers, c
      <2>2. Between(s.good, s.bad) \ Listed(left) \subseteq U
            BY <1>6 DEF Searching, Covers, c
      <2>3. Listed(left) \cap B # {} => left[high] \in B
            BY <1>2, <1>8 DEF Listed
      <2>4. QED
            BY <1>4, <1>7, <2>1, <2>2, <2>3 DEF Covers
<1>10. Searching(b, B, U)
      BY <1>1, <1>2, <1>3, <1>4, <1>5, <1>9 DEF Searching
<1>11. QED
      BY <1>10 DEF b, c

LEMMA SearchInit == Init => SearchInv
<1>1. Init => broken \in Bugs
      BY DEF Init, Bugs
<1>2. QED
      BY <1>1, BisectAssumption DEF Init, SearchInv, NoRun

\* No file is no search.
LEMMA FileThere ==
    ASSUME NEW s \in File
    PROVE  s # NoSearch
<1>1. DOMAIN s = {"origin", "good", "bad", "skipped", "candidates", "low", "high"}
      BY DEF File
<1>2. DOMAIN NoSearch = {"origin"}
      BY DEF NoSearch
<1>3. QED
      BY <1>1, <1>2

\* The script's verdict, whatever it is, leaves a sound search.
LEMMA VerdictSearching ==
    ASSUME SearchInv, search # NoSearch, Asked, TestedGood \/ TestedBad \/ Skipped
    PROVE  /\ Searching(search', broken, untestable)
           /\ run'.phase # "script"
           /\ run' \in [phase : {"none", "next", "script"}, mid : Nat,
                        candidate : State \cup {NoState}]
           /\ report' \in State \cup {NoState}
           /\ UNCHANGED <<head, undo>>
<1>1. /\ Searching(search, broken, untestable)
      /\ broken \in Bugs /\ untestable \in SUBSET State
      /\ report \in State \cup {NoState}
      BY DEF SearchInv
<1>2. /\ search \in File /\ search.low \in Nat /\ search.high \in Nat
      /\ search.candidates \in Seq(State)
      /\ 1 <= search.low /\ search.high <= Len(search.candidates)
      /\ run.mid \in search.low .. search.high
      /\ run.mid \in DOMAIN search.candidates
      /\ run.candidate = search.candidates[run.mid] /\ run.candidate \in State
      BY <1>1 DEF Searching, File, Asked
<1>3. /\ NoRun.phase = "none"
      /\ [NoRun EXCEPT !.phase = "next"].phase = "next"
      /\ {NoRun, [NoRun EXCEPT !.phase = "next"]} \subseteq
            [phase : {"none", "next", "script"}, mid : Nat, candidate : State \cup {NoState}]
      BY DEF NoRun
<1>4. ASSUME TestedGood
      PROVE  /\ Searching(search', broken, untestable)
             /\ run' \in {NoRun, [NoRun EXCEPT !.phase = "next"]}
             /\ report' \in State \cup {NoState}
             /\ UNCHANGED <<head, undo>>
      <2>. DEFINE b == [search EXCEPT !.low = run.mid + 1]
      <2>1. /\ search.bad \in State
            /\ b.bad = search.bad /\ b.low = run.mid + 1 /\ b.high = search.high
            BY <1>2 DEF File
      <2>2. run.candidate \notin broken
            BY <1>4 DEF TestedGood
      <2>3. CASE b.low > b.high
            <3>1. Report(search.bad)
                  BY <1>4, <2>1, <2>3, Zenon DEF TestedGood
            <3>2. QED
                  BY <1>1, <2>1, <3>1 DEF Report
      <2>4. CASE ~(b.low > b.high)
            <3>1. Save(b)
                  BY <1>4, <2>4, Zenon DEF TestedGood
            <3>2. run.mid \in search.low .. search.high - 1
                  BY <1>2, <2>1, <2>4
            <3>3. Searching(b, broken, untestable)
                  BY <1>1, <1>2, <2>2, <3>2, GoodSearching
            <3>. HIDE DEF b
            <3>4. QED
                  BY <1>1, <3>1, <3>3 DEF Save
      <2>5. QED
            BY <2>3, <2>4
<1>5. ASSUME TestedBad
      PROVE  /\ Searching(search', broken, untestable)
             /\ run' \in {NoRun, [NoRun EXCEPT !.phase = "next"]}
             /\ report' \in State \cup {NoState}
             /\ UNCHANGED <<head, undo>>
      <2>. DEFINE b == [search EXCEPT !.high = run.mid]
      <2>1. b.candidates = search.candidates /\ b.low = search.low /\ b.high = run.mid
            BY <1>2 DEF File
      <2>2. run.candidate \in broken
            BY <1>5 DEF TestedBad
      <2>3. CASE b.low # b.high
            <3>1. Save(b)
                  BY <1>5, <2>3, Zenon DEF TestedBad
            <3>2. Searching(b, broken, untestable)
                  BY <1>1, <1>2, <2>2, BadSearching
            <3>. HIDE DEF b
            <3>3. QED
                  BY <1>1, <3>1, <3>2 DEF Save
      <2>4. CASE ~(b.low # b.high)
            <3>1. b.low \in DOMAIN b.candidates /\ b.candidates[b.low] = run.candidate
                  BY <1>2, <2>1, <2>4
            <3>2. Report(run.candidate)
                  BY <1>5, <2>4, <3>1, Zenon DEF TestedBad
            <3>3. QED
                  BY <1>1, <1>2, <3>2 DEF Report
      <2>5. QED
            BY <2>3, <2>4
<1>6. ASSUME Skipped
      PROVE  /\ Searching(search', broken, untestable)
             /\ run' \in {NoRun, [NoRun EXCEPT !.phase = "next"]}
             /\ report' \in State \cup {NoState}
             /\ UNCHANGED <<head, undo>>
      <2>. DEFINE b == Without(search, run.mid, run.candidate)
      <2>1. CASE Len(search.candidates) > 1
            <3>1. Save(b)
                  BY <1>2, <1>6, <2>1 DEF Skipped
            <3>2. run.candidate \in untestable
                  BY <1>6 DEF Skipped
            <3>3. Searching(b, broken, untestable)
                  BY <1>1, <1>2, <2>1, <3>2, WithoutSearching
            <3>. HIDE DEF b
            <3>4. QED
                  BY <1>1, <3>1, <3>3 DEF Save
      <2>2. CASE ~(Len(search.candidates) > 1)
            BY <1>1, <1>6, <2>2 DEF Skipped, Fail
      <2>3. QED
            BY <2>1, <2>2
<1>7. QED
      BY <1>3, <1>4, <1>5, <1>6

LEMMA SearchNext ==
    BisectAssumption /\ Unmarked /\ SearchInv /\ [Next]_vars => SearchInv'
<1>. SUFFICES ASSUME BisectAssumption, Unmarked, SearchInv, [Next]_vars
              PROVE  SearchInv'
     OBVIOUS
<1>. DEFINE Runs == [phase : {"none", "next", "script"}, mid : Nat,
                     candidate : State \cup {NoState}]
<1>0. /\ broken \in Bugs /\ untestable \in SUBSET State
      /\ {home, head} \subseteq Branch \cup State
      /\ undo \subseteq Branch \cup State
      /\ report \in State \cup {NoState}
      /\ run \in Runs
      /\ search # NoSearch => Searching(search, broken, untestable) /\ search \in File
      BY DEF SearchInv, Searching
<1>1. ASSUME NEW good \in State, NEW bad \in State, Start(good, bad)
      PROVE  SearchInv'
      <2>. DEFINE new == [origin |-> head, good |-> good, bad |-> bad, skipped |-> {},
                          candidates |-> <<>>, low |-> 0, high |-> 0]
      <2>1. new \in File
            BY <1>0 DEF File
      <2>2. /\ Bisectable(good, bad) /\ good \notin broken /\ bad \in broken
            /\ search' = Bounded(new, good, bad)
            /\ run.phase # "script"
            /\ UNCHANGED <<truth, head, run, undo, report>>
            BY <1>1 DEF Start, MayRun, Unmarked
      <2>3. Searching(search', broken, untestable)
            BY <1>0, <2>1, <2>2, BoundedSearching
      <2>4. QED
            BY <1>0, <2>2, <2>3 DEF SearchInv, truth
<1>2. ASSUME NEW s \in State, Mark(s)
      PROVE  SearchInv'
      <2>. DEFINE good == IF s \in broken THEN search.good ELSE s
                  bad  == IF s \in broken THEN s ELSE search.bad
      <2>1. /\ search # NoSearch /\ Bisectable(good, bad)
            /\ search' = Bounded(search, good, bad)
            /\ run.phase # "script"
            /\ UNCHANGED <<truth, head, run, undo, report>>
            BY <1>2 DEF Mark, MayRun, Unmarked
      <2>2. /\ search \in File
            /\ good \in State /\ bad \in State /\ good \notin broken /\ bad \in broken
            BY <1>0, <2>1 DEF Searching, File
      <2>3. Searching(search', broken, untestable)
            BY <1>0, <2>1, <2>2, BoundedSearching
      <2>4. QED
            BY <1>0, <2>1, <2>3 DEF SearchInv, truth
<1>3. ASSUME NEW h \in Homes, Checkout(h)
      PROVE  SearchInv'
      <2>1. h \in Branch \cup State
            BY BisectAssumption
      <2>2. head' = h /\ UNCHANGED <<truth, search, run, undo, report>>
            BY <1>3 DEF Checkout
      <2>3. QED
            BY <2>1, <2>2 DEF SearchInv, truth, Asked
<1>4. CASE Reset
      <2>1. /\ search # NoSearch /\ search' = NoSearch /\ undo' = {search.origin}
            /\ UNCHANGED <<truth, head, run, report>>
            BY <1>4 DEF Reset
      <2>2. search.origin \in Branch \cup State
            BY <1>0, <2>1 DEF File
      <2>3. QED
            BY <1>0, <2>1, <2>2 DEF SearchInv, truth
<1>5. CASE FinishReset
      <2>1. head' \in undo /\ undo' = {} /\ UNCHANGED <<truth, search, run, report>>
            BY <1>5 DEF FinishReset
      <2>2. QED
            BY <1>0, <2>1 DEF SearchInv, truth, Asked
<1>6. CASE BeginRun
      <2>1. /\ run' = [NoRun EXCEPT !.phase = "next"] /\ report' = NoState
            /\ UNCHANGED <<truth, head, search, undo>>
            BY <1>6 DEF BeginRun
      <2>2. run' \in Runs /\ run'.phase = "next"
            BY <2>1 DEF NoRun
      <2>3. QED
            BY <1>0, <2>1, <2>2 DEF SearchInv, truth
<1>7. ASSUME Fail, UNCHANGED truth
      PROVE  SearchInv'
      <2>1. run' \in Runs /\ run'.phase = "none"
            BY <1>7 DEF Fail, NoRun
      <2>2. QED
            BY <1>0, <1>7, <2>1 DEF SearchInv, truth, Fail
<1>8. CASE Test
      <2>. DEFINE mid == Midpoint
                  c   == search.candidates[mid]
      <2>1. CASE search # NoSearch /\ search.low <= search.high /\ mid \in DOMAIN search.candidates
            <3>1. /\ run' = [phase |-> "script", mid |-> mid, candidate |-> c]
                  /\ head' = c
                  /\ UNCHANGED <<truth, search, undo, report>>
                  BY <1>8, <2>1 DEF Test
            <3>2. /\ search.low \in Nat /\ search.high \in Nat
                  /\ search.candidates \in Seq(State)
                  BY <1>0, <2>1 DEF File
            <3>3. mid \in search.low .. search.high /\ mid \in Nat /\ c \in State
                  BY <2>1, <3>2 DEF Midpoint
            <3>. HIDE DEF mid, c
            <3>4. run' \in Runs /\ run'.mid = mid /\ run'.candidate = c
                  BY <3>1, <3>3
            <3>5. Asked'
                  BY <3>1, <3>3, <3>4 DEF Asked, c
            <3>6. QED
                  BY <1>0, <3>1, <3>3, <3>4, <3>5 DEF SearchInv, truth
      <2>2. CASE ~(search # NoSearch /\ search.low <= search.high
                     /\ mid \in DOMAIN search.candidates)
            BY <1>7, <1>8, <2>2 DEF Test
      <2>3. QED
            BY <2>1, <2>2
<1>9. CASE ScriptEnds
      <2>1. run.phase = "script" /\ UNCHANGED truth
            BY <1>9 DEF ScriptEnds
      <2>2. CASE Resetting \/ search = NoSearch
            BY <1>7, <1>9, <2>1, <2>2 DEF ScriptEnds
      <2>3. CASE ~(Resetting \/ search = NoSearch)
            <3>1. Asked /\ (TestedGood \/ TestedBad \/ Skipped)
                  BY <1>9, <2>1, <2>3 DEF ScriptEnds, SearchInv
            <3>2. /\ Searching(search', broken, untestable)
                  /\ run'.phase # "script" /\ run' \in Runs
                  /\ report' \in State \cup {NoState}
                  /\ UNCHANGED <<head, undo>>
                  BY <2>3, <3>1, VerdictSearching
            <3>3. QED
                  BY <1>0, <2>1, <3>2 DEF SearchInv, truth
      <2>4. QED
            BY <2>2, <2>3
<1>10. CASE StopRun
      BY <1>7, <1>10 DEF StopRun
<1>11. CASE StopReset
      <2>1. /\ undo' = {} /\ home' = head
            /\ UNCHANGED <<broken, untestable, head, search, run, report>>
            BY <1>11 DEF StopReset
      <2>2. QED
            BY <1>0, <2>1 DEF SearchInv, Asked
<1>12. CASE UNCHANGED vars
      BY <1>12 DEF SearchInv, vars, truth, Asked
<1>13. QED
      BY <1>1, <1>2, <1>3, <1>4, <1>5, <1>6, <1>8, <1>9, <1>10, <1>11, <1>12 DEF Next

\* Whatever is typed and whenever the run is killed, every piece of the bisect keeps its
\* form, if no command sets boundaries beside the script.
THEOREM TypesKept == ASSUME Unmarked PROVE Spec => []TypeOK
<1>1. SearchInv => TypeOK
      BY DEF SearchInv, TypeOK, Searching, File, Bugs
<1>2. QED
      BY <1>1, Unmarked, BisectAssumption, SearchInit, SearchNext, PTL DEF Spec

\* No index of the loop is ever out of range, and the range never loses the first bug that
\* can be tested, for every history, every set of bugs and every state that cannot be
\* tested: mark_bisect_in_run clamps low and high after a skip so that they stay around it.
THEOREM SearchStaysSound == ASSUME Unmarked PROVE Spec => []SearchSound
<1>1. SearchInv => SearchSound
      BY DEF SearchInv, SearchSound, Searching, Covers
<1>2. QED
      BY <1>1, Unmarked, BisectAssumption, SearchInit, SearchNext, PTL DEF Spec

LEMMA ReportStep ==
    BisectAssumption /\ Unmarked /\ SearchInv /\ [Next]_vars =>
        [report' \notin {report, NoState} => IsFirstBad(report', search.good)]_vars
<1>. SUFFICES ASSUME BisectAssumption, Unmarked, SearchInv, Next,
                     report' \notin {report, NoState}
              PROVE  IsFirstBad(report', search.good)
     OBVIOUS
<1>1. /\ run.phase = "script" /\ search # NoSearch
      /\ TestedGood \/ TestedBad
      BY DEF Next, Start, Mark, Checkout, Reset, FinishReset, BeginRun, Test, ScriptEnds,
             StopRun, StopReset, Fail, Skipped, Save
<1>2. /\ Searching(search, broken, untestable) /\ Asked
      /\ broken \in Bugs
      BY <1>1 DEF SearchInv
<1>. DEFINE c == search.candidates
<1>3. /\ search \in File /\ search.low \in Nat /\ search.high \in Nat
      /\ search.good \in State /\ search.bad \in State
      /\ c \in Seq(State) /\ Len(c) \in Nat /\ DOMAIN c = 1 .. Len(c)
      /\ 1 <= search.low /\ search.high <= Len(c)
      /\ run.mid \in search.low .. search.high
      /\ run.mid \in DOMAIN c
      /\ run.candidate = c[run.mid] /\ run.candidate \in State
      BY <1>2 DEF Searching, File, Asked
<1>. DEFINE between == Between(search.good, search.bad)
<1>4. /\ Listed(c) \subseteq between
      /\ between \ Listed(c) \subseteq untestable
      /\ \A i \in 1 .. search.low - 1 : c[i] \notin broken
      /\ Listed(c) \cap broken # {} => c[search.high] \in broken
      /\ Ordered(c) /\ Bisectable(search.good, search.bad)
      /\ search.bad \in broken
      BY <1>2 DEF Searching, Covers
<1>5. CASE TestedGood
      <2>. DEFINE b == [search EXCEPT !.low = run.mid + 1]
      <2>1. b.bad = search.bad /\ b.low = run.mid + 1 /\ b.high = search.high
            BY <1>3 DEF File
      <2>2. b.low > b.high
            BY <1>5, Zenon DEF TestedGood, Save
      <2>3. Report(search.bad)
            BY <1>5, <2>1, <2>2, Zenon DEF TestedGood
      <2>4. run.mid = search.high /\ run.candidate \notin broken
            BY <1>3, <1>5, <2>1, <2>2 DEF TestedGood
      <2>5. between \cap broken \subseteq untestable
            BY <1>3, <1>4, <2>4
      <2>6. QED
            BY <1>4, <2>3, <2>5 DEF Report, IsFirstBad
<1>6. CASE TestedBad
      <2>. DEFINE b == [search EXCEPT !.high = run.mid]
                  s == run.candidate
      <2>1. b.candidates = c /\ b.low = search.low /\ b.high = run.mid
            BY <1>3 DEF File
      <2>2. ~(b.low # b.high)
            BY <1>6, Zenon DEF TestedBad, Save
      <2>3. run.mid = search.low
            BY <2>1, <2>2
      <2>4. b.low \in DOMAIN b.candidates /\ b.candidates[b.low] = s
            BY <1>3, <2>1, <2>2
      <2>5. Report(s) /\ s \in broken
            BY <1>6, <2>2, <2>4, Zenon DEF TestedBad
      <2>6. s \in between
            BY <1>3, <1>4 DEF Listed
      <2>7. ASSUME NEW x \in Between(search.good, s) \cap broken, x \notin untestable
            PROVE  x = s
            <3>1. x \in between
                  BY <1>3, <2>6, <2>7, AncestorsOf DEF Between
            <3>2. PICK j \in DOMAIN c : x = c[j]
                  BY <1>4, <2>7, <3>1 DEF Listed
            <3>3. j \in 1 .. Len(c) /\ run.mid \in 1 .. Len(c) /\ run.mid <= j
                  BY <1>3, <1>4, <2>3, <2>7, <3>2
            <3>4. s \in Ancestors[x]
                  BY <1>3, <1>4, <3>2, <3>3 DEF Ordered
            <3>5. x \in Ancestors[s]
                  BY <2>7 DEF Between
            <3>6. QED
                  BY <1>3, <1>4, <2>6, <3>1, <3>4, <3>5, NoCycle
      <2>8. QED
            BY <2>5, <2>7 DEF Report, IsFirstBad
<1>7. QED
      BY <1>1, <1>5, <1>6

\* What bisect run prints is the first bad state, up to those that cannot be tested, for
\* every history between two states that the code accepts, and after any marks, skips,
\* interrupted runs and resets.
THEOREM ReportsFirstBad == ASSUME Unmarked PROVE Spec => ReportCorrect
<1>1. QED
      BY Unmarked, BisectAssumption, SearchInit, SearchNext, ReportStep, PTL
         DEF Spec, ReportCorrect
=============================================================================
