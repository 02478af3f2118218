------------------------------- MODULE Bisect -------------------------------
(***************************************************************************)
(* The search of store/bisect.rs: the file bisect-state.json, the user who *)
(* starts, marks and resets, and the loop of `bisect run`, which gives the *)
(* lock up while its script runs, so that other commands may change or     *)
(* remove the file before the script's verdict is applied to it.           *)
(*                                                                         *)
(* Candidates are numbered from 1, the code's from 0: the midpoint of the  *)
(* two numberings is the same state.  Materializing a state is left to     *)
(* Repo: here HEAD stands for the whole checkout.                          *)
(***************************************************************************)
EXTENDS History, Sequences

CONSTANTS
    State, Branch,    \* the states are files of one directory: finitely many
    Parents,          \* the timeline, which no command of bisect changes
    NoState,
    Flaky,            \* the states on which the script may be unable to tell
    Homes,            \* where the user may put HEAD
    Nested            \* commands run beside the script: "start", "mark", "reset", "checkout"

ASSUME BisectAssumption ==
    /\ IsFiniteSet(State)
    /\ Parents \in [State -> SUBSET State]
    /\ NoState \notin State \cup Branch
    /\ Branch \cap State = {}
    /\ Flaky \subseteq State
    /\ Homes \subseteq Branch \cup State

VARIABLES
    broken,      \* the states that really are bad: what the search is to find out
    untestable,  \* the states on which the script answers 125
    home,        \* HEAD as the user had it before the bisect
    head,        \* HEAD: a branch, or a state when detached
    search,      \* bisect-state.json
    run,         \* the bisect run in progress
    undo,        \* what a bisect reset still has to make HEAD, if anything
    report       \* the state last reported as the first bad one

truth == <<broken, untestable, home>>
vars  == <<truth, head, search, run, undo, report>>

\* No file is there.
NoSearch == [origin |-> NoState]

NoRun == [phase |-> "none", mid |-> 0, candidate |-> NoState]

TypeOK ==
    /\ broken \subseteq State /\ untestable \subseteq State
    /\ {home, head} \subseteq Branch \cup State
    /\ search # NoSearch => search \in
         [origin : Branch \cup State, good : State, bad : State, skipped : SUBSET State,
          candidates : Seq(State), low : Nat \ {0}, high : Nat \ {0}]
    /\ run \in [phase : {"none", "next", "script"}, mid : Nat, candidate : State \cup {NoState}]
    /\ undo \subseteq Branch \cup State
    /\ report \in State \cup {NoState}

-----------------------------------------------------------------------------
(* The candidates. *)

Ancestors == [s \in State |-> Reachable(Parents, {s})]

\* The states above good up to bad.
Between(good, bad) == Ancestors[bad] \ Ancestors[good]

\* collect_bisect_candidates succeeds with something to test: its walk from bad meets
\* good, and no merge commit or root before it.
Bisectable(good, bad) ==
    /\ good # bad
    /\ good \in Ancestors[bad]
    /\ \A s \in Between(good, bad) : IsLinear(Parents, s)

\* The candidates, oldest first.
Line(good, bad) ==
    LET between == Between(good, bad)
        age(s)  == Cardinality(between \cap Ancestors[s])
    IN  [i \in 1 .. Cardinality(between) |-> CHOOSE s \in between : age(s) = i]

Listed(candidates) == {candidates[i] : i \in DOMAIN candidates}

\* A mutant of Bounded: the bad end is left out of the range.
BoundedBelowBad(s, good, bad) ==
    [s EXCEPT !.good = good, !.bad = bad, !.candidates = Line(good, bad),
              !.skipped = @ \cap Between(good, bad),
              !.low = 1, !.high = Cardinality(Between(good, bad)) - 1]

\* Fresh boundaries: every state between them is a candidate again.
Bounded(s, good, bad) ==
    [s EXCEPT !.good = good, !.bad = bad, !.candidates = Line(good, bad),
              !.skipped = @ \cap Between(good, bad),
              !.low = 1, !.high = Cardinality(Between(good, bad))]

-----------------------------------------------------------------------------
(* The user's commands.  Marks are truthful. *)

Resetting == undo # {}

\* The lock is free: no command is under way, or a run has given it up for its script
\* and the command is one that is run beside scripts here.
MayRun(kind) ==
    /\ ~Resetting
    /\ run.phase = "none" \/ (run.phase = "script" /\ kind \in Nested)

\* bisect start refuses when a bisect is in progress; its mutant does not.
NeverInProgress == TRUE
NotInProgress == search = NoSearch

Start(good, bad) ==
    /\ MayRun("start")
    /\ NotInProgress
    /\ Bisectable(good, bad)
    /\ good \notin broken /\ bad \in broken
    /\ search' = Bounded([origin |-> head, good |-> good, bad |-> bad, skipped |-> {},
                          candidates |-> <<>>, low |-> 0, high |-> 0], good, bad)
    /\ UNCHANGED <<truth, head, run, undo, report>>

\* bisect good and bisect bad, of HEAD or of a given state; refused without saving
\* when nothing is left between the boundaries.
Mark(s) ==
    /\ MayRun("mark")
    /\ search # NoSearch
    /\ LET good == IF s \in broken THEN search.good ELSE s
           bad  == IF s \in broken THEN s ELSE search.bad
       IN  /\ Bisectable(good, bad)
           /\ search' = Bounded(search, good, bad)
    /\ UNCHANGED <<truth, head, run, undo, report>>

\* bisect reset removes the file first, and restores the checkout then.
Reset ==
    /\ MayRun("reset")
    /\ search # NoSearch
    /\ search' = NoSearch
    /\ undo' = {search.origin}
    /\ UNCHANGED <<truth, head, run, report>>

FinishReset ==
    /\ head' \in undo
    /\ undo' = {}
    /\ UNCHANGED <<truth, search, run, report>>

\* Any other command that moves HEAD while a bisect is in progress.
Checkout(h) ==
    /\ MayRun("checkout")
    /\ search # NoSearch
    /\ head' = h
    /\ UNCHANGED <<truth, search, run, undo, report>>

-----------------------------------------------------------------------------
(* bisect run. *)

BeginRun ==
    /\ MayRun("run")
    /\ run' = [NoRun EXCEPT !.phase = "next"]
    /\ report' = NoState
    /\ UNCHANGED <<truth, head, search, undo>>

Midpoint == (search.low + search.high) \div 2

\* The run ends with an error, or with a panic on an index out of range, and saves nothing.
Fail == run' = NoRun /\ UNCHANGED <<head, search, undo, report>>

\* The top of the loop: load the file, check the midpoint out, give the lock up.
Test ==
    /\ run.phase = "next"
    /\ IF search # NoSearch /\ search.low <= search.high /\ Midpoint \in DOMAIN search.candidates
       THEN /\ run' = [phase |-> "script", mid |-> Midpoint,
                       candidate |-> search.candidates[Midpoint]]
            /\ head' = search.candidates[Midpoint]
            /\ UNCHANGED <<search, undo, report>>
       ELSE Fail
    /\ UNCHANGED truth

Save(s) ==
    /\ search' = s
    /\ run' = [NoRun EXCEPT !.phase = "next"]
    /\ UNCHANGED <<head, undo, report>>

\* The answer is printed; the file is left as it was before the last test.
Report(s) ==
    /\ report' = s
    /\ run' = NoRun
    /\ UNCHANGED <<head, search, undo>>

\* Mutants of TestedGood: the midpoint stays in the range; the answer is the last candidate.
TestedGoodStays ==
    /\ run.candidate \notin broken \cup untestable
    /\ LET s == [search EXCEPT !.low = run.mid]
       IN  IF s.low > s.high THEN Report(s.bad) ELSE Save(s)
TestedGoodReportsHigh ==
    /\ run.candidate \notin broken \cup untestable
    /\ LET s == [search EXCEPT !.low = run.mid + 1]
       IN  IF s.low > s.high THEN Report(s.candidates[s.high]) ELSE Save(s)

\* Exit 0.
TestedGood ==
    /\ run.candidate \notin broken \cup untestable
    /\ LET s == [search EXCEPT !.low = run.mid + 1]
       IN  IF s.low > s.high THEN Report(s.bad) ELSE Save(s)

\* Exit 1.  A script that a signal kills is taken for one that returned 1: such a verdict is
\* not about the state, so scripts whose verdicts are truthful leave it out.
TestedBad ==
    /\ run.candidate \in broken \ untestable
    /\ LET s == [search EXCEPT !.high = run.mid]
       IN  IF s.low # s.high THEN Save(s)
           ELSE IF s.low \in DOMAIN s.candidates THEN Report(s.candidates[s.low]) ELSE Fail

\* A mutant of Without: only the upper end is brought back.
WithoutClamp(s, mid, tested) ==
    LET left == SubSeq(s.candidates, 1, mid - 1)
                  \o SubSeq(s.candidates, mid + 1, Len(s.candidates))
    IN  [s EXCEPT !.candidates = left,
                  !.skipped = (@ \cup {tested}) \cap Listed(left),
                  !.high = IF @ > Len(left) THEN Len(left) ELSE @]

\* Exit 125: the candidate at the midpoint is dropped, the others move up, and the range
\* is brought back inside what is left.
Without(s, mid, tested) ==
    LET left == SubSeq(s.candidates, 1, mid - 1)
                  \o SubSeq(s.candidates, mid + 1, Len(s.candidates))
        low  == IF s.low > Len(left) THEN Len(left) ELSE s.low
        high == IF s.high > Len(left) THEN Len(left) ELSE s.high
    IN  [s EXCEPT !.candidates = left,
                  !.skipped = (@ \cup {tested}) \cap Listed(left),
                  !.low  = IF low > high THEN 1 ELSE low,
                  !.high = IF low > high THEN Len(left) ELSE high]

Skipped ==
    /\ run.candidate \in untestable
    /\ IF run.mid \in DOMAIN search.candidates /\ Len(search.candidates) > 1
       THEN Save(Without(search, run.mid, run.candidate))
       ELSE Fail

\* The script returns: the lock is taken again, the file reloaded, and the verdict applied
\* at the midpoint computed before the script.
ScriptEnds ==
    /\ run.phase = "script"
    /\ IF Resetting \/ search = NoSearch
       THEN Fail
       ELSE TestedGood \/ TestedBad \/ Skipped
    /\ UNCHANGED truth

\* A run is killed, or its script cannot be started or returns another exit code.
StopRun ==
    /\ run.phase # "none"
    /\ Fail
    /\ UNCHANGED truth

\* A reset is killed between its two writes: nothing on disk tells where HEAD was, and
\* where it is counts as the user's checkout from now on.
StopReset ==
    /\ Resetting
    /\ undo' = {}
    /\ home' = head
    /\ UNCHANGED <<broken, untestable, head, search, run, report>>

-----------------------------------------------------------------------------
\* A bug, once in, stays in every later state.
Init ==
    /\ broken \in {B \in SUBSET State :
                     \A s, t \in State : s \in B /\ s \in Ancestors[t] => t \in B}
    /\ untestable \in SUBSET Flaky
    /\ home \in Homes
    /\ head = home
    /\ search = NoSearch
    /\ run = NoRun
    /\ undo = {}
    /\ report = NoState

Next ==
    \/ \E good, bad \in State : Start(good, bad)
    \/ \E s \in State : Mark(s)
    \/ \E h \in Homes : Checkout(h)
    \/ Reset \/ FinishReset
    \/ BeginRun \/ Test \/ ScriptEnds
    \/ StopRun \/ StopReset

Spec == Init /\ [][Next]_vars

\* The loop of a run does not wait, and its script is taken to return.
FairSpec == Spec /\ WF_vars(Test) /\ WF_vars(ScriptEnds)

-----------------------------------------------------------------------------
(* Properties. *)

(***************************************************************************)
(* The range is inside the list, so no index panics; what was dropped from *)
(* the list cannot be tested; what lies below the range is good; and the   *)
(* upper end is bad unless every bad candidate was dropped, so that the    *)
(* first one left is never outside the range (bisect.rs, the arithmetic of *)
(* low, high and the skips).                                               *)
(***************************************************************************)
SearchSound ==
    search # NoSearch =>
        LET listed == Listed(search.candidates)
        IN  /\ 1 <= search.low /\ search.low <= search.high
            /\ search.high <= Len(search.candidates)
            /\ listed \subseteq Between(search.good, search.bad)
            /\ Between(search.good, search.bad) \ listed \subseteq untestable
            /\ \A i \in 1 .. search.low - 1 : search.candidates[i] \notin broken
            /\ listed \cap broken # {} => search.candidates[search.high] \in broken

\* What bisect run reports is bad, and every state between the last good one and it that
\* can be tested is good: it is the first bad state, whatever the skips and interruptions.
IsFirstBad(s, good) ==
    /\ s \in broken
    /\ Between(good, s) \cap broken \subseteq {s} \cup untestable
ReportCorrect ==
    [][report' \notin {report, NoState} => IsFirstBad(report', search.good)]_vars

\* HEAD is where the bisect found it, or the file, or the reset under way, knows the way
\* back, even when HEAD is moved meanwhile (original_head and original_branch).  (A
\* reset that is killed before it writes HEAD loses it: see StopReset.)
WayBack ==
    \/ search # NoSearch /\ search.origin = home
    \/ undo = {home}
    \/ head = home

\* Every run ends: the loop never tests for ever without narrowing the range or the list.
SearchEnds == run.phase # "none" ~> run.phase = "none"
=============================================================================
