----------------------------- MODULE TextMerge -----------------------------
(***************************************************************************)
(* Line-oriented diff and merge (diff/text_diff.rs, merge/mod.rs).  A text *)
(* is a sequence of lines; numbers in an edit count from 0, as in the code.*)
(***************************************************************************)
EXTENDS Naturals, FiniteSets, Sequences, SequencesExt

(***************************************************************************)
(* The crate "similar" aligns two texts by a shortest edit script, which   *)
(* is a longest common subsequence; which one is its business.             *)
(***************************************************************************)
Alignments(a, b) ==
    LET equal  == {p \in (DOMAIN a) \X (DOMAIN b) : a[p[1]] = b[p[2]]}
        Chain(c) == \A p, q \in c : (p[1] < q[1] /\ p[2] < q[2]) \/ p = q
                                    \/ (p[1] > q[1] /\ p[2] > q[2])
        chains == {c \in SUBSET equal : Chain(c)}
    IN  {c \in chains : \A d \in chains : Cardinality(d) <= Cardinality(c)}

\* The members of S with each before those that it precedes.
InOrder(S, precedes) ==
    [n \in 1 .. Cardinality(S) |->
        CHOOSE x \in S : Cardinality({y \in S : <<y, x>> \in precedes}) = n - 1]

\* A deleted line has its number in the old text, an inserted one in the new.
DeleteLine(i, gap) == [op |-> "delete", line |-> i - 1, text |-> {}, gap |-> gap]
InsertLine(j, gap, content) ==
    [op |-> "insert", line |-> j - 1, text |-> {content}, gap |-> gap]

\* Between two common lines the deletions come first.
DiffText(a, b, aligned) ==
    LET deleted  == {DeleteLine(i, Cardinality({p \in aligned : p[1] < i})) :
                        i \in DOMAIN a \ {p[1] : p \in aligned}}
        inserted == {InsertLine(j, Cardinality({p \in aligned : p[2] < j}), b[j]) :
                        j \in DOMAIN b \ {p[2] : p \in aligned}}
        edits    == deleted \cup inserted
        Before(e, f) == \/ e.gap < f.gap
                        \/ e.gap = f.gap /\ e.op = "delete" /\ f.op = "insert"
                        \/ e.gap = f.gap /\ e.op = f.op /\ e.line < f.line
    IN  InOrder(edits, {p \in edits \X edits : Before(p[1], p[2])})

LinesOf(edits) == {e.line : e \in ToSet(edits)}

ApplyLine(lines, e) ==
    CASE e.op = "delete" /\ e.line < Len(lines) -> RemoveAt(lines, e.line + 1)
      [] e.op = "insert" ->
            InsertAt(lines, 1 + (IF e.line < Len(lines) THEN e.line ELSE Len(lines)),
                     CHOOSE t \in e.text : TRUE)
      [] OTHER -> lines

\* The text after each of the edits, taken in the order given of their places.
AfterEdits(base, edits, order) ==
    LET after[n \in 0 .. Len(edits)] ==
            IF n = 0 THEN base ELSE ApplyLine(after[n - 1], edits[order[n]])
    IN  after

\* The places of the edits from the highest line number down, those of one line as
\* they come.
ByLine(edits) ==
    LET Before(i, j) == \/ edits[i].line > edits[j].line
                        \/ edits[i].line = edits[j].line /\ i < j
    IN  InOrder(DOMAIN edits, {p \in (DOMAIN edits) \X (DOMAIN edits) : Before(p[1], p[2])})

\* Mutant: the edits go from the lowest line number up.
ApplyEditsUpward(base, left, right) ==
    LET all == left \o right IN AfterEdits(base, all, Reverse(ByLine(all)))[Len(all)]

\* Both sides' edits from the highest line number down, ours before theirs.
ApplyDisjointEdits(base, left, right) ==
    LET all == left \o right IN AfterEdits(base, all, ByLine(all))[Len(all)]

\* The outcomes of merge_text: a set with the merged text, or {} for a conflict.
MergeText(base, left, right, leftAligned, rightAligned) ==
    LET ours   == DiffText(base, left, leftAligned)
        theirs == DiffText(base, right, rightAligned)
    IN  IF left = right \/ right = base THEN {left}
        ELSE IF left = base THEN {right}
        ELSE IF LinesOf(ours) \cap LinesOf(theirs) # {} THEN {}
        ELSE {ApplyDisjointEdits(base, ours, theirs)}
=============================================================================
