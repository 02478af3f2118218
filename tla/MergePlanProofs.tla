-------------------------- MODULE MergePlanProofs --------------------------
(***************************************************************************)
(* Proofs about MergePlan: a plan is made of files that can be held, a     *)
(* plan without conflicts loses no content, and the lines that two sides   *)
(* changed are merged, for any number of paths, any renames, texts of any  *)
(* length and whatever order the paths are visited in.                     *)
(***************************************************************************)
EXTENDS MergePlan, HistoryProofs, FiniteSetTheorems, SequenceTheorems

-----------------------------------------------------------------------------
(* Files.                                                                  *)

\* The kind of a file and what it holds, without its mode.
Content(f) == <<f.kind, f.lines, f.nodes, f.root>>

\* Contents are equal when all but the modes are.
LEMMA SemanticEqIs ==
    ASSUME NEW f, IsFile(f), NEW g, IsFile(g)
    PROVE  /\ SemanticEq(f, g) <=> Content(f) = Content(g)
           /\ SemanticEq(f, g) => f.kind = g.kind
<1>1. /\ f = [kind |-> f.kind, mode |-> f.mode, lines |-> f.lines, nodes |-> f.nodes, root |-> f.root]
      /\ g = [kind |-> g.kind, mode |-> g.mode, lines |-> g.lines, nodes |-> g.nodes, root |-> g.root]
  BY DEF IsFile, File
<1> DEFINE h == [f EXCEPT !.mode = g.mode]
<1>2. h = [kind |-> f.kind, mode |-> g.mode, lines |-> f.lines, nodes |-> f.nodes, root |-> f.root]
  BY <1>1
<1>3. SemanticEq(f, g) <=> h = g
  BY DEF SemanticEq
<1>4. ASSUME h = g PROVE Content(f) = Content(g)
  <2>1. h.kind = f.kind /\ h.lines = f.lines /\ h.nodes = f.nodes /\ h.root = f.root
    BY <1>2
  <2> QED
    BY <1>4, <2>1 DEF Content
<1>5. ASSUME Content(f) = Content(g) PROVE h = g /\ f.kind = g.kind
  <2>1. f.kind = g.kind /\ f.lines = g.lines /\ f.nodes = g.nodes /\ f.root = g.root
    BY <1>5 DEF Content
  <2> QED
    BY <1>1, <1>2, <2>1, Zenon
<1> QED
  BY <1>3, <1>4, <1>5

\* A file with another mode, no symlink before and none after, is a file.
LEMMA ModeChanged ==
    ASSUME NEW f, IsFile(f), NEW m, m = "symlink" <=> f.kind = "symlink"
    PROVE  /\ IsFile([f EXCEPT !.mode = m])
           /\ Content([f EXCEPT !.mode = m]) = Content(f)
           /\ [f EXCEPT !.mode = m].kind = f.kind
           /\ [f EXCEPT !.mode = m].mode = m
<1>1. f = [kind |-> f.kind, mode |-> f.mode, lines |-> f.lines, nodes |-> f.nodes, root |-> f.root]
  BY DEF IsFile, File
<1> DEFINE h == [f EXCEPT !.mode = m]
<1>2. h = [kind |-> f.kind, mode |-> m, lines |-> f.lines, nodes |-> f.nodes, root |-> f.root]
  BY <1>1
<1>3. h.kind = f.kind /\ h.mode = m /\ h.lines = f.lines /\ h.nodes = f.nodes /\ h.root = f.root
  BY <1>2
<1> HIDE DEF h
<1>4. IsFile(h)
  BY <1>2, <1>3 DEF IsFile, File
<1>5. Content(h) = Content(f)
  BY <1>3 DEF Content
<1> QED
  BY <1>3, <1>4, <1>5 DEF h

LEMMA NoFileIsFile == IsFile(NoFile) /\ NoFile.kind = "none" /\ NoFile.mode = "regular"
BY DEF NoFile, IsFile, File

LEMMA MadeFiles ==
    ASSUME NEW lines, NEW nodes, NEW root
    PROVE  /\ IsFile(Text(lines)) /\ IsFile(Ast(nodes, root))
           /\ Text(lines).kind = "text" /\ Ast(nodes, root).kind = "ast"
BY DEF Text, Ast, IsFile, File

-----------------------------------------------------------------------------
(* Outcomes.                                                               *)

IsOutcome(o) ==
    \/ o = Conflict \/ o = Drop
    \/ o.what = "keep" /\ o = Keep(o.file) /\ IsFile(o.file)

LEMMA KeepIs ==
    ASSUME NEW f
    PROVE  Keep(f).what = "keep" /\ Keep(f).file = f /\ Keep(f) # Conflict /\ Keep(f) # Drop
<1>1. Keep(f).what = "keep" /\ Keep(f).file = f
  BY DEF Keep
<1>2. Conflict.what = "conflict" /\ Drop.what = "remove"
  BY DEF Conflict, Drop
<1> QED
  BY <1>1, <1>2

LEMMA KeptIs ==
    ASSUME NEW f, IsFile(f), NEW o, o = Keep(f)
    PROVE  IsOutcome(o) /\ o.what = "keep" /\ o.file = f
<1>1. o.what = "keep" /\ o.file = f
  BY KeepIs
<1>2. o = Keep(o.file) /\ IsFile(o.file)
  BY <1>1, Zenon
<1> QED
  BY <1>1, <1>2 DEF IsOutcome

LEMMA MoreThanOneKind ==
    ASSUME NEW x, NEW y, NEW z, ~(Cardinality({x, y, z}) > 1)
    PROVE  x = y /\ y = z
<1>1. IsFiniteSet({x, y, z}) /\ Cardinality({x, y, z}) \in Nat
  <2>1. IsFiniteSet({x}) /\ IsFiniteSet({x} \cup {y}) /\ IsFiniteSet(({x} \cup {y}) \cup {z})
    BY FS_Singleton, FS_AddElement
  <2>2. ({x} \cup {y}) \cup {z} = {x, y, z}
    OBVIOUS
  <2> QED
    BY <2>1, <2>2, FS_CardinalityType
<1>2. ASSUME NEW u \in {x, y, z}, NEW v \in {x, y, z} PROVE u = v
  <2> SUFFICES ASSUME u # v PROVE FALSE
    OBVIOUS
  <2>1. IsFiniteSet({u}) /\ Cardinality({u}) = 1
    BY FS_Singleton
  <2>2. Cardinality({u} \cup {v}) = 2
    BY <2>1, FS_AddElement
  <2>3. Cardinality({u} \cup {v}) <= Cardinality({x, y, z})
    <3>1. {u} \cup {v} \subseteq {x, y, z}
      OBVIOUS
    <3> QED
      BY <1>1, <3>1, FS_Subset
  <2> QED
    BY <1>1, <2>2, <2>3
<1> QED
  BY <1>2

\* One side wins when the contents of two of the three are equal.
LEMMA OneSideIs ==
    ASSUME NEW b, NEW l, NEW r, IsFile(b), IsFile(l), IsFile(r), NEW o \in OneSide(b, l, r)
    PROVE  \/ o = Keep(l) /\ (Content(l) = Content(r) \/ Content(b) = Content(r))
           \/ o = Keep(r) /\ Content(b) = Content(l)
BY SemanticEqIs DEF OneSide

LEMMA MergeFilesIs ==
    ASSUME NEW b, NEW l, NEW r, IsFile(b), IsFile(l), IsFile(r), NEW o \in MergeFiles(b, l, r)
    PROVE  \/ o = Conflict
           \/ /\ b.kind = l.kind /\ l.kind = r.kind
              /\ o.what = "keep" /\ o = Keep(o.file) /\ IsFile(o.file) /\ o.file.kind = l.kind
              /\ l.kind \notin {"ast", "text"} => o \in OneSide(b, l, r)
<1> SUFFICES ASSUME o # Conflict
             PROVE  /\ b.kind = l.kind /\ l.kind = r.kind
                    /\ o.what = "keep" /\ o = Keep(o.file) /\ IsFile(o.file) /\ o.file.kind = l.kind
                    /\ l.kind \notin {"ast", "text"} => o \in OneSide(b, l, r)
  OBVIOUS
<1>1. b.kind = l.kind /\ l.kind = r.kind
  <2>1. ~(Cardinality({b.kind, l.kind, r.kind}) > 1)
    BY DEF MergeFiles
  <2> QED
    BY <2>1, MoreThanOneKind
<1>2. o \in IF b.kind = "ast" THEN MergeAst(b, l, r)
            ELSE IF b.kind = "text" THEN MergeLines(b, l, r) ELSE MergeOpaque(b, l, r)
  <2>1. ~(Cardinality({b.kind, l.kind, r.kind}) > 1)
    BY DEF MergeFiles
  <2>2. o \in (CASE b.kind = "ast"  -> MergeAst(b, l, r)
                 [] b.kind = "text" -> MergeLines(b, l, r)
                 [] OTHER           -> MergeOpaque(b, l, r))
    BY <2>1 DEF MergeFiles
  <2> QED
    BY <2>2
<1>3. CASE o \in OneSide(b, l, r)
  <2>1. \E f \in {l, r} : o = Keep(f)
    BY OneSideIs, <1>3
  <2> QED
    BY <1>1, <1>3, <2>1, KeepIs
<1>4. CASE o \notin OneSide(b, l, r)
  <2>1. CASE b.kind = "ast"
    <3>1. PICK run : o = IF run.ok THEN Keep(Ast(run.g.nodes, run.g.root)) ELSE Conflict
      BY <1>2, <1>4, <2>1 DEF MergeAst
    <3>2. o = Keep(Ast(run.g.nodes, run.g.root))
      BY <3>1
    <3> QED
      BY <1>1, <2>1, <3>2, KeepIs, MadeFiles
  <2>2. CASE b.kind = "text"
    <3>1. \E t : o = Keep(Text(t))
      BY <1>2, <1>4, <2>2 DEF MergeLines
    <3> QED
      BY <1>1, <2>2, <3>1, KeepIs, MadeFiles
  <2>3. CASE b.kind \notin {"ast", "text"}
    BY <1>2, <1>4, <2>3 DEF MergeOpaque
  <2> QED
    BY <2>1, <2>2, <2>3
<1> QED
  BY <1>3, <1>4

\* merge_path without its cases: what a side's file becomes.
LEMMA MergePathIs ==
    ASSUME NEW b, NEW l, NEW r, IsFile(b), IsFile(l), IsFile(r), NEW o \in MergePath(b, l, r)
    PROVE  /\ l = NoFile /\ r = NoFile => o = Drop
           /\ l = NoFile /\ r # NoFile =>
                 o = IF b # NoFile /\ SemanticEq(b, r) THEN Drop ELSE Keep(r)
           /\ l # NoFile /\ r = NoFile =>
                 o = IF b # NoFile /\ SemanticEq(b, l) THEN Drop ELSE Keep(l)
           /\ l # NoFile /\ r # NoFile /\ b # NoFile => o \in MergeFiles(b, l, r)
           /\ l # NoFile /\ r # NoFile /\ b = NoFile =>
                 o = IF SemanticEq(l, r) THEN Keep(l) ELSE Conflict
<1> DEFINE one == IF l # NoFile THEN l ELSE r
<1>1. o \in (CASE l = NoFile /\ r = NoFile -> {Drop}
               [] l # NoFile /\ r # NoFile ->
                     IF b # NoFile THEN MergeFiles(b, l, r)
                     ELSE IF SemanticEq(l, r) THEN {Keep(l)} ELSE {Conflict}
               [] OTHER -> IF b # NoFile /\ SemanticEq(b, one) THEN {Drop} ELSE {Keep(one)})
  BY DEF MergePath
<1>2. o \in IF l = NoFile /\ r = NoFile THEN {Drop}
            ELSE IF l # NoFile /\ r # NoFile
            THEN IF b # NoFile THEN MergeFiles(b, l, r)
                 ELSE IF SemanticEq(l, r) THEN {Keep(l)} ELSE {Conflict}
            ELSE IF b # NoFile /\ SemanticEq(b, one) THEN {Drop} ELSE {Keep(one)}
  BY <1>1
<1>3. CASE l = NoFile
  BY <1>2, <1>3
<1>4. CASE l # NoFile
  BY <1>2, <1>4
<1> QED
  BY <1>3, <1>4

\* What merge_path decides is an outcome; a file kept is one of those that are
\* there, or has the kind of both.
LEMMA MergePathOutcome ==
    ASSUME NEW b, NEW l, NEW r, IsFile(b), IsFile(l), IsFile(r), NEW o \in MergePath(b, l, r)
    PROVE  /\ IsOutcome(o)
           /\ o.what = "keep" =>
                 \/ l = NoFile /\ o.file = r
                 \/ r = NoFile /\ o.file = l
                 \/ l # NoFile /\ r # NoFile /\ o.file.kind = l.kind
<1>1. Drop.what # "keep" /\ Conflict.what # "keep"
  BY DEF Drop, Conflict
<1>2. CASE l = NoFile \/ r = NoFile
  <2>1. \/ o = Drop
        \/ l = NoFile /\ o = Keep(r)
        \/ r = NoFile /\ o = Keep(l)
    BY <1>2, MergePathIs
  <2>2. CASE o = Drop
    BY <1>1, <2>2 DEF IsOutcome
  <2>3. CASE l = NoFile /\ o = Keep(r)
    BY <2>3, KeptIs
  <2>4. CASE r = NoFile /\ o = Keep(l)
    BY <2>4, KeptIs
  <2> QED
    BY <2>1, <2>2, <2>3, <2>4
<1>3. CASE l # NoFile /\ r # NoFile /\ b = NoFile
  <2>1. o = Conflict \/ o = Keep(l)
    BY <1>3, MergePathIs
  <2>2. CASE o = Conflict
    BY <1>1, <2>2 DEF IsOutcome
  <2>3. CASE o = Keep(l)
    BY <1>3, <2>3, KeptIs
  <2> QED
    BY <2>1, <2>2, <2>3
<1>4. CASE l # NoFile /\ r # NoFile /\ b # NoFile
  <2>1. o \in MergeFiles(b, l, r)
    BY <1>4, MergePathIs
  <2>2. \/ o = Conflict
        \/ o.what = "keep" /\ o = Keep(o.file) /\ IsFile(o.file) /\ o.file.kind = l.kind
    BY <2>1, MergeFilesIs
  <2> QED
    BY <1>1, <1>4, <2>2 DEF IsOutcome
<1> QED
  BY <1>2, <1>3, <1>4

\* The mode of a merge is that of one side that is there.
LEMMA MergeModesIs ==
    ASSUME NEW b, NEW l, NEW r, NEW m \in MergeModes(b, l, r)
    PROVE  /\ l = NoFile => m = r.mode
           /\ r = NoFile /\ l # NoFile => m = l.mode
           /\ m \in {l.mode, r.mode}
<1>1. m \in (CASE l = NoFile -> {r.mode}
               [] r = NoFile -> {l.mode}
               [] l.mode = r.mode -> {l.mode}
               [] OTHER -> IF b = NoFile \/ (b.mode # l.mode /\ b.mode # r.mode) THEN {}
                           ELSE {IF b.mode = l.mode THEN r.mode ELSE l.mode})
  BY DEF MergeModes
<1>2. NoFile.mode = "regular"
  BY NoFileIsFile
<1>3. CASE l = NoFile /\ r = NoFile
  BY <1>1, <1>3
<1>4. CASE l = NoFile /\ r # NoFile
  <2> DEFINE M == IF r.mode = l.mode THEN {r.mode} ELSE {}
  <2>1. \/ l.mode # r.mode /\ m = r.mode
        \/ l.mode = r.mode /\ m \in {r.mode, l.mode}
    BY <1>1, <1>4
  <2> QED
    BY <1>4, <2>1
<1>5. CASE l # NoFile /\ r = NoFile
  BY <1>1, <1>5
<1>6. CASE l # NoFile /\ r # NoFile
  BY <1>1, <1>6
<1> QED
  BY <1>3, <1>4, <1>5, <1>6

\* merge_tracked_path gives an outcome, with the content that merge_path decided.
LEMMA MergeTrackedIs ==
    ASSUME NEW b, NEW l, NEW r, IsFile(b), IsFile(l), IsFile(r),
           NEW o \in MergeTrackedPath(b, l, r), o # Conflict
    PROVE  /\ IsOutcome(o)
           /\ \E c \in MergePath(b, l, r) :
                 \/ o = c /\ c.what # "keep"
                 \/ o.what = "keep" /\ c.what = "keep" /\ Content(o.file) = Content(c.file)
<1>1. (l.mode = "symlink") = (r.mode = "symlink")
  BY DEF MergeTrackedPath
<1>2. PICK c \in MergePath(b, l, r) :
          o \in IF c.what # "keep" THEN {c}
                ELSE IF MergeModes(b, l, r) = {} THEN {Conflict}
                ELSE {Keep([c.file EXCEPT !.mode = m]) : m \in MergeModes(b, l, r)}
  BY <1>1 DEF MergeTrackedPath
<1>3. CASE c.what # "keep"
  <2>1. o = c
    BY <1>2, <1>3
  <2> QED
    BY <1>3, <2>1, MergePathOutcome
<1>4. CASE c.what = "keep"
  <2>1. PICK m \in MergeModes(b, l, r) : o = Keep([c.file EXCEPT !.mode = m])
    BY <1>2, <1>4
  <2>2. IsFile(c.file)
    BY <1>4, MergePathOutcome DEF IsOutcome, Conflict, Drop
  <2>3. m = "symlink" <=> c.file.kind = "symlink"
    <3>1. /\ l.mode = "symlink" <=> l.kind = "symlink"
          /\ r.mode = "symlink" <=> r.kind = "symlink"
      BY DEF IsFile
    <3>2. \/ l = NoFile /\ c.file = r /\ m = r.mode
          \/ r = NoFile /\ c.file = l /\ m \in {l.mode, r.mode}
          \/ c.file.kind = l.kind /\ m \in {l.mode, r.mode}
      BY <1>4, MergePathOutcome, MergeModesIs
    <3> QED
      BY <1>1, <3>1, <3>2
  <2> DEFINE h == [c.file EXCEPT !.mode = m]
  <2>4. IsFile(h) /\ Content(h) = Content(c.file)
    BY <2>2, <2>3, ModeChanged
  <2>5. o = Keep(h)
    BY <2>1
  <2> HIDE DEF h
  <2>6. o.what = "keep" /\ o.file = h
    BY <2>5, KeepIs
  <2> QED
    BY <1>4, <2>4, <2>5, <2>6 DEF IsOutcome
<1> QED
  BY <1>3, <1>4

\* A binary content that the base does not hold is kept, or there is a conflict;
\* kept beside a file of the other side, the base was a binary too.
LEMMA NewContentKept ==
    ASSUME NEW b, NEW l, NEW r, IsFile(b), IsFile(l), IsFile(r),
           NEW f \in {l, r}, f.kind = "binary", ~SemanticEq(b, f),
           NEW o \in MergeTrackedPath(b, l, r), o # Conflict
    PROVE  /\ o.what = "keep" /\ IsFile(o.file) /\ Content(o.file) = Content(f)
           /\ b # NoFile /\ l # NoFile /\ r # NoFile => b.kind = "binary"
<1>1. IsFile(f) /\ f # NoFile
  BY NoFileIsFile
<1>2. Content(b) # Content(f)
  BY <1>1, SemanticEqIs
<1>3. PICK c \in MergePath(b, l, r) :
         \/ o = c /\ c.what # "keep"
         \/ o.what = "keep" /\ c.what = "keep" /\ Content(o.file) = Content(c.file)
  BY MergeTrackedIs
<1>4. c # Conflict
  BY <1>3 DEF Conflict
<1>5. /\ c.what = "keep" /\ Content(c.file) = Content(f)
      /\ b # NoFile /\ l # NoFile /\ r # NoFile => b.kind = "binary"
  <2>1. CASE l = NoFile
    <3>1. f = r /\ r # NoFile /\ ~SemanticEq(b, r)
      BY <1>1, <2>1, Zenon
    <3>2. c = Keep(r)
      BY <2>1, <3>1, MergePathIs
    <3> QED
      BY <2>1, <3>1, <3>2, KeepIs
  <2>2. CASE l # NoFile /\ r = NoFile
    <3>1. f = l /\ ~SemanticEq(b, l)
      BY <1>1, <2>2, Zenon
    <3>2. c = Keep(l)
      BY <2>2, <3>1, MergePathIs
    <3> QED
      BY <2>2, <3>1, <3>2, KeepIs
  <2>3. CASE l # NoFile /\ r # NoFile /\ b = NoFile
    <3>1. SemanticEq(l, r) /\ c = Keep(l)
      BY <1>4, <2>3, MergePathIs
    <3>2. Content(l) = Content(r)
      BY <3>1, SemanticEqIs
    <3>3. Content(f) = Content(l)
      BY <3>2
    <3> QED
      BY <2>3, <3>1, <3>3, KeepIs
  <2>4. CASE l # NoFile /\ r # NoFile /\ b # NoFile
    <3>1. c \in MergeFiles(b, l, r)
      BY <2>4, MergePathIs
    <3>2. /\ b.kind = l.kind /\ l.kind = r.kind /\ c.what = "keep"
          /\ l.kind \notin {"ast", "text"} => c \in OneSide(b, l, r)
      BY <1>4, <3>1, MergeFilesIs
    <3>3. l.kind = "binary" /\ c \in OneSide(b, l, r)
      BY <3>2
    <3>4. \/ c = Keep(l) /\ (Content(l) = Content(r) \/ Content(b) = Content(r))
          \/ c = Keep(r) /\ Content(b) = Content(l)
      BY <3>3, OneSideIs
    <3>5. CASE c = Keep(l) /\ (Content(l) = Content(r) \/ Content(b) = Content(r))
      <4>1. c.file = l
        BY <3>5, KeepIs
      <4>2. f = l \/ Content(l) = Content(f)
        BY <1>2, <3>5
      <4> QED
        BY <3>2, <3>3, <4>1, <4>2
    <3>6. CASE c = Keep(r) /\ Content(b) = Content(l)
      <4>1. c.file = r /\ f = r
        BY <1>2, <3>6, KeepIs
      <4> QED
        BY <3>2, <3>3, <4>1
    <3> QED
      BY <3>4, <3>5, <3>6
  <2> QED
    BY <2>1, <2>2, <2>3, <2>4
<1>6. o.what = "keep" /\ Content(o.file) = Content(f)
  BY <1>3, <1>5
<1>7. IsFile(o.file)
  <2>1. IsOutcome(o)
    BY MergeTrackedIs
  <2> QED
    BY <1>6, <2>1 DEF IsOutcome, Conflict, Drop
<1> QED
  BY <1>5, <1>6, <1>7

\* A file that one side deleted and the other left alone is dropped, or conflicts.
LEMMA DeletionKept ==
    ASSUME NEW b, NEW l, NEW r, IsFile(b), b # NoFile,
           (l = NoFile /\ r = b) \/ (l = b /\ r = NoFile),
           NEW o \in MergeTrackedPath(b, l, r)
    PROVE  o = Conflict \/ o = Drop
<1> SUFFICES ASSUME o # Conflict PROVE o = Drop
  OBVIOUS
<1>1. IsFile(l) /\ IsFile(r)
  BY NoFileIsFile
<1>2. PICK c \in MergePath(b, l, r) :
         \/ o = c /\ c.what # "keep"
         \/ o.what = "keep" /\ c.what = "keep" /\ Content(o.file) = Content(c.file)
  BY <1>1, MergeTrackedIs
<1>3. SemanticEq(b, b)
  BY SemanticEqIs
<1>4. c = Drop
  BY <1>1, <1>3, MergePathIs
<1> QED
  BY <1>2, <1>4 DEF Drop

-----------------------------------------------------------------------------
(* Renames.                                                                *)

\* A tree of files.
IsTree(tree) == \A p \in Path : IsFile(tree[p])

\* Removed paths each have an added path of their own, with the same content or
\* with another syntax tree.
RenameMap(old, new, map) ==
    /\ DOMAIN map \subseteq Held(old) \ Held(new)
    /\ \A p \in DOMAIN map :
          /\ map[p] \in Held(new) \ Held(old)
          /\ \/ SemanticEq(old[p], new[map[p]])
             \/ old[p].kind = "ast" /\ new[map[p]].kind = "ast"
    /\ \A p, q \in DOMAIN map : map[p] = map[q] => p = q

Maps(old, new) ==
    {map \in UNION {[S -> Path] : S \in SUBSET Path} : RenameMap(old, new, map)}

LEMMA LeastIs ==
    ASSUME NEW T \in SUBSET Nat, T # {}
    PROVE  Min(T) \in T
<1>1. \E x \in T : \A y \in T : x <= y
  BY LeastNumber
<1> QED
  BY <1>1 DEF Min

LEMMA TargetTaken ==
    ASSUME NEW old, NEW new, NEW up, NEW map \in Maps(old, new), NEW from \in Path
    PROVE  TakeTarget(old, new, up, map, from) \in Maps(old, new)
<1> DEFINE free == FreeTargets(old, new, up, map, from)
           to   == PathOrder[Min(free)]
           next == [p \in DOMAIN map \cup {from} |-> IF p = from THEN to ELSE map[p]]
<1>1. PICK S \in SUBSET Path : map \in [S -> Path]
  BY DEF Maps
<1>2. RenameMap(old, new, map)
  BY DEF Maps
<1>3. CASE from \notin Held(old) \ Held(new) \/ free = {}
  <2>1. TakeTarget(old, new, up, map, from) = map
    BY <1>3 DEF TakeTarget
  <2> QED
    BY <2>1
<1>4. CASE from \in Held(old) \ Held(new) /\ free # {}
  <2>1. TakeTarget(old, new, up, map, from) = next
    BY <1>4 DEF TakeTarget
  <2>2. free \in SUBSET Nat
    <3>1. DOMAIN PathOrder \subseteq Nat
      BY FilesAssumption
    <3> QED
      BY <3>1 DEF FreeTargets
  <2>3. Min(free) \in free
    BY <1>4, <2>2, LeastIs
  <2>4. /\ to \in Held(new) \ Held(old) /\ to \notin Range(map)
        /\ IsRename(old[from], new[to], from, to, up)
    BY <2>3 DEF FreeTargets
  <2> HIDE DEF free, to
  <2>5. /\ DOMAIN next = S \cup {from} /\ next[from] = to
        /\ \A p \in S : p # from => next[p] = map[p]
    BY <1>1
  <2>6. next \in [S \cup {from} -> Path]
    <3>1. to \in Path
      BY <2>4 DEF Held
    <3> QED
      BY <1>1, <3>1
  <2>7. \/ SemanticEq(old[from], new[to])
        \/ old[from].kind = "ast" /\ new[to].kind = "ast"
    BY <2>4 DEF IsRename
  <2> HIDE DEF next
  <2>8. \A p \in S : map[p] # to
    BY <1>1, <2>4 DEF Range
  <2>9. RenameMap(old, new, next)
    <3>1. DOMAIN next \subseteq Held(old) \ Held(new)
      BY <1>1, <1>2, <1>4, <2>5 DEF RenameMap
    <3>2. ASSUME NEW p \in DOMAIN next
          PROVE  /\ next[p] \in Held(new) \ Held(old)
                 /\ \/ SemanticEq(old[p], new[next[p]])
                    \/ old[p].kind = "ast" /\ new[next[p]].kind = "ast"
      <4>1. CASE p = from
        BY <2>4, <2>5, <2>7, <4>1
      <4>2. CASE p # from
        BY <1>1, <1>2, <2>5, <4>2 DEF RenameMap
      <4> QED
        BY <4>1, <4>2
    <3>3. ASSUME NEW p \in DOMAIN next, NEW q \in DOMAIN next, next[p] = next[q] PROVE p = q
      BY <1>1, <1>2, <2>5, <2>8, <3>3 DEF RenameMap
    <3> QED
      BY <3>1, <3>2, <3>3 DEF RenameMap
  <2>10. S \cup {from} \in SUBSET Path
    BY <1>1
  <2> QED
    BY <2>1, <2>6, <2>9, <2>10 DEF Maps
<1> QED
  BY <1>3, <1>4

\* The renames found are such a map.
LEMMA RenamesFound ==
    ASSUME NEW old, NEW new, NEW up
    PROVE  DetectPathRenames(old, new, up) \in Maps(old, new)
<1> DEFINE X == Maps(old, new)
           N == Len(PathOrder)
           step == [n \in 1 .. N |-> [map \in X |-> TakeTarget(old, new, up, map, PathOrder[n])]]
           Map(f) == f = [n \in 0 .. N |-> IF n = 0 THEN NoRenames
                             ELSE TakeTarget(old, new, up, f[n - 1], PathOrder[n])]
           g == CHOOSE f : Map(f)
<1>1. N \in Nat /\ \A n \in 1 .. N : PathOrder[n] \in Path
  BY FilesAssumption
<1>2. NoRenames \in X
  <2>1. NoRenames \in [{} -> Path] /\ DOMAIN NoRenames = {}
    BY DEF NoRenames
  <2>2. RenameMap(old, new, NoRenames)
    BY <2>1 DEF RenameMap
  <2> QED
    BY <2>1, <2>2 DEF Maps
<1>3. step \in [1 .. N -> [X -> X]]
  <2>1. \A n \in 1 .. N : \A map \in X : TakeTarget(old, new, up, map, PathOrder[n]) \in X
    BY <1>1, TargetTaken
  <2> QED
    BY <2>1
<1>4. \A n \in 1 .. N : \A map \in X : step[n][map] = TakeTarget(old, new, up, map, PathOrder[n])
  OBVIOUS
<1>5. DetectPathRenames(old, new, up) = g[N]
  BY DEF DetectPathRenames
<1> HIDE DEF X, N, step
<1>6. PICK f \in [0 .. N -> X] : f[0] = NoRenames /\ \A n \in 1 .. N : f[n] = step[n][f[n - 1]]
  <2>1. N \in Nat
    BY <1>1
  <2> HIDE DEF g
  <2> QED
    BY <1>2, <1>3, <2>1, StepsExist
<1>7. ASSUME NEW n \in 0 .. N
      PROVE  f[n] = IF n = 0 THEN NoRenames
                    ELSE TakeTarget(old, new, up, f[n - 1], PathOrder[n])
  <2>1. CASE n = 0
    BY <1>6, <2>1
  <2>2. CASE n # 0
    <3>1. n \in 1 .. N /\ n - 1 \in 0 .. N
      BY <1>1, <2>2
    <3>2. f[n - 1] \in X
      BY <3>1
    <3> QED
      BY <1>4, <1>6, <2>2, <3>1, <3>2
  <2> QED
    BY <2>1, <2>2
<1>8. Map(f)
  <2>1. f = [n \in 0 .. N |-> f[n]]
    OBVIOUS
  <2> QED
    BY <1>7, <2>1
<1>9. Map(g)
  BY <1>8
<1> HIDE DEF g
<1>10. DOMAIN g = 0 .. N /\ \A n \in 0 .. N : g[n] = IF n = 0 THEN NoRenames
                    ELSE TakeTarget(old, new, up, g[n - 1], PathOrder[n])
  BY <1>9
<1> DEFINE T == {n \in 0 .. N : g[n] \notin X}
<1>11. T = {}
  <2> SUFFICES ASSUME T # {} PROVE FALSE
    OBVIOUS
  <2>1. T \in SUBSET Nat
    OBVIOUS
  <2>2. PICK n \in T : \A k \in T : n <= k
    BY <2>1, LeastNumber
  <2>3. n \in 0 .. N /\ g[n] \notin X
    BY <2>2
  <2>4. n # 0
    BY <1>2, <1>10, <2>3
  <2>5. n \in 1 .. N /\ n - 1 \in 0 .. N /\ n - 1 \notin T
    BY <1>1, <2>2, <2>3, <2>4
  <2>6. g[n - 1] \in X
    BY <2>5
  <2>7. TakeTarget(old, new, up, g[n - 1], PathOrder[n]) \in X
    BY <1>1, <2>5, <2>6, TargetTaken DEF X
  <2> QED
    BY <1>10, <2>3, <2>4, <2>7
<1> QED
  BY <1>1, <1>5, <1>11 DEF X

-----------------------------------------------------------------------------
(* Types.                                                                  *)

PlanTyped ==
    /\ stage \in {"renames", "base", "rest", "resolve", "done"}
    /\ todo \subseteq Path /\ processed \subseteq Path /\ conflicts \subseteq Path
    /\ job \in Jobs
    /\ DOMAIN merged = Path /\ IsTree(merged)
    /\ \A side \in Side : renames[side] \in Maps(job.base, job[side])

LEMMA JobIs ==
    ASSUME NEW j \in Jobs
    PROVE  /\ j.op \in {"merge", "revert"}
           /\ IsTree(j.base) /\ DOMAIN j.base = Path
           /\ \A side \in Side : IsTree(j[side]) /\ DOMAIN j[side] = Path
           /\ j.left = j["left"] /\ j.right = j["right"]
<1>1. j.left = j["left"] /\ j.right = j["right"]
  OBVIOUS
<1> QED
  BY <1>1, FilesAssumption DEF IsTree, Side

\* A map of renames leads to files of that side.
LEMMA TargetsHeld ==
    ASSUME NEW old, NEW new, NEW map \in Maps(old, new)
    PROVE  /\ DOMAIN map \subseteq Path /\ Range(map) \subseteq Held(new)
           /\ RenameMap(old, new, map)
           /\ \A p \in DOMAIN map : map[p] \in Path
<1>1. RenameMap(old, new, map) /\ \E S \in SUBSET Path : map \in [S -> Path]
  BY DEF Maps
<1>2. \A p \in DOMAIN map : map[p] \in Held(new)
  BY <1>1 DEF RenameMap
<1> QED
  BY <1>1, <1>2 DEF Range

\* The empty map is one.
LEMMA NoRenamesIs ==
    ASSUME NEW old, NEW new
    PROVE  NoRenames \in Maps(old, new) /\ DOMAIN NoRenames = {}
<1>1. NoRenames \in [{} -> Path] /\ DOMAIN NoRenames = {}
  BY DEF NoRenames
<1>2. RenameMap(old, new, NoRenames)
  BY <1>1 DEF RenameMap
<1> QED
  BY <1>1, <1>2 DEF Maps

\* Where a side holds a base path, and the file there.
LEMMA SideFile ==
    ASSUME PlanTyped, NEW p \in Path, NEW side \in Side
    PROVE  LET paths == SidePaths(side, p) IN
           /\ Target(side, p) \in Path /\ ResultPath(p) \in Path
           /\ paths \subseteq Path /\ IsFile(FileAt(side, paths))
           /\ Renamed(side, p) => paths = {Target(side, p)}
           /\ p \in Held(job[side]) => paths = {p}
           /\ ~Renamed(side, p) /\ p \notin Held(job[side]) =>
                 paths = Held(job[side]) \cap ({ResultPath(p)} \ Held(job.base))
           /\ \A q : paths = {q} => FileAt(side, paths) = job[side][q]
           /\ paths = {} => FileAt(side, paths) = NoFile
<1> DEFINE paths == SidePaths(side, p)
<1>1. \A s \in Side : /\ DOMAIN renames[s] \subseteq Path
                      /\ RenameMap(job.base, job[s], renames[s])
                      /\ \A q \in DOMAIN renames[s] : renames[s][q] \in Path
  BY TargetsHeld DEF PlanTyped
<1>2. \A s \in Side : Target(s, p) \in Path
  BY <1>1 DEF Target, Renamed
<1>3. ResultPath(p) \in Path
  BY <1>2 DEF ResultPath, Side
<1>4. /\ Renamed(side, p) => paths = {Target(side, p)}
      /\ p \in Held(job[side]) => paths = {p}
      /\ ~Renamed(side, p) /\ p \notin Held(job[side]) =>
            paths = Held(job[side]) \cap ({ResultPath(p)} \ Held(job.base))
  <2>1. Renamed(side, p) => p \notin Held(job[side])
    BY <1>1 DEF Renamed, RenameMap
  <2> QED
    BY <2>1 DEF SidePaths
<1>5. paths = {} \/ \E q \in Path : paths = {q}
  <2>1. CASE Renamed(side, p) \/ p \in Held(job[side])
    BY <1>2, <1>4, <2>1
  <2>2. CASE ~Renamed(side, p) /\ p \notin Held(job[side])
    BY <1>3, <1>4, <2>2
  <2> QED
    BY <2>1, <2>2
<1> HIDE DEF paths
<1>6. \A q : paths = {q} => FileAt(side, paths) = job[side][q]
  BY DEF FileAt
<1>7. paths = {} => FileAt(side, paths) = NoFile
  BY DEF FileAt
<1>8. IsFile(FileAt(side, paths))
  <2>1. \A q \in Path : IsFile(job[side][q])
    BY JobIs DEF PlanTyped, IsTree
  <2>2. CASE paths = {}
    BY <1>7, <2>2, NoFileIsFile
  <2>3. CASE \E q \in Path : paths = {q}
    BY <1>6, <2>1, <2>3
  <2> QED
    BY <1>5, <2>2, <2>3
<1> QED
  BY <1>2, <1>3, <1>4, <1>5, <1>6, <1>7, <1>8 DEF paths

LEMMA TypesFollow == PlanTyped => MergePlanTypeOK
<1> SUFFICES ASSUME PlanTyped PROVE MergePlanTypeOK
  OBVIOUS
<1>1. \A side \in Side : Range(renames[side]) \subseteq Held(job[side])
  BY TargetsHeld DEF PlanTyped
<1>2. ASSUME NEW p \in Path
      PROVE  /\ merged[p].kind \in {"none", "ast", "text", "binary", "symlink"}
             /\ merged[p].mode = "symlink" <=> merged[p].kind = "symlink"
  BY DEF PlanTyped, IsTree, IsFile
<1> QED
  BY <1>1, <1>2 DEF PlanTyped, MergePlanTypeOK

\* What settling a path changes.
LEMMA SettledTypes ==
    ASSUME PlanTyped, NEW p \in Path, NEW o, IsOutcome(o), Settle(p, o)
    PROVE  /\ DOMAIN merged' = Path /\ IsTree(merged') /\ conflicts' \subseteq Path
           /\ conflicts \subseteq conflicts' /\ (o = Conflict => conflicts' # {})
           /\ \A q \in Path \ {p} : merged'[q] = merged[q]
           /\ o.what = "keep" => merged'[p] = o.file
           /\ o.what # "keep" => merged' = merged
<1>1. o.what = "keep" => IsFile(o.file)
  BY DEF IsOutcome, Conflict, Drop
<1>2. Conflict.what = "conflict"
  BY DEF Conflict
<1>3. DOMAIN merged = Path
  BY DEF PlanTyped
<1>4. CASE o.what = "keep"
  <2>1. merged' = [merged EXCEPT ![p] = o.file] /\ conflicts' = conflicts
    BY <1>4 DEF Settle
  <2>2. DOMAIN merged' = Path /\ merged'[p] = o.file
        /\ \A q \in Path \ {p} : merged'[q] = merged[q]
    BY <1>3, <2>1
  <2>3. IsTree(merged')
    <3> SUFFICES ASSUME NEW q \in Path PROVE IsFile(merged'[q])
      BY DEF IsTree
    <3>1. CASE q = p
      BY <1>1, <1>4, <2>2, <3>1
    <3>2. CASE q # p
      BY <2>2, <3>2 DEF PlanTyped, IsTree
    <3> QED
      BY <3>1, <3>2
  <2>4. o # Conflict
    BY <1>2, <1>4
  <2> QED
    BY <1>4, <2>1, <2>2, <2>3, <2>4 DEF PlanTyped
<1>5. CASE o.what # "keep"
  <2>1. merged' = merged
    BY <1>5 DEF Settle
  <2>2. conflicts' = IF o.what = "conflict" THEN conflicts \cup {p} ELSE conflicts
    BY DEF Settle
  <2>3. IsTree(merged') /\ DOMAIN merged' = Path
    BY <2>1 DEF PlanTyped
  <2> QED
    BY <1>2, <1>3, <1>5, <2>1, <2>2, <2>3 DEF PlanTyped
<1> QED
  BY <1>4, <1>5

\* An outcome is settled at a path and nothing else of the plan changes.
LEMMA SettleStep ==
    ASSUME PlanTyped, NEW p \in Path, NEW o, IsOutcome(o), Settle(p, o),
           job' = job, renames' = renames, stage' = stage,
           todo' \subseteq todo, processed' \subseteq Path
    PROVE  PlanTyped'
<1>1. DOMAIN merged' = Path /\ IsTree(merged') /\ conflicts' \subseteq Path
  BY SettledTypes
<1>2. \A side \in Side : renames'[side] \in Maps(job'.base, job'[side])
  BY DEF PlanTyped
<1>3. IsTree(merged)'
  BY <1>1 DEF IsTree
<1> QED
  BY <1>1, <1>2, <1>3 DEF PlanTyped

\* The files that a base path is merged from.
FilesOf(p) == [base |-> job.base[p], left |-> FileAt("left", SidePaths("left", p)),
               right |-> FileAt("right", SidePaths("right", p))]

LEMMA FilesOfAre ==
    ASSUME PlanTyped, NEW p \in Path
    PROVE  /\ IsFile(FilesOf(p).base) /\ IsFile(FilesOf(p).left) /\ IsFile(FilesOf(p).right)
           /\ ResultPath(p) \in Path /\ Target("left", p) \in Path /\ Target("right", p) \in Path
           /\ SidePaths("left", p) \subseteq Path /\ SidePaths("right", p) \subseteq Path
<1>1. "left" \in Side /\ "right" \in Side
  BY DEF Side
<1>2. IsFile(job.base[p])
  BY JobIs DEF PlanTyped, IsTree
<1> QED
  BY <1>1, <1>2, SideFile DEF FilesOf

\* A base path settles one path, in a conflict or with an outcome of its merge.
LEMMA BaseSettles ==
    ASSUME PlanTyped, NEW p \in Path, BasePath(p)
    PROVE  /\ \E x \in Path : \E o : IsOutcome(o) /\ Settle(x, o)
           /\ processed' \subseteq Path
           /\ conflicts' = {} =>
                 /\ ~RenamedApart(p) /\ ~DestinationTaken(p)
                 /\ \E o \in MergeTrackedPath(FilesOf(p).base, FilesOf(p).left, FilesOf(p).right) :
                       o # Conflict /\ IsOutcome(o) /\ Settle(ResultPath(p), o)
<1>1. /\ IsFile(FilesOf(p).base) /\ IsFile(FilesOf(p).left) /\ IsFile(FilesOf(p).right)
      /\ ResultPath(p) \in Path /\ Target("left", p) \in Path /\ Target("right", p) \in Path
      /\ SidePaths("left", p) \subseteq Path /\ SidePaths("right", p) \subseteq Path
  BY FilesOfAre
<1>2. processed \subseteq Path
  BY DEF PlanTyped
<1>3. IsOutcome(Conflict)
  BY DEF IsOutcome
<1>4. CASE RenamedApart(p)
  <2>1. Settle(p, Conflict) /\ processed' = processed \cup {p, Target("left", p), Target("right", p)}
    BY <1>4 DEF BasePath
  <2>2. conflicts' # {}
    BY <1>3, <2>1, SettledTypes
  <2> QED
    BY <1>1, <1>2, <1>3, <2>1, <2>2
<1>5. CASE ~RenamedApart(p) /\ DestinationTaken(p)
  <2>1. /\ Settle(ResultPath(p), Conflict)
        /\ processed' = processed \cup {p, ResultPath(p)} \cup SidePaths("left", p)
                        \cup SidePaths("right", p)
    BY <1>5 DEF BasePath
  <2>2. conflicts' # {}
    BY <1>1, <1>3, <2>1, SettledTypes
  <2> QED
    BY <1>1, <1>2, <1>3, <2>1, <2>2
<1>6. CASE ~RenamedApart(p) /\ ~DestinationTaken(p)
  <2>1. PICK o \in MergeTrackedPath(FilesOf(p).base, FilesOf(p).left, FilesOf(p).right) :
            Settle(ResultPath(p), o)
    BY <1>6 DEF BasePath, FilesOf
  <2>2. processed' = processed \cup {p} \cup SidePaths("left", p) \cup SidePaths("right", p)
    BY <1>6 DEF BasePath
  <2>3. IsOutcome(o)
    <3>1. CASE o = Conflict
      BY <1>3, <3>1
    <3>2. CASE o # Conflict
      BY <1>1, <3>2, MergeTrackedIs
    <3> QED
      BY <3>1, <3>2
  <2>4. conflicts' = {} => o # Conflict
    BY <1>1, <2>1, <2>3, SettledTypes
  <2> QED
    BY <1>1, <1>2, <1>6, <2>1, <2>2, <2>3, <2>4
<1> QED
  BY <1>4, <1>5, <1>6

\* Any other path settles itself; a revert turns some outcomes into others.
LEMMA RestSettles ==
    ASSUME PlanTyped, NEW p \in Path, RestPath(p)
    PROVE  /\ \E o : IsOutcome(o) /\ Settle(p, o)
           /\ conflicts' = {} => \E o \in MergeTrackedPath(job.base[p], job.left[p], job.right[p]) :
                 /\ o # Conflict /\ IsOutcome(o)
                 /\ IF job.op = "revert" /\ o.what = "remove" THEN Settle(p, Keep(NoFile))
                    ELSE Settle(p, o)
<1>1. IsFile(job.base[p]) /\ IsFile(job.left[p]) /\ IsFile(job.right[p])
  BY JobIs DEF PlanTyped, IsTree, Side
<1>2. IsOutcome(Conflict) /\ IsOutcome(Keep(NoFile))
  BY KeptIs, NoFileIsFile DEF IsOutcome
<1>3. PICK o \in MergeTrackedPath(job.base[p], job.left[p], job.right[p]) :
          \/ IF job.op = "revert" /\ o.what = "remove" THEN Settle(p, Keep(NoFile)) ELSE Settle(p, o)
          \/ Settle(p, Conflict)
  BY DEF RestPath
<1>4. IsOutcome(o)
  <2>1. CASE o = Conflict
    BY <1>2, <2>1
  <2>2. CASE o # Conflict
    BY <1>1, <2>2, MergeTrackedIs
  <2> QED
    BY <2>1, <2>2
<1>5. Settle(p, Conflict) => conflicts' # {}
  BY <1>2, SettledTypes
<1>6. o = Conflict => o.what # "remove"
  BY DEF Conflict
<1> QED
  BY <1>2, <1>3, <1>4, <1>5, <1>6

LEMMA InitTyped == Init => PlanTyped
<1> SUFFICES ASSUME Init PROVE PlanTyped
  OBVIOUS
<1>1. job \in Jobs /\ todo = {} /\ processed = {} /\ conflicts = {} /\ stage = "renames"
  BY DEF Init
<1>2. merged = [p \in Path |-> IF job.op = "revert" THEN job.base[p] ELSE NoFile]
  BY DEF Init
<1>3. \A p \in Path : IsFile(job.base[p])
  BY <1>1, JobIs DEF IsTree
<1>4. DOMAIN merged = Path /\ \A p \in Path : merged[p] \in {job.base[p], NoFile}
  BY <1>2
<1>5. IsTree(merged)
  <2> SUFFICES ASSUME NEW p \in Path PROVE IsFile(merged[p])
    BY DEF IsTree
  <2>1. CASE merged[p] = job.base[p]
    BY <1>3, <2>1
  <2>2. CASE merged[p] = NoFile
    BY <2>2, NoFileIsFile
  <2> QED
    BY <1>4, <2>1, <2>2
<1>6. \A side \in Side : renames[side] \in Maps(job.base, job[side])
  BY NoRenamesIs DEF Init
<1> QED
  BY <1>1, <1>4, <1>5, <1>6 DEF PlanTyped

LEMMA FindRenamesTyped ==
    ASSUME PlanTyped, NEW upLeft, NEW upRight, FindRenames(upLeft, upRight)
    PROVE  PlanTyped'
<1>1. /\ renames' = [left  |-> DetectPathRenames(job.base, job.left, upLeft),
                     right |-> DetectPathRenames(job.base, job.right, upRight)]
      /\ stage' = "base" /\ todo' = Held(job.base)
      /\ job' = job /\ processed' = processed /\ merged' = merged /\ conflicts' = conflicts
  BY DEF FindRenames
<1>2. job.left = job["left"] /\ job.right = job["right"]
  OBVIOUS
<1>3. /\ renames'["left"] \in Maps(job.base, job["left"])
      /\ renames'["right"] \in Maps(job.base, job["right"])
  <2>1. /\ renames'["left"] = DetectPathRenames(job.base, job.left, upLeft)
        /\ renames'["right"] = DetectPathRenames(job.base, job.right, upRight)
    BY <1>1
  <2>2. /\ DetectPathRenames(job.base, job.left, upLeft) \in Maps(job.base, job.left)
        /\ DetectPathRenames(job.base, job.right, upRight) \in Maps(job.base, job.right)
    BY RenamesFound
  <2> QED
    BY <1>2, <2>1, <2>2
<1>4. \A side \in Side : renames'[side] \in Maps(job'.base, job'[side])
  BY <1>1, <1>3 DEF Side
<1>5. Held(job.base) \subseteq Path
  BY DEF Held
<1>6. IsTree(merged)'
  BY <1>1 DEF PlanTyped, IsTree
<1> QED
  BY <1>1, <1>4, <1>5, <1>6 DEF PlanTyped

LEMMA ResolveTyped ==
    ASSUME PlanTyped, NEW sides, DOMAIN sides \subseteq conflicts,
           \A p \in DOMAIN sides : sides[p] \in Side, Resolve(sides)
    PROVE  PlanTyped'
<1>1. /\ merged' = [p \in Path |-> IF p \in DOMAIN sides THEN job[sides[p]][p] ELSE merged[p]]
      /\ conflicts' = conflicts \ DOMAIN sides /\ stage' = "done"
      /\ job' = job /\ renames' = renames /\ todo' = todo /\ processed' = processed
  BY DEF Resolve
<1>2. ASSUME NEW p \in Path PROVE IsFile(merged'[p])
  <2>1. CASE p \in DOMAIN sides
    <3>1. IsFile(job[sides[p]][p])
      BY <2>1, JobIs DEF PlanTyped, IsTree
    <3> QED
      BY <1>1, <2>1, <3>1
  <2>2. CASE p \notin DOMAIN sides
    <3>1. IsFile(merged[p])
      BY DEF PlanTyped, IsTree
    <3> QED
      BY <1>1, <2>2, <3>1
  <2> QED
    BY <2>1, <2>2
<1>3. IsTree(merged)'
  BY <1>2 DEF IsTree
<1>4. DOMAIN merged' = Path
  BY <1>1
<1>5. \A side \in Side : renames'[side] \in Maps(job'.base, job'[side])
  BY <1>1 DEF PlanTyped
<1> QED
  BY <1>1, <1>3, <1>4, <1>5 DEF PlanTyped

LEMMA StepTyped == PlanTyped /\ [Next]_vars => PlanTyped'
<1> SUFFICES ASSUME PlanTyped, [Next]_vars PROVE PlanTyped'
  OBVIOUS
<1>1. ASSUME NEW upLeft \in BOOLEAN, NEW upRight \in BOOLEAN, FindRenames(upLeft, upRight)
      PROVE  PlanTyped'
  BY <1>1, FindRenamesTyped
<1>2. ASSUME /\ job' = job /\ renames' = renames /\ merged' = merged
             /\ processed' = processed /\ conflicts' = conflicts
             /\ stage' \in {"renames", "base", "rest", "resolve", "done"} /\ todo' \subseteq Path
      PROVE  PlanTyped'
  <2>1. \A side \in Side : renames'[side] \in Maps(job'.base, job'[side])
    BY <1>2 DEF PlanTyped
  <2>2. IsTree(merged)'
    BY <1>2 DEF PlanTyped, IsTree
  <2> QED
    BY <1>2, <2>1, <2>2 DEF PlanTyped
<1>3. AllPaths \subseteq Path
  BY DEF AllPaths, Held
<1>4. CASE StartRevert
  BY <1>2, <1>3, <1>4 DEF StartRevert, PlanTyped
<1>5. CASE BaseDone
  BY <1>2, <1>3, <1>5 DEF BaseDone, PlanTyped
<1>6. CASE RestDone
  BY <1>2, <1>6 DEF RestDone, PlanTyped
<1>7. ASSUME NEW p \in todo, BasePath(p) PROVE PlanTyped'
  <2>1. p \in Path
    BY DEF PlanTyped
  <2>2. PICK x \in Path : \E o : IsOutcome(o) /\ Settle(x, o)
    BY <1>7, <2>1, BaseSettles
  <2>3. PICK o : IsOutcome(o) /\ Settle(x, o)
    BY <2>2
  <2>4. /\ job' = job /\ renames' = renames /\ stage' = stage
        /\ todo' \subseteq todo /\ processed' \subseteq Path
    BY <1>7, <2>1, BaseSettles DEF BasePath
  <2> QED
    BY <2>3, <2>4, SettleStep
<1>8. ASSUME NEW p \in todo, RestPath(p) PROVE PlanTyped'
  <2>1. p \in Path
    BY DEF PlanTyped
  <2>2. PICK o : IsOutcome(o) /\ Settle(p, o)
    BY <1>8, <2>1, RestSettles
  <2>3. /\ job' = job /\ renames' = renames /\ stage' = stage
        /\ todo' \subseteq todo /\ processed' \subseteq Path
    BY <1>8 DEF RestPath, PlanTyped
  <2> QED
    BY <2>1, <2>2, <2>3, SettleStep
<1>9. ASSUME NEW picked \in SUBSET conflicts, NEW sides \in [picked -> Side], Resolve(sides)
      PROVE  PlanTyped'
  <2>1. DOMAIN sides \subseteq conflicts /\ \A p \in DOMAIN sides : sides[p] \in Side
    OBVIOUS
  <2> QED
    BY <1>9, <2>1, ResolveTyped
<1>10. CASE UNCHANGED vars
  BY <1>2, <1>10 DEF vars, PlanTyped
<1> QED
  BY <1>1, <1>4, <1>5, <1>6, <1>7, <1>8, <1>9, <1>10 DEF Next

\* Every path of a plan holds a file, renames lead to files, and what is yet to
\* visit, or was, or conflicts are paths.
THEOREM PlanTypesHold == PlanSpec => []MergePlanTypeOK
<1>1. Init => PlanTyped
  BY InitTyped
<1>2. PlanTyped /\ [Next]_vars => PlanTyped'
  BY StepTyped
<1>3. PlanTyped => MergePlanTypeOK
  BY TypesFollow
<1> QED
  BY <1>1, <1>2, <1>3, PTL DEF PlanSpec

-----------------------------------------------------------------------------
(* The course of a plan.                                                   *)

\* A base path and where the sides renamed it to.
Targets(p) == {p, Target("left", p), Target("right", p)}
AllTargets == UNION {Targets(p) : p \in Held(job.base)}

Settled(p) == stage = "rest" \/ p \notin todo

\* The paths accounted for are the base paths settled and their new places;
\* the other paths are visited in the second stage only.
PlanCourse ==
    /\ stage = "renames" =>
          /\ processed = {}
          /\ job.op = "merge" => \A p \in Path : merged[p] = NoFile
    /\ stage = "base" => job.op = "merge" /\ todo \subseteq Held(job.base)
    /\ job.op = "revert" => \A side \in Side : DOMAIN renames[side] = {}
    /\ stage \in {"base", "rest"} /\ job.op = "merge" =>
          /\ processed \subseteq AllTargets
          /\ \A p \in Held(job.base) : Settled(p) => Targets(p) \subseteq processed
          /\ stage = "rest" => todo \cap AllTargets = {}

-----------------------------------------------------------------------------
(* What a plan keeps.                                                      *)

\* A content that the base holds nowhere, at a path that shared none in the base.
Fresh(side, p) ==
    /\ job[side][p].kind = "binary"
    /\ \A q \in Path : ~SemanticEq(job.base[q], job[side][p])
    /\ ~(job.base[p] # NoFile /\ \E q \in Path \ {p} : SemanticEq(job.base[q], job.base[p]))

\* One side deleted the path and the other left it alone.
Gone(side, p) ==
    job.base[p] # NoFile /\ job[side][p] = NoFile /\ job[Other(side)][p] = job.base[p]

NoneMeets == ~(\E p \in DOMAIN renames.left : MeetsAdd("left", p))

\* The plan has at x what the side has at p.
Holds(side, p, x) == Content(merged[x]) = Content(job[side][p])

\* A side's content of a base path goes where the other side renamed the path to;
\* if it did, the base held a binary there.
BaseKept ==
    \A side \in Side : \A p \in Held(job.base) :
        Settled(p) /\ Fresh(side, p) =>
            /\ Holds(side, p, Target(Other(side), p))
            /\ Renamed(Other(side), p) => job.base[p].kind = "binary"

\* So does what a side added at the place that the other side renamed a path to.
TargetsKept ==
    \A side \in Side : \A p \in DOMAIN renames[Other(side)] :
        LET x == Target(Other(side), p) IN
        Settled(p) /\ Fresh(side, x) => Holds(side, x, x)

AddedKept ==
    stage = "rest" => \A side \in Side : \A p \in Path \ AllTargets :
        p \notin todo /\ Fresh(side, p) => Holds(side, p, p)

DeletedKept == \A side \in Side : \A p \in Path : Gone(side, p) => merged[p] = NoFile

RevertKept ==
    \A side \in Side : \A p \in Path \ todo :
        /\ Fresh(side, p) => Holds(side, p, p)
        /\ Gone(side, p) => merged[p] = NoFile

PlanKept ==
    stage \in {"base", "rest"} /\ conflicts = {} /\ NoneMeets =>
        /\ job.op = "merge" => BaseKept /\ TargetsKept /\ AddedKept /\ DeletedKept
        /\ job.op = "revert" => RevertKept

LEMMA Sides ==
    /\ \A side \in Side : Other(side) \in Side /\ Other(side) # side /\ Other(Other(side)) = side
    /\ "left" \in Side /\ "right" \in Side /\ Other("left") = "right" /\ Other("right") = "left"
    /\ \A s, t \in Side : s = t \/ s = Other(t)
BY DEF Side, Other

\* Where the sides have a base path.
LEMMA TargetsAre ==
    ASSUME PlanTyped, NEW side \in Side
    PROVE  /\ \A p \in Path : Target(side, p) \in Path
           /\ \A p : ~Renamed(side, p) => Target(side, p) = p
           /\ \A p : Renamed(side, p) =>
                 /\ p \in Held(job.base) /\ p \notin Held(job[side])
                 /\ Target(side, p) \in Held(job[side]) /\ Target(side, p) \notin Held(job.base)
                 /\ \/ SemanticEq(job.base[p], job[side][Target(side, p)])
                    \/ job.base[p].kind = "ast" /\ job[side][Target(side, p)].kind = "ast"
           /\ \A p, q : Renamed(side, p) /\ Renamed(side, q) /\ Target(side, p) = Target(side, q)
                           => p = q
<1>1. /\ DOMAIN renames[side] \subseteq Path
      /\ RenameMap(job.base, job[side], renames[side])
      /\ \A q \in DOMAIN renames[side] : renames[side][q] \in Path
  BY TargetsHeld DEF PlanTyped
<1>2. \A p : Renamed(side, p) <=> p \in DOMAIN renames[side]
  BY DEF Renamed
<1>3. \A p : Target(side, p) = IF Renamed(side, p) THEN renames[side][p] ELSE p
  BY DEF Target
<1> QED
  BY <1>1, <1>2, <1>3 DEF RenameMap

\* Two base paths have a place in common only when each side renamed one of them.
LEMMA TargetsMeet ==
    ASSUME PlanTyped, NEW p \in Held(job.base), NEW q \in Held(job.base), p # q,
           NEW s \in Side, NEW t \in Side, Target(s, p) = Target(t, q)
    PROVE  s = Other(t) /\ Renamed(s, p) /\ Renamed(t, q)
<1>1. Renamed(s, p)
  BY TargetsAre
<1>2. Renamed(t, q)
  BY TargetsAre
<1>3. s # t
  BY <1>1, <1>2, TargetsAre
<1> QED
  BY <1>1, <1>2, <1>3, Sides

LEMMA ResultIs ==
    ASSUME PlanTyped, NEW p
    PROVE  /\ \E side \in Side : ResultPath(p) = Target(side, p)
           /\ ~Renamed("left", p) => ResultPath(p) = Target("right", p)
           /\ Renamed("left", p) => ResultPath(p) = Target("left", p)
           /\ \A side \in Side : ~Renamed(side, p) => ResultPath(p) = Target(Other(side), p)
<1>1. ResultPath(p) = IF Renamed("left", p) THEN Target("left", p) ELSE Target("right", p)
  BY DEF ResultPath
<1>2. \A side \in Side : ~Renamed(side, p) => ResultPath(p) = Target(Other(side), p)
  <2>1. ~Renamed("right", p) => ResultPath(p) = Target("left", p)
    <3>1. ~Renamed("left", p) => Target("left", p) = p
      BY TargetsAre, Sides
    <3>2. ~Renamed("right", p) => Target("right", p) = p
      BY TargetsAre, Sides
    <3> QED
      BY <1>1, <3>1, <3>2
  <2> QED
    BY <1>1, <2>1 DEF Side, Other
<1> QED
  BY <1>1, <1>2, Sides

\* The contents of a file and of the file that it was renamed from.
LEMMA RenamedContent ==
    ASSUME PlanTyped, NEW side \in Side, NEW p, Renamed(side, p),
           \/ job.base[p].kind = "binary"
           \/ job[side][Target(side, p)].kind = "binary"
    PROVE  /\ SemanticEq(job.base[p], job[side][Target(side, p)])
           /\ Content(job.base[p]) = Content(job[side][Target(side, p)])
           /\ job.base[p].kind = "binary"
           /\ p \in Path
<1>1. /\ p \in Held(job.base) /\ Target(side, p) \in Held(job[side])
      /\ \/ SemanticEq(job.base[p], job[side][Target(side, p)])
         \/ job.base[p].kind = "ast" /\ job[side][Target(side, p)].kind = "ast"
  BY TargetsAre
<1>2. p \in Path /\ Target(side, p) \in Path
  BY <1>1 DEF Held
<1>3. IsFile(job.base[p]) /\ IsFile(job[side][Target(side, p)])
  BY <1>2, JobIs DEF PlanTyped, IsTree
<1>4. SemanticEq(job.base[p], job[side][Target(side, p)])
  BY <1>1
<1> QED
  BY <1>2, <1>3, <1>4, SemanticEqIs

\* While the trees and the renames stand, so does all that is said of them alone.
LEMMA SameTrees ==
    ASSUME job' = job, renames' = renames
    PROVE  /\ \A side, p : Target(side, p)' = Target(side, p)
           /\ \A side, p : Renamed(side, p)' = Renamed(side, p)
           /\ \A p : Targets(p)' = Targets(p)
           /\ AllTargets' = AllTargets /\ AllPaths' = AllPaths
           /\ \A side, p : Fresh(side, p)' = Fresh(side, p)
           /\ \A side, p : Gone(side, p)' = Gone(side, p)
           /\ NoneMeets' = NoneMeets
<1>1. \A side, p : Target(side, p)' = Target(side, p)
  BY DEF Target, Renamed
<1>2. \A side, p : Renamed(side, p)' = Renamed(side, p)
  BY DEF Renamed
<1>3. \A p : Targets(p)' = Targets(p)
  BY DEF Targets, Target, Renamed
<1>4. AllTargets' = AllTargets
  BY DEF AllTargets, Targets, Target, Renamed
<1>5. AllPaths' = AllPaths
  BY DEF AllPaths
<1>6. \A side, p : Fresh(side, p)' = Fresh(side, p)
  BY Zenon DEF Fresh
<1>7. \A side, p : Gone(side, p)' = Gone(side, p)
  BY Zenon DEF Gone
<1>8. NoneMeets' = NoneMeets
  BY Zenon DEF NoneMeets, MeetsAdd, Target, Renamed
<1> QED
  BY <1>1, <1>2, <1>3, <1>4, <1>5, <1>6, <1>7, <1>8

\* A base path accounts for its places and for nothing else.
LEMMA BaseProcesses ==
    ASSUME PlanTyped, NEW p \in Held(job.base), BasePath(p)
    PROVE  processed' \subseteq processed \cup Targets(p) /\ Targets(p) \subseteq processed'
           /\ processed \subseteq processed'
<1>1. p \in Path
  BY DEF Held
<1>2. \A side \in Side : /\ SidePaths(side, p) \subseteq Targets(p)
                         /\ Target(side, p) \in SidePaths(side, p) \cup {p}
  <2> SUFFICES ASSUME NEW side \in Side
               PROVE  /\ SidePaths(side, p) \subseteq Targets(p)
                      /\ Target(side, p) \in SidePaths(side, p) \cup {p}
    OBVIOUS
  <2>1. Target(side, p) \in Targets(p) /\ p \in Targets(p)
    BY DEF Targets, Side
  <2>2. ResultPath(p) \in Targets(p)
    BY ResultIs DEF Targets, Side
  <2>3. CASE Renamed(side, p)
    <3>1. SidePaths(side, p) = {Target(side, p)}
      BY <1>1, <2>3, SideFile
    <3> QED
      BY <2>1, <3>1
  <2>4. CASE ~Renamed(side, p) /\ p \in Held(job[side])
    BY <1>1, <2>1, <2>4, SideFile, TargetsAre
  <2>5. CASE ~Renamed(side, p) /\ p \notin Held(job[side])
    <3>1. SidePaths(side, p) = Held(job[side]) \cap ({ResultPath(p)} \ Held(job.base))
      BY <1>1, <2>5, SideFile
    <3>2. Target(side, p) = p
      BY <2>5, TargetsAre
    <3> QED
      BY <2>2, <3>1, <3>2
  <2> QED
    BY <2>3, <2>4, <2>5
<1>3. /\ SidePaths("left", p) \subseteq Targets(p) /\ SidePaths("right", p) \subseteq Targets(p)
      /\ Targets(p) \subseteq SidePaths("left", p) \cup SidePaths("right", p) \cup {p}
      /\ ResultPath(p) \in Targets(p)
  BY <1>2, Sides, ResultIs DEF Targets
<1>4. \/ processed' = processed \cup {p, Target("left", p), Target("right", p)}
      \/ processed' = processed \cup {p, ResultPath(p)} \cup SidePaths("left", p)
                      \cup SidePaths("right", p)
      \/ processed' = processed \cup {p} \cup SidePaths("left", p) \cup SidePaths("right", p)
  BY DEF BasePath
<1>5. Targets(p) = {p, Target("left", p), Target("right", p)}
  BY DEF Targets
<1> QED
  BY <1>3, <1>4, <1>5

LEMMA InitCourse == Init => PlanCourse
<1> SUFFICES ASSUME Init PROVE PlanCourse
  OBVIOUS
<1>1. stage = "renames" /\ processed = {} /\ renames = [side \in Side |-> NoRenames]
  BY DEF Init
<1>2. job.op = "merge" => \A p \in Path : merged[p] = NoFile
  BY DEF Init
<1>3. \A side \in Side : DOMAIN renames[side] = {}
  BY <1>1, NoRenamesIs
<1> QED
  BY <1>1, <1>2, <1>3 DEF PlanCourse

LEMMA StepCourse == PlanTyped /\ PlanCourse /\ [Next]_vars => PlanCourse'
<1> SUFFICES ASSUME PlanTyped, PlanCourse, [Next]_vars PROVE PlanCourse'
  OBVIOUS
<1>1. ASSUME NEW upLeft \in BOOLEAN, NEW upRight \in BOOLEAN, FindRenames(upLeft, upRight)
      PROVE  PlanCourse'
  <2>1. /\ stage = "renames" /\ job.op = "merge" /\ stage' = "base" /\ todo' = Held(job.base)
        /\ job' = job /\ processed' = processed /\ merged' = merged
    BY <1>1 DEF FindRenames
  <2>2. processed' = {}
    BY <2>1 DEF PlanCourse
  <2> QED
    BY <2>1, <2>2 DEF PlanCourse, Settled
<1>2. CASE StartRevert
  <2>1. /\ job.op = "revert" /\ stage' = "rest" /\ job' = job /\ renames' = renames
    BY <1>2 DEF StartRevert
  <2> QED
    BY <2>1 DEF PlanCourse
<1>3. CASE BaseDone
  <2>1. /\ stage = "base" /\ todo = {} /\ stage' = "rest" /\ todo' = AllPaths \ processed
        /\ job' = job /\ renames' = renames /\ processed' = processed
    BY <1>3 DEF BaseDone
  <2>2. job.op = "merge"
    BY <2>1 DEF PlanCourse
  <2>3. processed \subseteq AllTargets /\ \A p \in Held(job.base) : Targets(p) \subseteq processed
    BY <2>1, <2>2 DEF PlanCourse, Settled
  <2>4. AllTargets \subseteq processed
    BY <2>3 DEF AllTargets
  <2>5. AllTargets' = AllTargets /\ \A p : Targets(p)' = Targets(p)
    BY <2>1, SameTrees
  <2> QED
    BY <2>1, <2>2, <2>3, <2>4, <2>5 DEF PlanCourse
<1>4. CASE RestDone
  <2>1. /\ stage' \in {"resolve", "done"} /\ job' = job /\ renames' = renames
    BY <1>4 DEF RestDone
  <2> QED
    BY <2>1 DEF PlanCourse
<1>5. ASSUME NEW p \in todo, BasePath(p) PROVE PlanCourse'
  <2>1. /\ stage = "base" /\ job' = job /\ renames' = renames /\ stage' = stage
        /\ todo' = todo \ {p}
    BY <1>5 DEF BasePath
  <2>2. job.op = "merge" /\ todo \subseteq Held(job.base)
    BY <2>1 DEF PlanCourse
  <2>3. /\ processed' \subseteq processed \cup Targets(p) /\ Targets(p) \subseteq processed'
        /\ processed \subseteq processed'
    BY <1>5, <2>2, BaseProcesses
  <2>4. /\ processed \subseteq AllTargets
        /\ \A q \in Held(job.base) : q \notin todo => Targets(q) \subseteq processed
    BY <2>1, <2>2 DEF PlanCourse, Settled
  <2>5. Targets(p) \subseteq AllTargets
    BY <2>2 DEF AllTargets
  <2>6. AllTargets' = AllTargets /\ \A q : Targets(q)' = Targets(q)
    BY <2>1, SameTrees
  <2>7. \A q \in Held(job.base) : q \notin todo' => Targets(q) \subseteq processed'
    BY <2>1, <2>3, <2>4
  <2>8. processed' \subseteq AllTargets
    BY <2>3, <2>4, <2>5
  <2> QED
    BY <2>1, <2>2, <2>6, <2>7, <2>8 DEF PlanCourse, Settled
<1>6. ASSUME NEW p \in todo, RestPath(p) PROVE PlanCourse'
  <2>1. /\ stage = "rest" /\ job' = job /\ renames' = renames /\ stage' = stage
        /\ todo' = todo \ {p} /\ processed' = processed
    BY <1>6 DEF RestPath
  <2>2. AllTargets' = AllTargets /\ \A q : Targets(q)' = Targets(q)
    BY <2>1, SameTrees
  <2> QED
    BY <2>1, <2>2 DEF PlanCourse, Settled
<1>7. ASSUME NEW sides, Resolve(sides) PROVE PlanCourse'
  <2>1. stage' = "done" /\ job' = job /\ renames' = renames
    BY <1>7 DEF Resolve
  <2> QED
    BY <2>1 DEF PlanCourse
<1>8. CASE UNCHANGED vars
  <2>1. /\ stage' = stage /\ job' = job /\ renames' = renames /\ todo' = todo
        /\ processed' = processed /\ merged' = merged
    BY <1>8 DEF vars
  <2>2. AllTargets' = AllTargets /\ \A q : Targets(q)' = Targets(q)
    BY <2>1, SameTrees
  <2> QED
    BY <2>1, <2>2 DEF PlanCourse, Settled
<1> QED
  BY <1>1, <1>2, <1>3, <1>4, <1>5, <1>6, <1>7, <1>8 DEF Next

-----------------------------------------------------------------------------
(* What a base path keeps.                                                 *)

LEMMA FileThere ==
    ASSUME NEW side, NEW paths, NEW q, paths = {q}
    PROVE  FileAt(side, paths) = job[side][q]
BY DEF FileAt

\* A fresh content is a file of its side, at a path that side renamed nothing to.
LEMMA FreshIs ==
    ASSUME PlanTyped, NEW side \in Side, NEW p \in Path, Fresh(side, p)
    PROVE  /\ p \in Held(job[side]) /\ p \in AllPaths /\ job[side][p].kind = "binary"
           /\ IsFile(job[side][p]) /\ ~Renamed(side, p)
           /\ \A q \in Path : Content(job.base[q]) # Content(job[side][p])
           /\ \A q : Renamed(side, q) => Target(side, q) # p
<1>1. /\ job[side][p].kind = "binary"
      /\ \A q \in Path : ~SemanticEq(job.base[q], job[side][p])
  BY DEF Fresh
<1>2. job[side][p] # NoFile
  BY <1>1, NoFileIsFile
<1>3. p \in Held(job[side])
  BY <1>2 DEF Held
<1>4. p \in AllPaths
  <2>1. job.left = job["left"] /\ job.right = job["right"]
    OBVIOUS
  <2> QED
    BY <1>3, <2>1 DEF AllPaths, Side
<1>5. \A q \in Path : IsFile(job.base[q]) /\ IsFile(job[side][q])
  BY JobIs DEF PlanTyped, IsTree
<1>6. \A q \in Path : Content(job.base[q]) # Content(job[side][p])
  BY <1>1, <1>5, SemanticEqIs
<1>7. ASSUME NEW q, Renamed(side, q), Target(side, q) = p PROVE FALSE
  <2>1. job[side][Target(side, q)].kind = "binary"
    BY <1>1, <1>7
  <2>2. Content(job.base[q]) = Content(job[side][Target(side, q)]) /\ q \in Path
    BY <1>7, <2>1, RenamedContent
  <2> QED
    BY <1>6, <1>7, <2>2
<1>8. ~Renamed(side, p)
  BY <1>3, TargetsAre
<1> QED
  BY <1>1, <1>3, <1>4, <1>5, <1>6, <1>7, <1>8

\* The merge of a base path that does not conflict keeps what one side has of it.
LEMMA BaseMerged ==
    ASSUME PlanTyped, NEW side \in Side, NEW p \in Held(job.base), Fresh(side, p),
           NEW o \in MergeTrackedPath(FilesOf(p).base, FilesOf(p).left, FilesOf(p).right),
           o # Conflict
    PROVE  /\ o.what = "keep" /\ Content(o.file) = Content(job[side][p])
           /\ ResultPath(p) = Target(Other(side), p)
           /\ Renamed(Other(side), p) => job.base[p].kind = "binary"
<1> DEFINE f == job[side][p]
           g == FileAt(Other(side), SidePaths(Other(side), p))
<1>1. p \in Path /\ job.base[p] # NoFile
  BY DEF Held
<1>2. /\ p \in Held(job[side]) /\ f.kind = "binary" /\ IsFile(f) /\ ~Renamed(side, p)
      /\ f # NoFile
  BY <1>1, FreshIs DEF Held
<1>3. ResultPath(p) = Target(Other(side), p)
  BY <1>2, ResultIs
<1>4. FileAt(side, SidePaths(side, p)) = f
  <2>1. SidePaths(side, p) = {p}
    BY <1>1, <1>2, SideFile
  <2> QED
    BY <2>1, FileThere
<1>5. /\ IsFile(FilesOf(p).base) /\ IsFile(FilesOf(p).left) /\ IsFile(FilesOf(p).right)
      /\ FilesOf(p).base = job.base[p]
      /\ f \in {FilesOf(p).left, FilesOf(p).right}
      /\ g \in {FilesOf(p).left, FilesOf(p).right}
      /\ f # NoFile /\ g # NoFile => FilesOf(p).left # NoFile /\ FilesOf(p).right # NoFile
  <2>1. IsFile(FilesOf(p).base) /\ IsFile(FilesOf(p).left) /\ IsFile(FilesOf(p).right)
    BY <1>1, FilesOfAre
  <2>2. /\ FilesOf(p).base = job.base[p]
        /\ FilesOf(p).left = FileAt("left", SidePaths("left", p))
        /\ FilesOf(p).right = FileAt("right", SidePaths("right", p))
    BY DEF FilesOf
  <2>3. \/ side = "left" /\ Other(side) = "right"
        \/ side = "right" /\ Other(side) = "left"
    BY DEF Side, Other
  <2> QED
    BY <1>4, <2>1, <2>2, <2>3
<1>6. ~SemanticEq(job.base[p], f)
  BY <1>1 DEF Fresh
<1>7. /\ o.what = "keep" /\ Content(o.file) = Content(f)
      /\ job.base[p] # NoFile /\ FilesOf(p).left # NoFile /\ FilesOf(p).right # NoFile
            => job.base[p].kind = "binary"
  <2> HIDE DEF f
  <2> QED
    BY <1>2, <1>5, <1>6, NewContentKept
<1>8. Renamed(Other(side), p) => g # NoFile
  <2> SUFFICES ASSUME Renamed(Other(side), p) PROVE g # NoFile
    OBVIOUS
  <2>1. SidePaths(Other(side), p) = {Target(Other(side), p)}
    BY <1>1, SideFile, Sides
  <2>2. g = job[Other(side)][Target(Other(side), p)]
    BY <2>1, FileThere
  <2>3. Target(Other(side), p) \in Held(job[Other(side)])
    BY TargetsAre, Sides
  <2> QED
    BY <2>2, <2>3 DEF Held
<1> QED
  BY <1>1, <1>2, <1>3, <1>5, <1>7, <1>8

\* So does it keep what one side added where the other renamed the path to.
LEMMA TargetMerged ==
    ASSUME PlanTyped, NoneMeets, NEW side \in Side, NEW p, Renamed(Other(side), p),
           NEW x, x = Target(Other(side), p), Fresh(side, x),
           ~RenamedApart(p), ~DestinationTaken(p),
           NEW o \in MergeTrackedPath(FilesOf(p).base, FilesOf(p).left, FilesOf(p).right),
           o # Conflict
    PROVE  ResultPath(p) = x /\ o.what = "keep" /\ Content(o.file) = Content(job[side][x])
<1> DEFINE f == job[side][x]
<1>1. /\ p \in Held(job.base) /\ x \in Held(job[Other(side)]) /\ x \notin Held(job.base)
  BY TargetsAre, Sides
<1>2. p \in Path /\ x \in Path /\ job.base[x] = NoFile
  BY <1>1 DEF Held
<1>3. /\ x \in Held(job[side]) /\ f.kind = "binary" /\ IsFile(f)
      /\ \A q \in Path : Content(job.base[q]) # Content(f)
      /\ \A q : Renamed(side, q) => Target(side, q) # x
  BY <1>2, FreshIs
<1>4. ASSUME side = "right" PROVE FALSE
  <2>1. Other(side) = "left" /\ Renamed("left", p) /\ x = Target("left", p)
    BY <1>4, Sides
  <2>2. p \in DOMAIN renames.left
    BY <2>1 DEF Renamed
  <2>3. ~MeetsAdd("left", p)
    BY <2>2 DEF NoneMeets
  <2>4. job["right"][x] # NoFile
    BY <1>3, <1>4 DEF Held
  <2>5. SemanticEq(job["right"][x], job["left"][x])
    BY <1>2, <2>1, <2>3, <2>4, Sides DEF MeetsAdd
  <2>6. IsFile(job["right"][x]) /\ IsFile(job["left"][x])
    BY <1>2, JobIs, Sides DEF PlanTyped, IsTree
  <2>7. Content(job["right"][x]) = Content(job["left"][x]) /\ job["left"][x].kind = "binary"
    BY <1>3, <1>4, <2>5, <2>6, SemanticEqIs
  <2>8. Content(job.base[p]) = Content(job["left"][x])
    BY <2>1, <2>7, Sides, RenamedContent
  <2> QED
    BY <1>2, <1>3, <1>4, <2>7, <2>8
<1>5. side = "left" /\ Other(side) = "right"
  BY <1>4, Sides DEF Side
<1>6. Renamed("right", p) /\ x = Target("right", p) /\ ~Renamed("left", p)
  <2>1. Renamed("right", p) /\ x = Target("right", p)
    BY <1>5
  <2>2. Renamed("left", p) => Target("left", p) = x
    BY <2>1 DEF RenamedApart
  <2> QED
    BY <1>3, <1>5, <2>1, <2>2
<1>7. ResultPath(p) = x
  BY <1>6, ResultIs
<1>8. SidePaths("right", p) = {x} /\ FileAt("right", SidePaths("right", p)) = job["right"][x]
  <2>1. SidePaths("right", p) = {x}
    BY <1>2, <1>6, SideFile, Sides
  <2> QED
    BY <2>1, FileThere
<1>9. p \notin Held(job["left"])
  <2> SUFFICES ASSUME p \in Held(job["left"]) PROVE FALSE
    OBVIOUS
  <2>1. p \in Held(job.left) /\ x \in Held(job.left)
    BY <1>3, <1>5
  <2>2. job.left[x] = job["right"][x]
    BY <1>6, <1>7, <1>8, <2>1 DEF DestinationTaken
  <2>3. job["right"][x] = f
    BY <1>5, <2>2
  <2>4. Content(job.base[p]) = Content(job["right"][x])
    BY <1>3, <1>6, <2>3, RenamedContent, Sides
  <2> QED
    BY <1>2, <1>3, <2>3, <2>4
<1>10. FileAt("left", SidePaths("left", p)) = f
  <2>1. SidePaths("left", p) = Held(job["left"]) \cap ({x} \ Held(job.base))
    BY <1>2, <1>6, <1>7, <1>9, SideFile, Sides
  <2>2. SidePaths("left", p) = {x}
    BY <1>1, <1>3, <1>5, <2>1
  <2>3. FileAt("left", SidePaths("left", p)) = job["left"][x]
    BY <2>2, FileThere
  <2> QED
    BY <1>5, <2>3
<1>11. /\ IsFile(FilesOf(p).base) /\ IsFile(FilesOf(p).left) /\ IsFile(FilesOf(p).right)
       /\ FilesOf(p).base = job.base[p] /\ FilesOf(p).left = f
  <2>1. IsFile(FilesOf(p).base) /\ IsFile(FilesOf(p).left) /\ IsFile(FilesOf(p).right)
    BY <1>2, FilesOfAre
  <2>2. FilesOf(p).base = job.base[p] /\ FilesOf(p).left = FileAt("left", SidePaths("left", p))
    BY DEF FilesOf
  <2> QED
    BY <1>10, <2>1, <2>2
<1>12. ~SemanticEq(FilesOf(p).base, f)
  BY <1>2, <1>11 DEF Fresh
<1>13. o.what = "keep" /\ Content(o.file) = Content(f)
  <2> HIDE DEF f
  <2>1. f \in {FilesOf(p).left, FilesOf(p).right}
    BY <1>11
  <2> QED
    BY <1>3, <1>11, <1>12, <2>1, NewContentKept
<1> QED
  BY <1>7, <1>13

\* A base path that one side deleted and the other left alone leaves nothing.
LEMMA DeletionMerged ==
    ASSUME PlanTyped, NEW side \in Side, NEW p \in Path, Gone(side, p), ResultPath(p) = p,
           NEW o \in MergeTrackedPath(FilesOf(p).base, FilesOf(p).left, FilesOf(p).right),
           o # Conflict
    PROVE  o = Drop
<1>1. /\ job.base[p] # NoFile /\ job[side][p] = NoFile /\ job[Other(side)][p] = job.base[p]
      /\ p \in Held(job.base) /\ p \in Held(job[Other(side)]) /\ p \notin Held(job[side])
  BY DEF Gone, Held
<1>2. ~Renamed(side, p)
  <2> SUFFICES ASSUME Renamed(side, p) PROVE FALSE
    OBVIOUS
  <2>1. ~Renamed(Other(side), p)
    BY <1>1, TargetsAre, Sides
  <2>2. ResultPath(p) = Target(side, p)
    BY <2>1, ResultIs, Sides
  <2>3. Target(side, p) \notin Held(job.base)
    BY TargetsAre
  <2> QED
    BY <1>1, <2>2, <2>3
<1>3. FileAt(side, SidePaths(side, p)) = NoFile
  <2>1. SidePaths(side, p) = Held(job[side]) \cap ({ResultPath(p)} \ Held(job.base))
    BY <1>1, <1>2, SideFile
  <2>2. SidePaths(side, p) = {}
    BY <1>1, <2>1
  <2> QED
    BY <2>2 DEF FileAt
<1>4. FileAt(Other(side), SidePaths(Other(side), p)) = job.base[p]
  <2>1. SidePaths(Other(side), p) = {p}
    BY <1>1, SideFile, Sides
  <2>2. FileAt(Other(side), SidePaths(Other(side), p)) = job[Other(side)][p]
    BY <2>1, FileThere
  <2> QED
    BY <1>1, <2>2
<1>5. /\ FilesOf(p).base = job.base[p]
      /\ FilesOf(p).left = FileAt("left", SidePaths("left", p))
      /\ FilesOf(p).right = FileAt("right", SidePaths("right", p))
  BY DEF FilesOf
<1>6. \/ FilesOf(p).left = NoFile /\ FilesOf(p).right = FilesOf(p).base
      \/ FilesOf(p).left = FilesOf(p).base /\ FilesOf(p).right = NoFile
  <2>1. \/ side = "left" /\ Other(side) = "right"
        \/ side = "right" /\ Other(side) = "left"
    BY DEF Side, Other
  <2> QED
    BY <1>3, <1>4, <1>5, <2>1
<1>7. IsFile(FilesOf(p).base)
  BY FilesOfAre
<1> QED
  BY <1>1, <1>5, <1>6, <1>7, DeletionKept

-----------------------------------------------------------------------------
(* Each step keeps what was kept.                                          *)

\* Two base paths whose places meet held the same content, when one a binary.
LEMMA MeetingPaths ==
    ASSUME PlanTyped, NoneMeets, NEW side \in Side, NEW p, NEW q, p # q,
           Renamed(side, p), Renamed(Other(side), q),
           Target(side, p) = Target(Other(side), q), job.base[q].kind = "binary"
    PROVE  p \in Path /\ SemanticEq(job.base[p], job.base[q])
<1> DEFINE t == Target(side, p)
           f == job[side][t]
           g == job[Other(side)][t]
<1>1. /\ Content(job.base[q]) = Content(g) /\ q \in Path /\ SemanticEq(job.base[q], g)
      /\ p \in Held(job.base) /\ t \in Held(job[side]) /\ t \in Held(job[Other(side)])
      /\ t \notin Held(job.base)
  BY RenamedContent, TargetsAre, Sides
<1>2. p \in Path /\ t \in Path /\ job.base[t] = NoFile /\ f # NoFile /\ g # NoFile
  BY <1>1 DEF Held
<1>3. IsFile(f) /\ IsFile(g) /\ IsFile(job.base[p]) /\ IsFile(job.base[q])
  BY <1>1, <1>2, JobIs, Sides DEF PlanTyped, IsTree
<1>4. g.kind = "binary"
  BY <1>1, <1>3, SemanticEqIs
<1>5. SemanticEq(f, g) \/ SemanticEq(g, f)
  <2>1. CASE side = "left"
    <3>1. ~MeetsAdd("left", p)
      BY <2>1 DEF NoneMeets, Renamed
    <3> QED
      BY <1>2, <2>1, <3>1 DEF MeetsAdd
  <2>2. CASE side = "right"
    <3>1. Renamed("left", q) /\ Target("left", q) = t /\ Other(side) = "left"
      BY <2>2, Sides
    <3>2. ~MeetsAdd("left", q)
      BY <3>1 DEF NoneMeets, Renamed
    <3> QED
      BY <1>2, <2>2, <3>1, <3>2, Sides DEF MeetsAdd
  <2> QED
    BY <2>1, <2>2 DEF Side
<1>6. Content(f) = Content(g) /\ f.kind = "binary"
  BY <1>3, <1>4, <1>5, SemanticEqIs
<1>7. Content(job.base[p]) = Content(f)
  BY <1>6, RenamedContent
<1> QED
  BY <1>1, <1>2, <1>3, <1>6, <1>7, SemanticEqIs

LEMMA BaseKeeps ==
    ASSUME PlanTyped, PlanCourse, PlanKept, NEW p \in todo, BasePath(p)
    PROVE  PlanKept'
<1>1. /\ stage = "base" /\ stage' = stage /\ job' = job /\ renames' = renames
      /\ todo' = todo \ {p}
  BY DEF BasePath
<1>2. job.op = "merge" /\ p \in Held(job.base) /\ p \in Path
  BY <1>1 DEF PlanCourse, PlanTyped
<1> SUFFICES ASSUME conflicts' = {}, NoneMeets
             PROVE  BaseKept' /\ TargetsKept' /\ AddedKept' /\ DeletedKept'
  BY <1>1, <1>2, SameTrees DEF PlanKept
<1>3. ~RenamedApart(p) /\ ~DestinationTaken(p)
  BY <1>2, BaseSettles
<1>4. PICK o \in MergeTrackedPath(FilesOf(p).base, FilesOf(p).left, FilesOf(p).right) :
          o # Conflict /\ IsOutcome(o) /\ Settle(ResultPath(p), o)
  BY <1>2, BaseSettles
<1> DEFINE R == ResultPath(p)
<1>5. R \in Path
  BY <1>2, FilesOfAre
<1>6. /\ conflicts \subseteq conflicts' /\ \A q \in Path \ {R} : merged'[q] = merged[q]
      /\ o.what = "keep" => merged'[R] = o.file
      /\ o.what # "keep" => merged' = merged
  BY <1>4, <1>5, SettledTypes
<1>7. BaseKept /\ TargetsKept /\ AddedKept /\ DeletedKept
  BY <1>1, <1>2, <1>6 DEF PlanKept
<1>8. R \in Targets(p)
  BY ResultIs DEF Targets, Side
<1>9. /\ \A side, x : Target(side, x)' = Target(side, x)
      /\ \A side, x : Renamed(side, x)' = Renamed(side, x)
      /\ \A side, x : Fresh(side, x)' = Fresh(side, x)
      /\ \A side, x : Gone(side, x)' = Gone(side, x)
  BY <1>1, SameTrees
<1>10. \A q : Settled(q)' <=> q \notin todo \ {p}
  BY <1>1 DEF Settled
<1>11. \A q : q \notin todo <=> Settled(q)
  BY <1>1 DEF Settled
<1>12. ASSUME NEW side \in Side, NEW q \in Held(job.base), q \notin todo \ {p}, Fresh(side, q)
       PROVE  /\ Content(merged'[Target(Other(side), q)]) = Content(job[side][q])
              /\ Renamed(Other(side), q) => job.base[q].kind = "binary"
  <2>1. CASE q = p
    <3>1. /\ o.what = "keep" /\ Content(o.file) = Content(job[side][p])
          /\ R = Target(Other(side), p)
          /\ Renamed(Other(side), p) => job.base[p].kind = "binary"
      BY <1>2, <1>4, <1>12, <2>1, BaseMerged
    <3> QED
      BY <1>6, <2>1, <3>1
  <2>2. CASE q # p
    <3>1. q \notin todo
      BY <1>12, <2>2
    <3>2. /\ Content(merged[Target(Other(side), q)]) = Content(job[side][q])
          /\ Renamed(Other(side), q) => job.base[q].kind = "binary"
      BY <1>7, <1>11, <1>12, <3>1 DEF BaseKept, Holds
    <3>3. Target(Other(side), q) \in Path /\ q \in Path
      BY TargetsAre, Sides DEF Held
    <3>4. R # Target(Other(side), q)
      <4> SUFFICES ASSUME R = Target(Other(side), q) PROVE FALSE
        OBVIOUS
      <4>1. PICK s \in Side : R = Target(s, p)
        BY ResultIs
      <4>2. Other(side) \in Side
        BY Sides
      <4>3. s = Other(Other(side)) /\ Renamed(s, p) /\ Renamed(Other(side), q)
        <5>1. Target(s, p) = Target(Other(side), q) /\ p # q
          BY <2>2, <4>1
        <5> HIDE DEF R
        <5> QED
          BY <1>2, <4>2, <5>1, TargetsMeet
      <4>4. s = side /\ job.base[q].kind = "binary"
        BY <3>2, <4>3, Sides
      <4>5. Target(side, p) = Target(Other(side), q) /\ Renamed(side, p)
        BY <4>1, <4>3, <4>4
      <4>6. SemanticEq(job.base[p], job.base[q])
        BY <2>2, <4>3, <4>4, <4>5, MeetingPaths
      <4>7. job.base[q] # NoFile /\ p \in Path \ {q}
        BY <1>2, <2>2 DEF Held
      <4> QED
        BY <1>12, <4>6, <4>7 DEF Fresh
    <3> QED
      BY <1>6, <3>2, <3>3, <3>4
  <2> QED
    BY <2>1, <2>2
<1>13. BaseKept'
  BY <1>1, <1>9, <1>10, <1>12 DEF BaseKept, Holds
<1>14. ASSUME NEW side \in Side, NEW q, Renamed(Other(side), q), q \notin todo \ {p},
              NEW x, x = Target(Other(side), q), Fresh(side, x)
       PROVE  Content(merged'[x]) = Content(job[side][x])
  <2>1. CASE q = p
    <3>1. R = x /\ o.what = "keep" /\ Content(o.file) = Content(job[side][x])
      BY <1>3, <1>4, <1>14, <2>1, TargetMerged
    <3> QED
      BY <1>6, <3>1
  <2>2. CASE q # p
    <3>1. q \notin todo
      BY <1>14, <2>2
    <3>2. Content(merged[x]) = Content(job[side][x])
      BY <1>7, <1>11, <1>14, <3>1 DEF TargetsKept, Holds, Renamed
    <3>3. q \in Held(job.base) /\ q \in Path /\ x \in Path
      BY <1>14, TargetsAre, Sides DEF Held
    <3>4. R # x
      <4> SUFFICES ASSUME R = x PROVE FALSE
        OBVIOUS
      <4>1. PICK s \in Side : R = Target(s, p)
        BY ResultIs
      <4>2. s = Other(Other(side)) /\ Renamed(s, p)
        <5>1. Target(s, p) = Target(Other(side), q) /\ p # q /\ Other(side) \in Side
          BY <1>14, <2>2, <4>1, Sides
        <5> HIDE DEF R
        <5> QED
          BY <1>2, <3>3, <5>1, TargetsMeet
      <4>3. Renamed(side, p) /\ Target(side, p) = x
        BY <4>1, <4>2, Sides
      <4> QED
        BY <1>14, <3>3, <4>3, FreshIs
    <3> QED
      BY <1>6, <3>2, <3>3, <3>4
  <2> QED
    BY <2>1, <2>2
<1>15. TargetsKept'
  <2> SUFFICES ASSUME NEW side \in Side, NEW q \in DOMAIN renames[Other(side)],
                      q \notin todo \ {p}, Fresh(side, Target(Other(side), q))
               PROVE  Content(merged'[Target(Other(side), q)])
                         = Content(job[side][Target(Other(side), q)])
    BY <1>1, <1>9, <1>10 DEF TargetsKept, Holds
  <2>1. Renamed(Other(side), q)
    BY DEF Renamed
  <2> QED
    BY <1>14, <2>1
<1>16. AddedKept'
  BY <1>1 DEF AddedKept
<1>17. ASSUME NEW side \in Side, NEW x \in Path, Gone(side, x) PROVE merged'[x] = NoFile
  <2>1. merged[x] = NoFile
    BY <1>7, <1>17 DEF DeletedKept
  <2>2. CASE x # R
    BY <1>6, <2>1, <2>2
  <2>3. CASE x = R
    <3>1. x \in Held(job.base)
      BY <1>17 DEF Gone, Held
    <3>2. x = p
      BY <1>8, <2>3, <3>1, TargetsAre, Sides DEF Targets
    <3>3. o = Drop
      BY <1>2, <1>4, <1>17, <2>3, <3>2, DeletionMerged
    <3>4. merged' = merged
      BY <1>6, <3>3 DEF Drop
    <3> QED
      BY <2>1, <3>4
  <2> QED
    BY <2>2, <2>3
<1>18. DeletedKept'
  BY <1>9, <1>17 DEF DeletedKept
<1> QED
  BY <1>13, <1>15, <1>16, <1>18

LEMMA RestKeeps ==
    ASSUME PlanTyped, PlanCourse, PlanKept, NEW p \in todo, RestPath(p)
    PROVE  PlanKept'
<1>1. /\ stage = "rest" /\ stage' = stage /\ job' = job /\ renames' = renames
      /\ todo' = todo \ {p}
  BY DEF RestPath
<1>2. p \in Path /\ job \in Jobs
  BY DEF PlanTyped
<1> SUFFICES ASSUME conflicts' = {}, NoneMeets
             PROVE  /\ job.op = "merge" => BaseKept' /\ TargetsKept' /\ AddedKept' /\ DeletedKept'
                    /\ job.op = "revert" => RevertKept'
  BY <1>1, SameTrees DEF PlanKept
<1>3. PICK o \in MergeTrackedPath(job.base[p], job.left[p], job.right[p]) :
          /\ o # Conflict /\ IsOutcome(o)
          /\ IF job.op = "revert" /\ o.what = "remove" THEN Settle(p, Keep(NoFile))
             ELSE Settle(p, o)
  BY <1>2, RestSettles
<1>4. /\ conflicts \subseteq conflicts' /\ \A q \in Path \ {p} : merged'[q] = merged[q]
      /\ o.what = "keep" => merged'[p] = o.file
      /\ job.op = "revert" /\ o.what = "remove" => merged'[p] = NoFile
  <2>1. CASE job.op = "revert" /\ o.what = "remove"
    <3>1. IsOutcome(Keep(NoFile)) /\ Keep(NoFile).what = "keep" /\ Keep(NoFile).file = NoFile
      BY KeptIs, NoFileIsFile
    <3> QED
      BY <1>2, <1>3, <2>1, <3>1, SettledTypes
  <2>2. CASE ~(job.op = "revert" /\ o.what = "remove")
    BY <1>2, <1>3, <2>2, SettledTypes
  <2> QED
    BY <2>1, <2>2
<1>5. /\ \A side, x : Target(side, x)' = Target(side, x)
      /\ \A side, x : Renamed(side, x)' = Renamed(side, x)
      /\ \A side, x : Fresh(side, x)' = Fresh(side, x)
      /\ \A side, x : Gone(side, x)' = Gone(side, x)
      /\ AllTargets' = AllTargets
  BY <1>1, SameTrees
<1>6. conflicts = {}
  BY <1>4
<1>7. ASSUME NEW side \in Side, Fresh(side, p)
      PROVE  Content(merged'[p]) = Content(job[side][p])
  <2> DEFINE f == job[side][p]
  <2>1. /\ IsFile(job.base[p]) /\ IsFile(job.left[p]) /\ IsFile(job.right[p])
        /\ f \in {job.left[p], job.right[p]}
    BY <1>2, JobIs DEF IsTree, Side
  <2>2. f.kind = "binary" /\ ~SemanticEq(job.base[p], f)
    BY <1>2, <1>7 DEF Fresh
  <2>3. o.what = "keep" /\ Content(o.file) = Content(f)
    <3> HIDE DEF f
    <3> QED
      BY <1>3, <2>1, <2>2, NewContentKept
  <2> QED
    BY <1>4, <2>3
<1>8. ASSUME job.op = "merge"
      PROVE  BaseKept' /\ TargetsKept' /\ AddedKept' /\ DeletedKept'
  <2>1. BaseKept /\ TargetsKept /\ AddedKept /\ DeletedKept
    BY <1>1, <1>6, <1>8 DEF PlanKept
  <2>2. p \notin AllTargets
    BY <1>1, <1>8 DEF PlanCourse
  <2>3. \A q \in Held(job.base) : q # p /\ \A side \in Side : Target(side, q) # p
    BY <2>2, Sides DEF AllTargets, Targets, Side
  <2>4. BaseKept'
    <3> SUFFICES ASSUME NEW side \in Side, NEW q \in Held(job.base), Fresh(side, q)
                 PROVE  /\ Content(merged'[Target(Other(side), q)]) = Content(job[side][q])
                        /\ Renamed(Other(side), q) => job.base[q].kind = "binary"
      BY <1>1, <1>5 DEF BaseKept, Holds
    <3>1. /\ Content(merged[Target(Other(side), q)]) = Content(job[side][q])
          /\ Renamed(Other(side), q) => job.base[q].kind = "binary"
      BY <1>1, <2>1 DEF BaseKept, Holds, Settled
    <3>2. Target(Other(side), q) \in Path \ {p}
      BY <2>3, TargetsAre, Sides DEF Held
    <3>3. merged'[Target(Other(side), q)] = merged[Target(Other(side), q)]
      BY <1>4, <3>2
    <3> QED
      BY <3>1, <3>3
  <2>5. TargetsKept'
    <3> SUFFICES ASSUME NEW side \in Side, NEW q \in DOMAIN renames[Other(side)],
                        Fresh(side, Target(Other(side), q))
                 PROVE  Content(merged'[Target(Other(side), q)])
                           = Content(job[side][Target(Other(side), q)])
      BY <1>1, <1>5 DEF TargetsKept, Holds
    <3>1. Content(merged[Target(Other(side), q)]) = Content(job[side][Target(Other(side), q)])
      BY <1>1, <2>1 DEF TargetsKept, Holds, Settled
    <3>2. q \in Held(job.base)
      BY TargetsAre, Sides DEF Renamed
    <3>3. Target(Other(side), q) \in Path \ {p}
      BY <2>3, <3>2, TargetsAre, Sides DEF Held
    <3>4. merged'[Target(Other(side), q)] = merged[Target(Other(side), q)]
      BY <1>4, <3>3
    <3> QED
      BY <3>1, <3>4
  <2>6. AddedKept'
    <3> SUFFICES ASSUME NEW side \in Side, NEW q \in Path \ AllTargets, q \notin todo \ {p},
                        Fresh(side, q)
                 PROVE  Content(merged'[q]) = Content(job[side][q])
      BY <1>1, <1>5 DEF AddedKept, Holds
    <3>1. CASE q = p
      BY <1>7, <3>1
    <3>2. CASE q # p
      <4>1. Content(merged[q]) = Content(job[side][q])
        BY <1>1, <2>1, <3>2 DEF AddedKept, Holds
      <4>2. merged'[q] = merged[q]
        BY <1>4, <3>2
      <4> QED
        BY <4>1, <4>2
    <3> QED
      BY <3>1, <3>2
  <2>7. DeletedKept'
    <3> SUFFICES ASSUME NEW side \in Side, NEW q \in Path, Gone(side, q)
                 PROVE  merged'[q] = NoFile
      BY <1>5 DEF DeletedKept
    <3>1. q \in Held(job.base)
      BY DEF Gone, Held
    <3>2. merged'[q] = merged[q]
      BY <1>4, <2>3, <3>1
    <3> QED
      BY <2>1, <3>2 DEF DeletedKept
  <2> QED
    BY <2>4, <2>5, <2>6, <2>7
<1>9. ASSUME job.op = "revert" PROVE RevertKept'
  <2>1. RevertKept
    BY <1>1, <1>6, <1>9 DEF PlanKept
  <2> SUFFICES ASSUME NEW side \in Side, NEW q \in Path, q \notin todo \ {p}
               PROVE  /\ Fresh(side, q) => Content(merged'[q]) = Content(job[side][q])
                      /\ Gone(side, q) => merged'[q] = NoFile
    BY <1>1, <1>5 DEF RevertKept, Holds
  <2>2. CASE q = p
    <3>1. ASSUME Gone(side, p) PROVE merged'[p] = NoFile
      <4>1. IsFile(job.base[p]) /\ job.base[p] # NoFile
        BY <1>2, <3>1, JobIs DEF IsTree, Gone
      <4>2. \/ job.left[p] = NoFile /\ job.right[p] = job.base[p]
            \/ job.left[p] = job.base[p] /\ job.right[p] = NoFile
        BY <3>1 DEF Gone, Side, Other
      <4>3. o = Drop
        BY <1>3, <4>1, <4>2, DeletionKept
      <4> QED
        BY <1>4, <1>9, <4>3 DEF Drop
    <3> QED
      BY <1>7, <2>2, <3>1
  <2>3. CASE q # p
    <3>1. /\ Fresh(side, q) => Content(merged[q]) = Content(job[side][q])
          /\ Gone(side, q) => merged[q] = NoFile
      BY <2>1, <2>3 DEF RevertKept, Holds
    <3>2. merged'[q] = merged[q]
      BY <1>4, <2>3
    <3> QED
      BY <3>1, <3>2
  <2> QED
    BY <2>2, <2>3
<1> QED
  BY <1>8, <1>9

\* Between the stages nothing is written: what is left to visit is accounted for.
LEMMA StageKeeps ==
    ASSUME PlanTyped, PlanCourse, PlanKept
    PROVE  /\ StartRevert => PlanKept'
           /\ BaseDone => PlanKept'
           /\ \A upLeft, upRight : FindRenames(upLeft, upRight) => PlanKept'
<1>1. ASSUME StartRevert PROVE PlanKept'
  <2>1. /\ stage = "renames" /\ job.op = "revert" /\ stage' = "rest" /\ todo' = AllPaths
        /\ job' = job /\ renames' = renames
    BY <1>1 DEF StartRevert
  <2>2. ASSUME NEW side \in Side, NEW q \in Path \ AllPaths
        PROVE  ~Fresh(side, q) /\ ~Gone(side, q)
    <3>1. ~Fresh(side, q)
      BY FreshIs
    <3>2. ~Gone(side, q)
      BY DEF Gone, AllPaths, Held
    <3> QED
      BY <3>1, <3>2
  <2>3. RevertKept'
    BY <2>1, <2>2, SameTrees DEF RevertKept
  <2> QED
    BY <2>1, <2>3 DEF PlanKept
<1>2. ASSUME BaseDone PROVE PlanKept'
  <2>1. /\ stage = "base" /\ todo = {} /\ stage' = "rest" /\ todo' = AllPaths \ processed
        /\ job' = job /\ renames' = renames /\ merged' = merged /\ conflicts' = conflicts
    BY <1>2 DEF BaseDone
  <2>2. job.op = "merge" /\ processed \subseteq AllTargets
    BY <2>1 DEF PlanCourse
  <2> SUFFICES ASSUME conflicts = {}, NoneMeets
               PROVE  BaseKept' /\ TargetsKept' /\ AddedKept' /\ DeletedKept'
    BY <2>1, <2>2, SameTrees DEF PlanKept
  <2>3. BaseKept /\ TargetsKept /\ DeletedKept
    BY <2>1, <2>2 DEF PlanKept
  <2>4. \A q : Settled(q)
    BY <2>1 DEF Settled
  <2>5. /\ \A side, x : Target(side, x)' = Target(side, x)
        /\ \A side, x : Renamed(side, x)' = Renamed(side, x)
        /\ \A side, x : Fresh(side, x)' = Fresh(side, x)
        /\ \A side, x : Gone(side, x)' = Gone(side, x)
        /\ AllTargets' = AllTargets
    BY <2>1, SameTrees
  <2>6. BaseKept'
    BY <2>1, <2>3, <2>4, <2>5 DEF BaseKept, Holds
  <2>7. TargetsKept'
    BY <2>1, <2>3, <2>4, <2>5 DEF TargetsKept, Holds
  <2>8. AddedKept'
    <3> SUFFICES ASSUME NEW side \in Side, NEW q \in Path \ AllTargets,
                        q \notin AllPaths \ processed, Fresh(side, q)
                 PROVE  FALSE
      BY <2>1, <2>5 DEF AddedKept
    <3>1. q \in AllPaths
      BY FreshIs
    <3> QED
      BY <2>2, <3>1
  <2>9. DeletedKept'
    BY <2>1, <2>3, <2>5 DEF DeletedKept
  <2> QED
    BY <2>6, <2>7, <2>8, <2>9
<1>3. ASSUME NEW upLeft, NEW upRight, FindRenames(upLeft, upRight) PROVE PlanKept'
  <2>1. /\ stage = "renames" /\ job.op = "merge" /\ stage' = "base" /\ todo' = Held(job.base)
        /\ job' = job /\ merged' = merged
    BY <1>3 DEF FindRenames
  <2>2. \A p \in Path : merged'[p] = NoFile
    BY <2>1 DEF PlanCourse
  <2>3. BaseKept'
    BY <2>1 DEF BaseKept, Settled
  <2>4. TargetsKept'
    <3>1. PlanTyped'
      BY <1>3, FindRenamesTyped
    <3>2. \A side \in Side : DOMAIN renames'[side] \subseteq Held(job.base)
      BY <2>1, <3>1, TargetsHeld DEF PlanTyped, RenameMap
    <3> QED
      BY <2>1, <3>2, Sides DEF TargetsKept, Settled
  <2>5. AddedKept'
    BY <2>1 DEF AddedKept
  <2>6. DeletedKept'
    BY <2>2 DEF DeletedKept
  <2> QED
    BY <2>1, <2>3, <2>4, <2>5, <2>6 DEF PlanKept
<1> QED
  BY <1>1, <1>2, <1>3

LEMMA StepKeeps == PlanTyped /\ PlanCourse /\ PlanKept /\ [Next]_vars => PlanKept'
<1> SUFFICES ASSUME PlanTyped, PlanCourse, PlanKept, [Next]_vars PROVE PlanKept'
  OBVIOUS
<1>1. CASE RestDone
  <2>1. stage' \in {"resolve", "done"}
    BY <1>1 DEF RestDone
  <2> QED
    BY <2>1 DEF PlanKept
<1>2. ASSUME NEW sides, Resolve(sides) PROVE PlanKept'
  <2>1. stage' = "done"
    BY <1>2 DEF Resolve
  <2> QED
    BY <2>1 DEF PlanKept
<1>3. CASE UNCHANGED vars
  <2>1. /\ stage' = stage /\ job' = job /\ renames' = renames /\ todo' = todo
        /\ processed' = processed /\ merged' = merged /\ conflicts' = conflicts
    BY <1>3 DEF vars
  <2>2. /\ \A side, x : Target(side, x)' = Target(side, x)
        /\ \A side, x : Renamed(side, x)' = Renamed(side, x)
        /\ \A side, x : Fresh(side, x)' = Fresh(side, x)
        /\ \A side, x : Gone(side, x)' = Gone(side, x)
        /\ AllTargets' = AllTargets /\ NoneMeets' = NoneMeets
    BY <2>1, SameTrees
  <2>3. BaseKept' = BaseKept
    BY <2>1, <2>2 DEF BaseKept, Holds, Settled
  <2>4. TargetsKept' = TargetsKept
    BY <2>1, <2>2 DEF TargetsKept, Holds, Settled
  <2>5. AddedKept' = AddedKept
    BY <2>1, <2>2 DEF AddedKept, Holds
  <2>6. DeletedKept' = DeletedKept /\ RevertKept' = RevertKept
    BY <2>1, <2>2 DEF DeletedKept, RevertKept, Holds
  <2> QED
    BY <2>1, <2>2, <2>3, <2>4, <2>5, <2>6 DEF PlanKept
<1> QED
  BY <1>1, <1>2, <1>3, BaseKeeps, RestKeeps, StageKeeps DEF Next

LEMMA KeptFollows == PlanTyped /\ PlanCourse /\ PlanKept => ContentKept
<1> SUFFICES ASSUME PlanTyped, PlanCourse, PlanKept, Planned, conflicts = {}, NoneMeets,
                    NEW side \in Side, NEW p \in Path
             PROVE  /\ Fresh(side, p) => SemanticEq(merged[Target(Other(side), p)], job[side][p])
                    /\ Gone(side, p) => merged[p] = NoFile
  BY DEF ContentKept, NoneMeets, Fresh, Gone
<1>1. stage = "rest" /\ todo = {}
  BY DEF Planned
<1>2. /\ job.op = "merge" => BaseKept /\ TargetsKept /\ AddedKept /\ DeletedKept
      /\ job.op = "revert" => RevertKept
  BY <1>1 DEF PlanKept
<1>3. job.op \in {"merge", "revert"}
  BY JobIs DEF PlanTyped
<1>4. Gone(side, p) => merged[p] = NoFile
  BY <1>1, <1>2, <1>3 DEF DeletedKept, RevertKept
<1>5. ASSUME Fresh(side, p)
      PROVE  Content(merged[Target(Other(side), p)]) = Content(job[side][p])
  <2>1. CASE job.op = "revert"
    <3>1. ~Renamed(Other(side), p)
      BY <2>1, Sides DEF PlanCourse, Renamed
    <3>2. Target(Other(side), p) = p
      BY <3>1, TargetsAre, Sides
    <3> QED
      BY <1>1, <1>2, <1>5, <2>1, <3>2 DEF RevertKept, Holds
  <2>2. CASE job.op = "merge" /\ p \in Held(job.base)
    BY <1>1, <1>2, <1>5, <2>2 DEF BaseKept, Holds, Settled
  <2>3. CASE job.op = "merge" /\ p \notin Held(job.base) /\ p \in AllTargets
    <3>1. PICK q \in Held(job.base) : p \in Targets(q)
      BY <2>3 DEF AllTargets
    <3>2. PICK s \in Side : p = Target(s, q)
      BY <2>3, <3>1, Sides DEF Targets
    <3>3. Renamed(s, q)
      BY <2>3, <3>1, <3>2, TargetsAre
    <3>4. s # side
      BY <1>5, <3>2, <3>3, FreshIs
    <3>5. s = Other(side) /\ q \in DOMAIN renames[Other(side)] /\ p = Target(Other(side), q)
      BY <3>2, <3>3, <3>4, Sides DEF Renamed
    <3>6. Content(merged[p]) = Content(job[side][p])
      BY <1>1, <1>2, <1>5, <2>3, <3>5 DEF TargetsKept, Holds, Settled
    <3>7. Target(Other(side), p) = p
      BY <2>3, TargetsAre, Sides
    <3> QED
      BY <3>6, <3>7
  <2>4. CASE job.op = "merge" /\ p \notin Held(job.base) /\ p \notin AllTargets
    <3>1. Content(merged[p]) = Content(job[side][p])
      BY <1>1, <1>2, <1>5, <2>4 DEF AddedKept, Holds
    <3>2. Target(Other(side), p) = p
      BY <2>4, TargetsAre, Sides
    <3> QED
      BY <3>1, <3>2
  <2> QED
    BY <1>3, <2>1, <2>2, <2>3, <2>4
<1>6. IsFile(merged[Target(Other(side), p)]) /\ IsFile(job[side][p])
  BY TargetsAre, Sides, JobIs DEF PlanTyped, IsTree
<1> QED
  BY <1>4, <1>5, <1>6, SemanticEqIs

(***************************************************************************)
(* A plan without conflicts has every binary content that either side      *)
(* brought, at its path or where the other side renamed it to, and no file *)
(* that one side deleted and the other left alone: for any trees, any      *)
(* renames found and any order of the paths, but for the two cases that    *)
(* ContentKept leaves out.                                                 *)
(***************************************************************************)
THEOREM PlansKeepContents == PlanSpec => []ContentKept
<1>1. Init => PlanTyped /\ PlanCourse /\ PlanKept
  <2>1. Init => stage = "renames"
    BY DEF Init
  <2>2. Init => PlanKept
    BY <2>1 DEF PlanKept
  <2> QED
    BY <2>2, InitTyped, InitCourse
<1>2. PlanTyped /\ PlanCourse /\ PlanKept /\ [Next]_vars => (PlanTyped /\ PlanCourse /\ PlanKept)'
  BY StepTyped, StepCourse, StepKeeps
<1>3. PlanTyped /\ PlanCourse /\ PlanKept => ContentKept
  BY KeptFollows
<1> QED
  BY <1>1, <1>2, <1>3, PTL DEF PlanSpec

-----------------------------------------------------------------------------
(* Order.                                                                  *)

\* precedes orders the members of S one after the other.
Orders(S, precedes) ==
    /\ \A x \in S : <<x, x>> \notin precedes
    /\ \A x, y, z \in S : <<x, y>> \in precedes /\ <<y, z>> \in precedes => <<x, z>> \in precedes
    /\ \A x, y \in S : x = y \/ <<x, y>> \in precedes \/ <<y, x>> \in precedes

\* InOrder lists every member once and in order.
LEMMA InOrderIs ==
    ASSUME NEW S, IsFiniteSet(S), NEW precedes, Orders(S, precedes)
    PROVE  /\ Cardinality(S) \in Nat
           /\ InOrder(S, precedes) \in [1 .. Cardinality(S) -> S]
           /\ \A m, n \in 1 .. Cardinality(S) :
                 m < n => <<InOrder(S, precedes)[m], InOrder(S, precedes)[n]>> \in precedes
           /\ \A x \in S : \E n \in 1 .. Cardinality(S) : InOrder(S, precedes)[n] = x
<1> DEFINE N == Cardinality(S)
           below(x) == {y \in S : <<y, x>> \in precedes}
           rank == [x \in S |-> Cardinality(below(x)) + 1]
           o == InOrder(S, precedes)
<1>1. N \in Nat
  BY FS_CardinalityType
<1>2. ASSUME NEW x \in S PROVE Cardinality(below(x)) \in 0 .. N - 1 /\ IsFiniteSet(below(x))
  <2>1. below(x) \subseteq S \ {x}
    BY DEF Orders
  <2>2. IsFiniteSet(S \ {x}) /\ Cardinality(S \ {x}) = N - 1
    BY FS_RemoveElement
  <2>3. IsFiniteSet(below(x)) /\ Cardinality(below(x)) <= N - 1
    <3> DEFINE T == below(x)
    <3>1. T \in SUBSET (S \ {x})
      BY <2>1
    <3>2. IsFiniteSet(T) /\ Cardinality(T) <= Cardinality(S \ {x})
      <4> HIDE DEF T
      <4> QED
        BY <2>2, <3>1, FS_Subset
    <3> QED
      BY <2>2, <3>2
  <2>4. Cardinality(below(x)) \in Nat
    BY <2>3, FS_CardinalityType
  <2> HIDE DEF below, N
  <2> QED
    BY <1>1, <2>3, <2>4
<1>3. ASSUME NEW x \in S, NEW y \in S, <<x, y>> \in precedes
      PROVE  Cardinality(below(x)) < Cardinality(below(y))
  <2>1. below(x) \subseteq below(y) \ {x} /\ x \in below(y)
    BY <1>3 DEF Orders
  <2>2. IsFiniteSet(below(y)) /\ Cardinality(below(y)) \in Nat /\ Cardinality(below(x)) \in Nat
    BY <1>2
  <2>3. IsFiniteSet(below(y) \ {x}) /\ Cardinality(below(y) \ {x}) = Cardinality(below(y)) - 1
    BY <2>1, <2>2, FS_RemoveElement
  <2>4. Cardinality(below(x)) <= Cardinality(below(y) \ {x})
    BY <2>1, <2>3, FS_Subset
  <2> QED
    BY <2>2, <2>3, <2>4
<1>4. rank \in [S -> 1 .. N]
  <2>1. \A x \in S : Cardinality(below(x)) + 1 \in 1 .. N
    BY <1>1, <1>2
  <2> HIDE DEF N, below
  <2> QED
    BY <2>1
<1>5. \A x, y \in S : Cardinality(below(x)) = Cardinality(below(y)) => x = y
  <2> SUFFICES ASSUME NEW x \in S, NEW y \in S, Cardinality(below(x)) = Cardinality(below(y)),
                      x # y
               PROVE FALSE
    OBVIOUS
  <2>1. <<x, y>> \in precedes \/ <<y, x>> \in precedes
    BY DEF Orders
  <2>2. Cardinality(below(x)) \in Int /\ Cardinality(below(y)) \in Int
    BY <1>2
  <2> HIDE DEF below
  <2> QED
    BY <1>3, <2>1, <2>2
<1>6. \A n \in 1 .. N : \E x \in S : Cardinality(below(x)) = n - 1
  <2>1. rank \in Injection(S, 1 .. N)
    <3>1. \A x, y \in S : rank[x] = rank[y] => x = y
      <4> SUFFICES ASSUME NEW x \in S, NEW y \in S, rank[x] = rank[y] PROVE x = y
        OBVIOUS
      <4>1. Cardinality(below(x)) \in Int /\ Cardinality(below(y)) \in Int
        BY <1>2
      <4>2. Cardinality(below(x)) + 1 = Cardinality(below(y)) + 1
        OBVIOUS
      <4>3. Cardinality(below(x)) = Cardinality(below(y))
        BY <4>1, <4>2
      <4> QED
        BY <1>5, <4>3
    <3> HIDE DEF rank, N
    <3> QED
      BY <1>4, <3>1 DEF Injection, IsInjective
  <2>2. IsFiniteSet(1 .. N) /\ Cardinality(1 .. N) = N
    BY <1>1, FS_Interval
  <2>3. rank \in Surjection(S, 1 .. N)
    BY <2>1, <2>2, FS_Injection
  <2>4. \A n \in 1 .. N : \E x \in S : rank[x] = n
    <3> HIDE DEF rank, N
    <3> QED
      BY <2>3 DEF Surjection
  <2> SUFFICES ASSUME NEW n \in 1 .. N PROVE \E x \in S : Cardinality(below(x)) = n - 1
    OBVIOUS
  <2>5. PICK x \in S : rank[x] = n
    BY <2>4
  <2>6. Cardinality(below(x)) \in Int /\ Cardinality(below(x)) + 1 = n
    BY <1>2, <2>5
  <2>7. Cardinality(below(x)) = n - 1
    BY <2>6
  <2> QED
    BY <2>7
<1>7. o = [n \in 1 .. N |-> CHOOSE x \in S : Cardinality(below(x)) = n - 1]
  BY DEF InOrder
<1>8. ASSUME NEW n \in 1 .. N PROVE o[n] \in S /\ Cardinality(below(o[n])) = n - 1
  <2>1. o[n] = CHOOSE x \in S : Cardinality(below(x)) = n - 1
    BY <1>7
  <2> HIDE DEF o, below, N
  <2> QED
    BY <1>6, <2>1
<1>9. o \in [1 .. N -> S]
  <2> HIDE DEF o, N, below
  <2>1. \A n \in 1 .. N : o[n] \in S
    BY <1>8
  <2>2. DOMAIN o = 1 .. N /\ o = [n \in 1 .. N |-> o[n]]
    BY <1>7
  <2> QED
    BY <2>1, <2>2
<1>10. ASSUME NEW m \in 1 .. N, NEW n \in 1 .. N, m < n PROVE <<o[m], o[n]>> \in precedes
  <2>1. /\ o[m] \in S /\ Cardinality(below(o[m])) = m - 1
        /\ o[n] \in S /\ Cardinality(below(o[n])) = n - 1
    BY <1>8
  <2>2. m - 1 < n - 1 /\ m - 1 \in Int /\ n - 1 \in Int
    BY <1>10
  <2>3. o[m] # o[n]
    <3> HIDE DEF o, below
    <3> QED
      BY <2>1, <2>2
  <2>4. ~(<<o[n], o[m]>> \in precedes)
    <3> SUFFICES ASSUME <<o[n], o[m]>> \in precedes PROVE FALSE
      OBVIOUS
    <3>1. Cardinality(below(o[n])) < Cardinality(below(o[m]))
      <4> HIDE DEF o, below
      <4> QED
        BY <1>3, <2>1
    <3> QED
      BY <2>1, <2>2, <3>1
  <2> HIDE DEF o
  <2> QED
    BY <2>1, <2>3, <2>4 DEF Orders
<1>11. ASSUME NEW x \in S PROVE \E n \in 1 .. N : o[n] = x
  <2> DEFINE n == Cardinality(below(x)) + 1
  <2>1. n \in 1 .. N /\ n - 1 = Cardinality(below(x))
    BY <1>1, <1>2
  <2>2. o[n] \in S /\ Cardinality(below(o[n])) = n - 1
    BY <1>8, <2>1
  <2> HIDE DEF n, o, below
  <2>3. o[n] = x
    BY <1>5, <2>1, <2>2
  <2> QED
    BY <2>1, <2>3
<1>12. /\ \A m, n \in 1 .. N : m < n => <<o[m], o[n]>> \in precedes
       /\ \A x \in S : \E n \in 1 .. N : o[n] = x
  <2> HIDE DEF o, N
  <2> QED
    BY <1>10, <1>11
<1> HIDE DEF rank, below
<1> QED
  BY <1>1, <1>9, <1>12

-----------------------------------------------------------------------------
(* Alignments.                                                             *)

\* No two pairs cross.
IsChain(c) == \A p, q \in c : (p[1] < q[1] /\ p[2] < q[2]) \/ p = q
                              \/ (p[1] > q[1] /\ p[2] > q[2])

Equals(a, b) == {p \in (DOMAIN a) \X (DOMAIN b) : a[p[1]] = b[p[2]]}

\* c pairs members of K and of J, numbers, one with one.
Pairs(c, K, J) ==
    /\ c \in SUBSET (K \X J) /\ IsChain(c)
    /\ \A i \in K : \E p \in c : p[1] = i
    /\ \A j \in J : \E p \in c : p[2] = j

\* An alignment is a chain of equal lines, and none has more.
LEMMA AlignmentIs ==
    ASSUME NEW a, NEW b, NEW c \in Alignments(a, b)
    PROVE  /\ c \in SUBSET Equals(a, b) /\ IsChain(c)
           /\ \A d \in SUBSET Equals(a, b) : IsChain(d) => Cardinality(d) <= Cardinality(c)
BY DEF Alignments, IsChain, Equals

\* Where each of two chains is one with one, as many pairs are below a place.
LEMMA PairsSize ==
    ASSUME NEW K \in SUBSET Nat, NEW J \in SUBSET Nat, IsFiniteSet(K), IsFiniteSet(J),
           NEW c, Pairs(c, K, J)
    PROVE  /\ IsFiniteSet(c) /\ Cardinality(c) = Cardinality(K)
           /\ Cardinality(c) = Cardinality(J)
<1>0. c \in SUBSET (K \X J) /\ IsChain(c)
  BY DEF Pairs
<1>1. IsFiniteSet(c)
  BY <1>0, FS_Product, FS_Subset
<1>2. ASSUME NEW p \in c, NEW q \in c, p[1] = q[1] \/ p[2] = q[2] PROVE p = q
  <2>1. p \in K \X J /\ q \in K \X J
    BY <1>0
  <2>2. p[1] \in Nat /\ p[2] \in Nat /\ q[1] \in Nat /\ q[2] \in Nat
    BY <2>1
  <2> QED
    BY <1>0, <1>2, <2>2 DEF IsChain
<1>3. Cardinality(c) = Cardinality(K)
  <2> DEFINE f == [p \in c |-> p[1]]
  <2>1. f \in [c -> K]
    BY <1>0
  <2>2. \A p, q \in c : f[p] = f[q] => p = q
    BY <1>2
  <2>3. \A i \in K : \E p \in c : f[p] = i
    BY DEF Pairs
  <2> HIDE DEF f
  <2>4. f \in Bijection(c, K)
    BY <2>1, <2>2, <2>3 DEF Bijection, Injection, Surjection, IsInjective
  <2> QED
    BY <1>1, <2>4, FS_Bijection DEF ExistsBijection
<1>4. Cardinality(c) = Cardinality(J)
  <2> DEFINE f == [p \in c |-> p[2]]
  <2>1. f \in [c -> J]
    BY <1>0
  <2>2. \A p, q \in c : f[p] = f[q] => p = q
    BY <1>2
  <2>3. \A i \in J : \E p \in c : f[p] = i
    BY DEF Pairs
  <2> HIDE DEF f
  <2>4. f \in Bijection(c, J)
    BY <2>1, <2>2, <2>3 DEF Bijection, Injection, Surjection, IsInjective
  <2> QED
    BY <1>1, <2>4, FS_Bijection DEF ExistsBijection
<1> QED
  BY <1>1, <1>3, <1>4

\* When equal lines are those in K and in J, and can all be paired, an alignment does.
LEMMA AlignedPairs ==
    ASSUME NEW a, NEW b, IsFiniteSet(DOMAIN a), IsFiniteSet(DOMAIN b),
           NEW K \in SUBSET Nat, NEW J \in SUBSET Nat,
           K \subseteq DOMAIN a, J \subseteq DOMAIN b,
           \A i \in DOMAIN a, j \in DOMAIN b : a[i] = b[j] => i \in K /\ j \in J,
           NEW d \in SUBSET Equals(a, b), Pairs(d, K, J),
           NEW c \in Alignments(a, b)
    PROVE  Pairs(c, K, J)
<1>1. /\ c \in SUBSET Equals(a, b) /\ IsChain(c)
      /\ Cardinality(d) <= Cardinality(c)
  BY AlignmentIs DEF Pairs
<1>2. c \in SUBSET (K \X J)
  BY <1>1 DEF Equals
<1>3. IsFiniteSet(K) /\ IsFiniteSet(J)
  BY FS_Subset
<1>4. IsFiniteSet(c)
  BY <1>2, <1>3, FS_Product, FS_Subset
<1>5. Cardinality(d) = Cardinality(K) /\ Cardinality(d) = Cardinality(J)
  BY <1>3, PairsSize
<1>6. Cardinality(c) \in Nat /\ Cardinality(K) \in Nat /\ Cardinality(J) \in Nat
  BY <1>3, <1>4, FS_CardinalityType
<1>7. ASSUME NEW p \in c, NEW q \in c, p[1] = q[1] \/ p[2] = q[2] PROVE p = q
  <2>1. p \in K \X J /\ q \in K \X J
    BY <1>2
  <2>2. p[1] \in Nat /\ p[2] \in Nat /\ q[1] \in Nat /\ q[2] \in Nat
    BY <2>1
  <2> QED
    BY <1>1, <1>7, <2>2 DEF IsChain
<1>8. \A i \in K : \E p \in c : p[1] = i
  <2> DEFINE f == [p \in c |-> p[1]]
  <2>1. f \in [c -> K]
    BY <1>2
  <2>2. \A p, q \in c : f[p] = f[q] => p = q
    BY <1>7
  <2>3. \A p \in c : f[p] = p[1]
    OBVIOUS
  <2> HIDE DEF f
  <2>4. f \in Injection(c, K)
    BY <2>1, <2>2 DEF Injection, IsInjective
  <2>5. Cardinality(c) = Cardinality(K)
    <3>1. Cardinality(c) <= Cardinality(K)
      BY <1>3, <2>4, FS_Injection
    <3> QED
      BY <1>1, <1>5, <1>6, <3>1
  <2>6. f \in Surjection(c, K)
    BY <1>3, <2>4, <2>5, FS_Injection
  <2>7. \A i \in K : \E p \in c : f[p] = i
    BY <2>6 DEF Surjection
  <2> QED
    BY <2>3, <2>7
<1>9. \A i \in J : \E p \in c : p[2] = i
  <2> DEFINE f == [p \in c |-> p[2]]
  <2>1. f \in [c -> J]
    BY <1>2
  <2>2. \A p, q \in c : f[p] = f[q] => p = q
    BY <1>7
  <2>3. \A p \in c : f[p] = p[2]
    OBVIOUS
  <2> HIDE DEF f
  <2>4. f \in Injection(c, J)
    BY <2>1, <2>2 DEF Injection, IsInjective
  <2>5. Cardinality(c) = Cardinality(J)
    <3>1. Cardinality(c) <= Cardinality(J)
      BY <1>3, <2>4, FS_Injection
    <3> QED
      BY <1>1, <1>5, <1>6, <3>1
  <2>6. f \in Surjection(c, J)
    BY <1>3, <2>4, <2>5, FS_Injection
  <2>7. \A i \in J : \E p \in c : f[p] = i
    BY <2>6 DEF Surjection
  <2> QED
    BY <2>3, <2>7
<1> QED
  BY <1>1, <1>2, <1>8, <1>9 DEF Pairs

\* A line that both texts keep at its place has as many pairs before it in each.
LEMMA SameGap ==
    ASSUME NEW K \in SUBSET Nat, IsFiniteSet(K), NEW c, Pairs(c, K, K), NEW n \in Nat
    PROVE  Cardinality({p \in c : p[1] < n}) = Cardinality({p \in c : p[2] < n})
<1> DEFINE B == {k \in K : k < n}
           before(m) == {p \in c : p[m] < n}
<1>1. IsFiniteSet(B)
  <2>1. B \in SUBSET K
    OBVIOUS
  <2> HIDE DEF B
  <2> QED
    BY <2>1, FS_Subset
<1>2. c \in SUBSET (K \X K) /\ IsChain(c)
  BY DEF Pairs
<1>3. IsFiniteSet(c)
  BY PairsSize
<1>4. \A m \in {1, 2} : \A p \in c : p[m] \in K
  BY <1>2
<1>5. \A m \in {1, 2} : \A p, q \in c : p[m] = q[m] => p = q
  <2> SUFFICES ASSUME NEW m \in {1, 2}, NEW p \in c, NEW q \in c, p[m] = q[m] PROVE p = q
    OBVIOUS
  <2>1. p[1] \in Nat /\ p[2] \in Nat /\ q[1] \in Nat /\ q[2] \in Nat
    BY <1>4
  <2>2. p[1] = q[1] \/ p[2] = q[2]
    OBVIOUS
  <2> QED
    BY <1>2, <2>1, <2>2 DEF IsChain
<1>6. \A m \in {1, 2} : \A k \in K : \E p \in c : p[m] = k
  BY DEF Pairs
<1>7. ASSUME NEW m \in {1, 2} PROVE Cardinality(before(m)) = Cardinality(B)
  <2> DEFINE C == before(m)
             f == [p \in C |-> p[m]]
  <2>1. C \in SUBSET c /\ \A p \in C : p[m] < n
    OBVIOUS
  <2>2. f \in [C -> B]
    <3>1. \A p \in C : p[m] \in B
      BY <1>4, <2>1
    <3> HIDE DEF C, B
    <3> QED
      BY <3>1
  <2>3. \A p, q \in C : f[p] = f[q] => p = q
    <3>1. \A p \in C : f[p] = p[m]
      OBVIOUS
    <3> HIDE DEF C, f
    <3> QED
      BY <1>5, <2>1, <3>1
  <2>4. \A k \in B : \E p \in C : f[p] = k
    <3> SUFFICES ASSUME NEW k \in B PROVE \E p \in C : f[p] = k
      OBVIOUS
    <3>1. k \in K /\ k < n
      OBVIOUS
    <3>2. PICK p \in c : p[m] = k
      BY <1>6, <3>1
    <3>3. p \in C /\ f[p] = k
      BY <3>1, <3>2
    <3> HIDE DEF C, f
    <3> QED
      BY <3>3
  <2> HIDE DEF f, B, C
  <2>5. f \in Bijection(C, B)
    BY <2>2, <2>3, <2>4 DEF Bijection, Injection, Surjection, IsInjective
  <2>6. IsFiniteSet(C)
    BY <1>3, <2>1, FS_Subset
  <2>7. Cardinality(B) = Cardinality(C)
    BY <2>5, <2>6, FS_Bijection DEF ExistsBijection
  <2> QED
    BY <2>7 DEF C
<1>8. Cardinality(before(1)) = Cardinality(B) /\ Cardinality(before(2)) = Cardinality(B)
  <2> HIDE DEF before, B
  <2> QED
    BY <1>7
<1> QED
  BY <1>8

-----------------------------------------------------------------------------
(* The edits of a side.                                                    *)

\* An edit of line i: it deletes the line, or brings the one that s has there.
IsEdit(e, i, B, s) ==
    /\ e.line = i - 1
    /\ \/ e.op = "delete"
       \/ e.op = "insert" /\ i \in B /\ e.text = {s[i]}

\* The edits d delete the lines T and bring those in B of s, each in the place of one.
IsScript(d, T, B, s) ==
    /\ Len(d) \in Nat /\ DOMAIN d = 1 .. Len(d)
    /\ \A n \in DOMAIN d : \E i \in T : IsEdit(d[n], i, B, s)
    /\ \A i \in T : \E n \in DOMAIN d : d[n].line = i - 1 /\ d[n].op = "delete"
    /\ \A i \in B : \E n \in DOMAIN d : d[n].line = i - 1 /\ d[n].op = "insert"
    /\ \A m, n \in DOMAIN d : m < n /\ d[m].line = d[n].line =>
           d[m].op = "delete" /\ d[n].op = "insert"

\* The diff of texts whose lines are aligned but for these is such a script.
LEMMA DiffIsScript ==
    ASSUME NEW b, NEW s, IsFiniteSet(DOMAIN b), IsFiniteSet(DOMAIN s),
           DOMAIN b \in SUBSET Nat, DOMAIN s \in SUBSET Nat,
           NEW T \in SUBSET DOMAIN b, NEW B \in SUBSET T, B \subseteq DOMAIN s,
           NEW c, Pairs(c, DOMAIN b \ T, DOMAIN s \ B),
           \A i \in B : Cardinality({p \in c : p[1] < i}) = Cardinality({p \in c : p[2] < i})
    PROVE  IsScript(DiffText(b, s, c), T, B, s)
<1> DEFINE g(i) == Cardinality({p \in c : p[1] < i})
           h(i) == Cardinality({p \in c : p[2] < i})
           D == {DeleteLine(i, g(i)) : i \in T}
           I == {InsertLine(i, h(i), s[i]) : i \in B}
           E == D \cup I
           Before(e, f) == \/ e.gap < f.gap
                           \/ e.gap = f.gap /\ e.op = "delete" /\ f.op = "insert"
                           \/ e.gap = f.gap /\ e.op = f.op /\ e.line < f.line
           R == {p \in E \X E : Before(p[1], p[2])}
           d == DiffText(b, s, c)
<1>1. IsFiniteSet(c)
  <2>1. IsFiniteSet(DOMAIN b \ T) /\ IsFiniteSet(DOMAIN s \ B)
    BY FS_Difference
  <2> QED
    BY <2>1, PairsSize
<1>2. \A i : g(i) \in Nat /\ h(i) \in Nat
  <2> SUFFICES ASSUME NEW i PROVE g(i) \in Nat /\ h(i) \in Nat
    OBVIOUS
  <2> DEFINE x == {p \in c : p[1] < i}
             y == {p \in c : p[2] < i}
  <2>1. x \in SUBSET c /\ y \in SUBSET c
    OBVIOUS
  <2>2. Cardinality(x) \in Nat /\ Cardinality(y) \in Nat
    <3> HIDE DEF x, y
    <3> QED
      BY <1>1, <2>1, FS_Subset, FS_CardinalityType
  <2> QED
    BY <2>2
<1>3. d = InOrder(E, R)
  <2>1. {p[1] : p \in c} = DOMAIN b \ T
    BY DEF Pairs
  <2>2. {p[2] : p \in c} = DOMAIN s \ B
    BY DEF Pairs
  <2>3. DOMAIN b \ {p[1] : p \in c} = T /\ DOMAIN s \ {p[2] : p \in c} = B
    BY <2>1, <2>2
  <2> QED
    BY <2>3 DEF DiffText
<1>4. \A i \in T : i \in Nat
  OBVIOUS
<1>5. \A i \in T : LET e == DeleteLine(i, g(i)) IN
          e \in E /\ e.op = "delete" /\ e.line = i - 1 /\ e.gap = g(i)
  BY DEF DeleteLine
<1>6. \A i \in B : LET e == InsertLine(i, h(i), s[i]) IN
          e \in E /\ e.op = "insert" /\ e.line = i - 1 /\ e.gap = h(i) /\ e.text = {s[i]}
  BY DEF InsertLine
<1>7. ASSUME NEW e \in E
      PROVE  /\ e.gap \in Nat /\ e.line \in Int
             /\ \/ e.op = "delete" /\ \E i \in T : e.line = i - 1 /\ e = DeleteLine(i, g(i))
                                                   /\ e.gap = g(i)
                \/ e.op = "insert" /\ \E i \in B : e.line = i - 1 /\ e = InsertLine(i, h(i), s[i])
                                                   /\ e.gap = h(i) /\ e.text = {s[i]}
  <2>1. CASE e \in D
    <3>1. PICK i \in T : e = DeleteLine(i, g(i))
      BY <2>1
    <3> HIDE DEF g, h, E
    <3> QED
      BY <1>2, <1>4, <1>5, <3>1
  <2>2. CASE e \in I
    <3>1. PICK i \in B : e = InsertLine(i, h(i), s[i])
      BY <2>2
    <3> HIDE DEF g, h, E
    <3> QED
      BY <1>2, <1>4, <1>6, <3>1
  <2> QED
    BY <2>1, <2>2
<1>8. IsFiniteSet(E)
  <2> DEFINE x == [i \in T |-> DeleteLine(i, g(i))]
             y == [i \in B |-> InsertLine(i, h(i), s[i])]
  <2>1. x \in Surjection(T, D)
    <3>1. x \in [T -> D] /\ \A e \in D : \E i \in T : x[i] = e
      <4> HIDE DEF g
      <4> QED
        OBVIOUS
    <3> HIDE DEF x, D
    <3> QED
      BY <3>1 DEF Surjection
  <2>2. y \in Surjection(B, I)
    <3>1. y \in [B -> I] /\ \A e \in I : \E i \in B : y[i] = e
      <4> HIDE DEF h
      <4> QED
        OBVIOUS
    <3> HIDE DEF y, I
    <3> QED
      BY <3>1 DEF Surjection
  <2>3. IsFiniteSet(T) /\ IsFiniteSet(B)
    BY FS_Subset
  <2> HIDE DEF x, y, D, I
  <2>4. IsFiniteSet(D) /\ IsFiniteSet(I)
    BY <2>1, <2>2, <2>3, FS_Surjection
  <2> QED
    BY <2>4, FS_Union
<1>9. \A e, f \in E : <<e, f>> \in R <=> Before(e, f)
  <2> HIDE DEF E
  <2> QED
    OBVIOUS
<1>10. Orders(E, R)
  <2> HIDE DEF R, E
  <2>1. \A e \in E : <<e, e>> \notin R
    BY <1>7, <1>9
  <2>2. ASSUME NEW e \in E, NEW f \in E, NEW k \in E, <<e, f>> \in R, <<f, k>> \in R
        PROVE  <<e, k>> \in R
    <3>1. Before(e, f) /\ Before(f, k)
      BY <1>9, <2>2
    <3>2. /\ e.gap \in Nat /\ e.line \in Int /\ f.gap \in Nat /\ f.line \in Int
          /\ k.gap \in Nat /\ k.line \in Int
      BY <1>7
    <3>3. Before(e, k)
      <4> DEFINE eg == e.gap fg == f.gap kg == k.gap el == e.line fl == f.line kl == k.line
                 eo == e.op fo == f.op ko == k.op
      <4> HIDE DEF eg, fg, kg, el, fl, kl, eo, fo, ko
      <4> QED
        BY <3>1, <3>2
    <3> QED
      BY <1>9, <3>3
  <2>3. ASSUME NEW e \in E, NEW f \in E
        PROVE  e = f \/ <<e, f>> \in R \/ <<f, e>> \in R
    <3>1. e = f \/ Before(e, f) \/ Before(f, e)
      <4>1. /\ e.gap \in Nat /\ e.line \in Int /\ f.gap \in Nat /\ f.line \in Int
            /\ e.op \in {"delete", "insert"} /\ f.op \in {"delete", "insert"}
        BY <1>7
      <4>2. CASE e.op # f.op \/ e.gap # f.gap \/ e.line # f.line
        BY <4>1, <4>2
      <4>3. CASE e.op = f.op /\ e.line = f.line
        <5>1. CASE e.op = "delete"
          <6>1. PICK i \in T : e.line = i - 1 /\ e = DeleteLine(i, g(i))
            BY <1>7, <5>1
          <6>2. PICK j \in T : f.line = j - 1 /\ f = DeleteLine(j, g(j))
            BY <1>7, <4>3, <5>1
          <6>3. i = j
            <7>1. i \in T /\ j \in T
              OBVIOUS
            <7>2. i \in Nat /\ j \in Nat
              BY <1>4, <7>1
            <7>3. i - 1 = j - 1
              <8> HIDE DEF g, h
              <8> QED
                BY <4>3, <6>1, <6>2
            <7> QED
              BY <7>2, <7>3
          <6> HIDE DEF g, h, Before, R, E
          <6> QED
            BY <6>1, <6>2, <6>3
        <5>2. CASE e.op = "insert"
          <6>1. PICK i \in B : e.line = i - 1 /\ e = InsertLine(i, h(i), s[i])
            BY <1>7, <5>2
          <6>2. PICK j \in B : f.line = j - 1 /\ f = InsertLine(j, h(j), s[j])
            BY <1>7, <4>3, <5>2
          <6>3. i = j
            <7>1. i \in T /\ j \in T
              OBVIOUS
            <7>2. i \in Nat /\ j \in Nat
              BY <1>4, <7>1
            <7>3. i - 1 = j - 1
              <8> HIDE DEF g, h
              <8> QED
                BY <4>3, <6>1, <6>2
            <7> QED
              BY <7>2, <7>3
          <6> HIDE DEF g, h, Before, R, E
          <6> QED
            BY <6>1, <6>2, <6>3
        <5> QED
          BY <4>1, <5>1, <5>2
      <4> QED
        BY <4>2, <4>3
    <3> QED
      BY <1>9, <3>1
  <2> QED
    BY <2>1, <2>2, <2>3 DEF Orders
<1> DEFINE N == Cardinality(E)
<1>11. /\ N \in Nat /\ d \in [1 .. N -> E]
       /\ \A m, n \in 1 .. N : m < n => <<d[m], d[n]>> \in R
       /\ \A e \in E : \E n \in 1 .. N : d[n] = e
  <2> HIDE DEF E, R, d
  <2> QED
    BY <1>3, <1>8, <1>10, InOrderIs
<1>12. DOMAIN d = 1 .. N /\ Len(d) = N
  <2> HIDE DEF E, R, d, N
  <2>1. d \in Seq(E)
    BY <1>11
  <2> QED
    BY <1>11
<1>13. \A n \in 1 .. N : d[n] \in E
  <2> HIDE DEF E, R, d, N
  <2> QED
    BY <1>11
<1> HIDE DEF d, N
<1>14. \A n \in DOMAIN d : \E i \in T : IsEdit(d[n], i, B, s)
  <2> SUFFICES ASSUME NEW n \in 1 .. N PROVE \E i \in T : IsEdit(d[n], i, B, s)
    BY <1>12
  <2>1. d[n] \in E
    BY <1>13
  <2> HIDE DEF E, D, I, g, h
  <2> QED
    BY <1>7, <2>1 DEF IsEdit
<1>15. ASSUME NEW m \in 1 .. N, NEW n \in 1 .. N, m < n, d[m].line = d[n].line
       PROVE  d[m].op = "delete" /\ d[n].op = "insert"
  <2> DEFINE e == d[m]
             f == d[n]
  <2>1. e \in E /\ f \in E
    BY <1>13
  <2>2. <<e, f>> \in R
    <3> HIDE DEF R, E
    <3> QED
      BY <1>11, <1>15
  <2>3. Before(e, f)
    <3> HIDE DEF R, E, e, f
    <3> QED
      BY <1>9, <2>1, <2>2
  <2> HIDE DEF E, R, D, I
  <2>4. e.line = f.line
    BY <1>15
  <2> HIDE DEF e, f
  <2>5. PICK i \in T : e.line = i - 1 /\ e.gap = g(i)
    <3>1. \A i \in B : g(i) = h(i) /\ i \in T
      OBVIOUS
    <3> HIDE DEF g, h
    <3> QED
      BY <1>7, <2>1, <3>1
  <2>6. PICK j \in T : f.line = j - 1 /\ f.gap = g(j)
    <3>1. \A k \in B : g(k) = h(k) /\ k \in T
      OBVIOUS
    <3> HIDE DEF g, h
    <3> QED
      BY <1>7, <2>1, <3>1
  <2>7. i = j
    <3>1. i \in Nat /\ j \in Nat
      BY <1>4
    <3>2. i - 1 = j - 1
      BY <2>4, <2>5, <2>6
    <3> QED
      BY <3>1, <3>2
  <2>8. e.gap = f.gap /\ e.gap \in Nat
    BY <1>7, <2>1, <2>5, <2>6, <2>7
  <2>9. e.op = "delete" /\ f.op = "insert"
    <3>1. e.line \in Int
      BY <1>7, <2>1
    <3> QED
      BY <2>3, <2>4, <2>8, <3>1
  <2> QED
    BY <2>9 DEF e, f
<1>16. \A i \in T : \E n \in DOMAIN d : d[n].line = i - 1 /\ d[n].op = "delete"
  <2> HIDE DEF E, g
  <2> QED
    BY <1>5, <1>11, <1>12
<1>17. \A i \in B : \E n \in DOMAIN d : d[n].line = i - 1 /\ d[n].op = "insert"
  <2> HIDE DEF E, h
  <2> QED
    BY <1>6, <1>11, <1>12
<1>18. IsScript(d, T, B, s)
  BY <1>11, <1>12, <1>14, <1>15, <1>16, <1>17 DEF IsScript
<1> QED
  BY <1>18 DEF d

-----------------------------------------------------------------------------
(* Sequences.                                                              *)

\* What is left and what follows where an element is taken out, or put in.
LEMMA RemoveIs ==
    ASSUME NEW X, NEW s \in Seq(X), NEW i \in 1 .. Len(s)
    PROVE  LET r == RemoveAt(s, i) IN
           /\ r \in Seq(X) /\ Len(r) = Len(s) - 1
           /\ \A k \in 1 .. i - 1 : r[k] = s[k]
           /\ SubSeq(r, i, Len(r)) = SubSeq(s, i + 1, Len(s))
<1> DEFINE u == SubSeq(s, 1, i - 1)
           v == SubSeq(s, i + 1, Len(s))
           r == RemoveAt(s, i)
<1>0. Len(s) \in Nat /\ i \in Nat /\ i >= 1 /\ i <= Len(s) /\ \A k \in 1 .. Len(s) : s[k] \in X
  BY LenProperties, ElementOfSeq
<1>1. /\ u \in Seq(X) /\ Len(u) = i - 1
      /\ \A k \in 1 .. i - 1 : u[k] = s[k]
  <2>1. \A k \in 1 .. i - 1 : s[k] \in X
    BY <1>0
  <2>2. /\ SubSeq(s, 1, i - 1) \in Seq(X)
        /\ Len(SubSeq(s, 1, i - 1)) = IF 1 <= i - 1 THEN i - 1 - 1 + 1 ELSE 0
        /\ \A k \in 1 .. i - 1 - 1 + 1 : SubSeq(s, 1, i - 1)[k] = s[1 + k - 1]
    BY <1>0, <2>1, SubSeqProperties
  <2> HIDE DEF u
  <2>3. u = SubSeq(s, 1, i - 1)
    BY DEF u
  <2>4. \A k \in 1 .. i - 1 : u[k] = s[k]
    BY <1>0, <2>2, <2>3
  <2> QED
    BY <1>0, <2>2, <2>3, <2>4
<1>2. /\ v \in Seq(X) /\ Len(v) = Len(s) - i
      /\ \A k \in 1 .. Len(s) - i : v[k] = s[i + k]
  <2>1. \A k \in i + 1 .. Len(s) : s[k] \in X
    BY <1>0
  <2>2. /\ SubSeq(s, i + 1, Len(s)) \in Seq(X)
        /\ Len(SubSeq(s, i + 1, Len(s))) = IF i + 1 <= Len(s) THEN Len(s) - (i + 1) + 1 ELSE 0
        /\ \A k \in 1 .. Len(s) - (i + 1) + 1 : SubSeq(s, i + 1, Len(s))[k] = s[i + 1 + k - 1]
    BY <1>0, <2>1, SubSeqProperties
  <2> HIDE DEF v
  <2>3. v = SubSeq(s, i + 1, Len(s))
    BY DEF v
  <2>4. \A k \in 1 .. Len(s) - i : v[k] = s[i + k]
    <3> TAKE k \in 1 .. Len(s) - i
    <3>1. k \in 1 .. Len(s) - (i + 1) + 1 /\ i + 1 + k - 1 = i + k
      BY <1>0
    <3> QED
      BY <2>2, <2>3, <3>1
  <2> QED
    BY <1>0, <2>2, <2>3, <2>4
<1>3. r = u \o v
  BY DEF RemoveAt
<1> HIDE DEF u, r
<1>4. /\ r \in Seq(X) /\ Len(r) = Len(s) - 1
      /\ \A k \in 1 .. Len(s) - 1 : r[k] = IF k <= i - 1 THEN u[k] ELSE v[k - (i - 1)]
  <2> HIDE DEF v
  <2>1. /\ u \o v \in Seq(X) /\ Len(u \o v) = Len(u) + Len(v)
        /\ \A k \in 1 .. Len(u) + Len(v) :
              (u \o v)[k] = IF k <= Len(u) THEN u[k] ELSE v[k - Len(u)]
    BY <1>1, <1>2, ConcatProperties
  <2>2. Len(u) + Len(v) = Len(s) - 1
    BY <1>0, <1>1, <1>2
  <2> QED
    BY <1>1, <1>3, <2>1, <2>2
<1>5. \A k \in 1 .. i - 1 : r[k] = s[k]
  <2> TAKE k \in 1 .. i - 1
  <2>1. k \in 1 .. Len(s) - 1 /\ k <= i - 1
    BY <1>0
  <2> HIDE DEF v
  <2> QED
    BY <1>1, <1>4, <2>1
<1>6. SubSeq(r, i, Len(r)) = v
  <2> HIDE DEF v
  <2> DEFINE w == SubSeq(r, i, Len(r))
  <2>1. Len(r) = Len(s) - 1 /\ Len(r) \in Int /\ i \in Int
    BY <1>0, <1>4
  <2>2. \A k \in i .. Len(r) : r[k] \in X
    <3>1. \A k \in 1 .. Len(r) : r[k] \in X
      BY <1>4, ElementOfSeq
    <3> QED
      BY <1>0, <2>1, <3>1
  <2>3. /\ w \in Seq(X) /\ Len(w) = IF i <= Len(r) THEN Len(r) - i + 1 ELSE 0
        /\ \A k \in 1 .. Len(r) - i + 1 : w[k] = r[i + k - 1]
    BY <2>1, <2>2, SubSeqProperties
  <2> HIDE DEF w
  <2>4. Len(w) = Len(v)
    BY <1>0, <1>2, <2>1, <2>3
  <2>5. ASSUME NEW k \in 1 .. Len(w) PROVE w[k] = v[k]
    <3>1. k \in 1 .. Len(r) - i + 1 /\ i + k - 1 \in 1 .. Len(s) - 1 /\ ~(i + k - 1 <= i - 1)
          /\ i + k - 1 - (i - 1) = k
      BY <1>0, <1>2, <2>1, <2>4
    <3>2. w[k] = r[i + k - 1]
      BY <2>3, <3>1
    <3>3. r[i + k - 1] = v[i + k - 1 - (i - 1)]
      BY <1>4, <3>1
    <3> QED
      BY <3>1, <3>2, <3>3
  <2>6. w = v
    BY <1>2, <2>3, <2>4, <2>5, SeqEqual
  <2> QED
    BY <2>6 DEF w
<1> QED
  BY <1>4, <1>5, <1>6 DEF r

LEMMA InsertIs ==
    ASSUME NEW X, NEW s \in Seq(X), NEW i \in 1 .. Len(s) + 1, NEW x \in X
    PROVE  LET r == InsertAt(s, i, x) IN
           /\ r \in Seq(X) /\ Len(r) = Len(s) + 1
           /\ \A k \in 1 .. i - 1 : r[k] = s[k]
           /\ SubSeq(r, i, Len(r)) = <<x>> \o SubSeq(s, i, Len(s))
<1> DEFINE u == SubSeq(s, 1, i - 1)
           v == SubSeq(s, i, Len(s))
           r == InsertAt(s, i, x)
<1>0. Len(s) \in Nat /\ i \in Nat /\ i >= 1 /\ i <= Len(s) + 1 /\ \A k \in 1 .. Len(s) : s[k] \in X
  BY LenProperties, ElementOfSeq
<1>1. /\ u \in Seq(X) /\ Len(u) = i - 1
      /\ \A k \in 1 .. i - 1 : u[k] = s[k]
  <2>1. \A k \in 1 .. i - 1 : s[k] \in X
    BY <1>0
  <2>2. /\ SubSeq(s, 1, i - 1) \in Seq(X)
        /\ Len(SubSeq(s, 1, i - 1)) = IF 1 <= i - 1 THEN i - 1 - 1 + 1 ELSE 0
        /\ \A k \in 1 .. i - 1 - 1 + 1 : SubSeq(s, 1, i - 1)[k] = s[1 + k - 1]
    BY <1>0, <2>1, SubSeqProperties
  <2> HIDE DEF u
  <2>3. u = SubSeq(s, 1, i - 1)
    BY DEF u
  <2>4. \A k \in 1 .. i - 1 : u[k] = s[k]
    BY <1>0, <2>2, <2>3
  <2> QED
    BY <1>0, <2>2, <2>3, <2>4
<1>2. v \in Seq(X) /\ Len(v) = Len(s) - i + 1
  <2>1. \A k \in i .. Len(s) : s[k] \in X
    BY <1>0
  <2>2. /\ SubSeq(s, i, Len(s)) \in Seq(X)
        /\ Len(SubSeq(s, i, Len(s))) = IF i <= Len(s) THEN Len(s) - i + 1 ELSE 0
    BY <1>0, <2>1, SubSeqProperties
  <2> QED
    BY <1>0, <2>2
<1> DEFINE y == <<x>>
           z == y \o v
<1>3. y \in Seq(X) /\ Len(y) = 1
  OBVIOUS
<1>4. r = (u \o y) \o v
  BY DEF InsertAt
<1> HIDE DEF u, r, v, y
<1>5. r = u \o z
  BY <1>1, <1>2, <1>3, <1>4, ConcatAssociative
<1>6. z \in Seq(X) /\ Len(z) = Len(s) - i + 2
  <2>1. y \o v \in Seq(X) /\ Len(y \o v) = Len(y) + Len(v)
    BY <1>2, <1>3, ConcatProperties
  <2> QED
    BY <1>0, <1>2, <1>3, <2>1
<1> HIDE DEF z
<1>7. /\ r \in Seq(X) /\ Len(r) = Len(s) + 1
      /\ \A k \in 1 .. Len(s) + 1 : r[k] = IF k <= i - 1 THEN u[k] ELSE z[k - (i - 1)]
  <2>1. /\ u \o z \in Seq(X) /\ Len(u \o z) = Len(u) + Len(z)
        /\ \A k \in 1 .. Len(u) + Len(z) :
              (u \o z)[k] = IF k <= Len(u) THEN u[k] ELSE z[k - Len(u)]
    BY <1>1, <1>6, ConcatProperties
  <2>2. Len(u) + Len(z) = Len(s) + 1
    BY <1>0, <1>1, <1>6
  <2> QED
    BY <1>1, <1>5, <2>1, <2>2
<1>8. \A k \in 1 .. i - 1 : r[k] = s[k]
  <2> TAKE k \in 1 .. i - 1
  <2>1. k \in 1 .. Len(s) + 1 /\ k <= i - 1
    BY <1>0
  <2> QED
    BY <1>1, <1>7, <2>1
<1>9. SubSeq(r, i, Len(r)) = z
  <2> DEFINE w == SubSeq(r, i, Len(r))
  <2>1. Len(r) = Len(s) + 1 /\ Len(r) \in Int /\ i \in Int
    BY <1>0, <1>7
  <2>2. \A k \in i .. Len(r) : r[k] \in X
    <3>1. \A k \in 1 .. Len(r) : r[k] \in X
      BY <1>7, ElementOfSeq
    <3> QED
      BY <1>0, <2>1, <3>1
  <2>3. /\ w \in Seq(X) /\ Len(w) = IF i <= Len(r) THEN Len(r) - i + 1 ELSE 0
        /\ \A k \in 1 .. Len(r) - i + 1 : w[k] = r[i + k - 1]
    BY <2>1, <2>2, SubSeqProperties
  <2> HIDE DEF w
  <2>4. Len(w) = Len(z)
    BY <1>0, <1>6, <2>1, <2>3
  <2>5. ASSUME NEW k \in 1 .. Len(w) PROVE w[k] = z[k]
    <3>1. k \in 1 .. Len(r) - i + 1 /\ i + k - 1 \in 1 .. Len(s) + 1 /\ ~(i + k - 1 <= i - 1)
          /\ i + k - 1 - (i - 1) = k
      BY <1>0, <1>6, <2>1, <2>4
    <3>2. w[k] = r[i + k - 1]
      BY <2>3, <3>1
    <3>3. r[i + k - 1] = z[i + k - 1 - (i - 1)]
      BY <1>7, <3>1
    <3> QED
      BY <3>1, <3>2, <3>3
  <2>6. w = z
    BY <1>6, <2>3, <2>4, <2>5, SeqEqual
  <2> QED
    BY <2>6 DEF w
<1> QED
  BY <1>7, <1>8, <1>9 DEF r, z, y, v

\* FlattenSeq joins one after the other.
LEMMA FlattenIs ==
    ASSUME NEW X, NEW n \in Nat, NEW out \in [1 .. n -> Seq(X)]
    PROVE  \E F \in [0 .. n -> Seq(X)] :
              /\ F[0] = <<>> /\ \A k \in 1 .. n : F[k] = F[k - 1] \o out[k]
              /\ FlattenSeq(out) = F[n]
<1> DEFINE Q == Seq(X)
           step == [k \in 1 .. n |-> [q \in Q |-> q \o out[k]]]
<1>1. <<>> \in Q /\ step \in [1 .. n -> [Q -> Q]]
  <2>1. \A q \in Q, k \in 1 .. n : q \o out[k] \in Q
    BY ConcatProperties
  <2> HIDE DEF Q
  <2>2. step \in [1 .. n -> [Q -> Q]]
    BY <2>1
  <2> QED
    BY <2>2, EmptySeq DEF Q
<1>2. \A k \in 1 .. n, q \in Q : step[k][q] = q \o out[k]
  OBVIOUS
<1> HIDE DEF step, Q
<1>3. PICK F \in [0 .. n -> Q] : F[0] = <<>> /\ \A k \in 1 .. n : F[k] = step[k][F[k - 1]]
  <2> DEFINE N == n
             none == <<>>
  <2>1. none \in Q
    BY <1>1
  <2>2. step \in [1 .. N -> [Q -> Q]]
    BY <1>1
  <2>3. N \in Nat
    OBVIOUS
  <2> HIDE DEF N, none
  <2>4. \E F \in [0 .. N -> Q] : F[0] = none /\ \A k \in 1 .. N : F[k] = step[k][F[k - 1]]
    BY <2>1, <2>2, <2>3, StepsExist
  <2> QED
    BY <2>4 DEF N, none
<1>4. \A k \in 1 .. n : F[k] = F[k - 1] \o out[k] /\ F[k - 1] \in Q
  <2> TAKE k \in 1 .. n
  <2>1. k - 1 \in 0 .. n
    OBVIOUS
  <2>2. F[k - 1] \in Q
    BY <2>1
  <2> QED
    BY <1>2, <1>3, <2>2
<1>5. out \in Seq(Seq(X)) /\ Len(out) = n
  OBVIOUS
<1>6. FlattenSeq(out) = F[n]
  <2>1. CASE n = 0
    <3>1. out = <<>>
      BY <1>5, <2>1, EmptySeq
    <3>2. FlattenSeq(out) = out
      BY <1>5, <2>1 DEF FlattenSeq
    <3> QED
      BY <1>3, <2>1, <3>1, <3>2
  <2>2. CASE n # 0
    <3> DEFINE Is(f) == f = [i \in 1 .. Len(out) |-> IF i = 1 THEN out[i] ELSE f[i - 1] \o out[i]]
               g == CHOOSE f : Is(f)
               f1 == [k \in 1 .. n |-> F[k]]
    <3>1. FlattenSeq(out) = g[n]
      BY <1>5, <2>2 DEF FlattenSeq
    <3>2. F[1] = out[1]
      <4>1. 1 \in 1 .. n
        BY <2>2
      <4>2. F[1] = F[1 - 1] \o out[1] /\ out[1] \in Seq(X)
        BY <1>4, <4>1
      <4> QED
        BY <1>3, <4>2, ConcatEmptySeq
    <3>3. Is(f1)
      <4>1. ASSUME NEW i \in 1 .. n PROVE f1[i] = IF i = 1 THEN out[i] ELSE f1[i - 1] \o out[i]
        <5>1. CASE i = 1
          BY <3>2, <5>1
        <5>2. CASE i # 1
          <6>1. i - 1 \in 1 .. n
            BY <5>2
          <6> QED
            BY <1>4, <5>2, <6>1
        <5> QED
          BY <5>1, <5>2
      <4>2. f1 = [i \in 1 .. n |-> f1[i]]
        OBVIOUS
      <4> HIDE DEF f1
      <4> QED
        BY <1>5, <4>1, <4>2
    <3>4. Is(g)
      <4> HIDE DEF Is, f1
      <4> QED
        BY <3>3
    <3> HIDE DEF g
    <3>5. \A i \in 1 .. n : g[i] = IF i = 1 THEN out[i] ELSE g[i - 1] \o out[i]
      BY <1>5, <3>4
    <3> DEFINE W == {i \in 1 .. n : g[i] # F[i]}
    <3>6. W = {}
      <4> SUFFICES ASSUME W # {} PROVE FALSE
        OBVIOUS
      <4>1. W \in SUBSET Nat
        OBVIOUS
      <4>2. PICK i \in W : \A k \in W : i <= k
        BY <4>1, LeastNumber
      <4>3. i \in 1 .. n /\ g[i] # F[i]
        BY <4>2
      <4>4. i # 1
        BY <3>2, <3>5, <4>3
      <4>5. i - 1 \in 1 .. n /\ i - 1 \notin W
        BY <4>2, <4>3, <4>4
      <4>6. g[i - 1] = F[i - 1]
        BY <4>5
      <4> QED
        BY <1>4, <3>5, <4>3, <4>4, <4>6
    <3>7. n \in 1 .. n
      BY <2>2
    <3>8. g[n] = F[n]
      BY <3>6, <3>7
    <3> QED
      BY <3>1, <3>8
  <2> QED
    BY <2>1, <2>2
<1> QED
  BY <1>3, <1>4, <1>6 DEF Q

-----------------------------------------------------------------------------
(* A script applied from the last line up.                                 *)

\* out has what the edits make of each line of b: those of T go, and x has what
\* comes in the place of those of B.
IsResult(X, b, T, B, x, out) ==
    /\ b \in Seq(X) /\ out \in [1 .. Len(b) -> Seq(X)]
    /\ T \subseteq 1 .. Len(b) /\ B \subseteq T /\ \A i \in B : x[i] \in X
    /\ \A i \in 1 .. Len(b) :
          out[i] = IF i \in B THEN <<x[i]>> ELSE IF i \in T THEN <<>> ELSE <<b[i]>>

\* F joins the results one after the other.
IsJoin(X, F, out, n) ==
    /\ F \in [0 .. n -> Seq(X)]
    /\ F[0] = <<>> /\ \A k \in 1 .. n : F[k] = F[k - 1] \o out[k]

\* The first h lines of s are still those of b, and after them it has what comes
\* after the first k results.
Reached(X, b, F, s, h, k) ==
    /\ s \in Seq(X) /\ h <= Len(s) /\ \A m \in 1 .. h : s[m] = b[m]
    /\ F[k] \o SubSeq(s, h + 1, Len(s)) = F[Len(b)]

LEMMA SeqStays ==
    ASSUME NEW X, NEW s \in Seq(X), NEW h \in 0 .. Len(s)
    PROVE  SubSeq(s, h + 1, Len(s)) \in Seq(X)
<1>1. Len(s) \in Nat /\ \A k \in 1 .. Len(s) : s[k] \in X
  BY LenProperties, ElementOfSeq
<1>2. \A k \in h + 1 .. Len(s) : s[k] \in X
  BY <1>1
<1>3. h + 1 \in 1 .. Len(s) + 1
  BY <1>1
<1> QED
  BY <1>1, <1>2, <1>3, SubSeqProperties

\* A line that no edit touches is passed.
LEMMA PassLine ==
    ASSUME NEW X, NEW b, NEW T, NEW B, NEW x, NEW out, IsResult(X, b, T, B, x, out),
           NEW F, IsJoin(X, F, out, Len(b)), NEW s, NEW h \in Nat, NEW i \in 1 .. Len(b),
           i = h + 1, i \notin T, Reached(X, b, F, s, i, i)
    PROVE  Reached(X, b, F, s, h, h)
<1>1. s \in Seq(X) /\ i <= Len(s)
  BY DEF Reached
<1>2. Len(s) \in Nat
  BY <1>1, LenProperties
<1>3. \A m \in 1 .. i : s[m] = b[m]
  BY DEF Reached
<1> DEFINE y == <<s[i]>>
           v == SubSeq(s, i + 1, Len(s))
           w == SubSeq(s, h + 1, Len(s))
<1>4. F[i] \o v = F[Len(b)]
  BY DEF Reached
<1>5. w = y \o v
  BY <1>1, <1>2, SubSeqRecursiveFirst
<1>6. y \in Seq(X)
  <2>1. s[i] \in X
    BY <1>1, <1>2, ElementOfSeq
  <2> QED
    BY <2>1
<1>7. v \in Seq(X)
  BY <1>1, <1>2, SeqStays
<1>8. F[i] = F[h] \o y /\ F[h] \in Seq(X)
  <2>1. F[i] = F[h] \o out[i]
    <3>1. i - 1 = h
      OBVIOUS
    <3>2. F[i] = F[i - 1] \o out[i]
      BY DEF IsJoin
    <3> QED
      BY <3>1, <3>2
  <2>2. F[h] \in Seq(X)
    <3>1. h \in 0 .. Len(b)
      BY LenProperties DEF IsResult
    <3> QED
      BY <3>1 DEF IsJoin
  <2>3. out[i] = <<b[i]>>
    BY DEF IsResult
  <2>4. b[i] = s[i]
    BY <1>3
  <2> QED
    BY <2>1, <2>2, <2>3, <2>4
<1>9. F[h] \o w = F[Len(b)]
  <2> DEFINE g == F[h]
  <2>1. g \in Seq(X) /\ F[i] = g \o y
    BY <1>8
  <2> HIDE DEF g, y, v, w
  <2>2. (g \o y) \o v = g \o (y \o v)
    BY <1>6, <1>7, <2>1
  <2>3. g \o w = F[Len(b)]
    BY <1>4, <1>5, <2>1, <2>2
  <2> QED
    BY <2>3 DEF g
<1>10. h <= Len(s) /\ \A m \in 1 .. h : s[m] = b[m]
  BY <1>1, <1>2, <1>3
<1> QED
  BY <1>1, <1>9, <1>10 DEF Reached

LEMMA PassLines ==
    ASSUME NEW X, NEW b, NEW T, NEW B, NEW x, NEW out, IsResult(X, b, T, B, x, out),
           NEW F, IsJoin(X, F, out, Len(b)), NEW s,
           NEW h \in 0 .. Len(b), NEW k \in 0 .. h,
           \A m \in T : ~(k < m /\ m <= h),
           Reached(X, b, F, s, h, h)
    PROVE  Reached(X, b, F, s, k, k)
<1>0. Len(b) \in Nat
  BY LenProperties DEF IsResult
<1> DEFINE W == {n \in Nat : n <= h - k /\ ~Reached(X, b, F, s, h - n, h - n)}
<1>1. W = {}
  <2> SUFFICES ASSUME W # {} PROVE FALSE
    OBVIOUS
  <2>1. W \in SUBSET Nat
    OBVIOUS
  <2>2. PICK n \in W : \A m \in W : n <= m
    BY <2>1, LeastNumber
  <2>3. n \in Nat /\ n <= h - k
    BY <2>2
  <2>4. ~Reached(X, b, F, s, h - n, h - n)
    BY <2>2
  <2>5. n # 0
    <3> SUFFICES ASSUME n = 0 PROVE FALSE
      OBVIOUS
    <3>1. h - n = h
      BY <1>0
    <3> QED
      BY <2>4, <3>1
  <2> DEFINE p == n - 1
             i == h - p
             g == h - n
  <2>6. p \in Nat /\ p <= h - k /\ p < n
    BY <2>3, <2>5
  <2>7. p \notin W
    <3> HIDE DEF p, W
    <3> QED
      BY <2>2, <2>3, <2>6
  <2>8. Reached(X, b, F, s, i, i)
    <3> HIDE DEF p
    <3> QED
      BY <2>6, <2>7
  <2>9. g \in Nat /\ i \in 1 .. Len(b) /\ i = g + 1 /\ i \notin T
    BY <1>0, <2>3, <2>5
  <2>10. ~Reached(X, b, F, s, g, g)
    BY <2>4
  <2> HIDE DEF i, g, W, p
  <2> QED
    BY <2>8, <2>9, <2>10, PassLine
<1>2. h - k \in Nat /\ h - (h - k) = k
  BY <1>0
<1>3. h - k \notin W
  BY <1>1
<1>4. Reached(X, b, F, s, h - (h - k), h - (h - k))
  BY <1>2, <1>3
<1> QED
  BY <1>2, <1>4

\* A line is deleted: the lines below come after what is there for it.
LEMMA DeleteIs ==
    ASSUME NEW X, NEW b, NEW F, NEW s, NEW h \in Nat, NEW i \in Nat, i = h + 1,
           Reached(X, b, F, s, i, i),
           NEW B, NEW x, NEW e, IsEdit(e, i, B, x), e.op = "delete"
    PROVE  Reached(X, b, F, ApplyLine(s, e), h, i)
<1>1. s \in Seq(X) /\ i <= Len(s)
  BY DEF Reached
<1>2. Len(s) \in Nat
  BY <1>1, LenProperties
<1>3. \A m \in 1 .. i : s[m] = b[m]
  BY DEF Reached
<1> DEFINE v == SubSeq(s, i + 1, Len(s))
           r == RemoveAt(s, i)
<1>4. F[i] \o v = F[Len(b)]
  BY DEF Reached
<1>5. ApplyLine(s, e) = r
  <2>1. e.line = i - 1
    BY DEF IsEdit
  <2>2. e.line < Len(s) /\ e.line + 1 = i
    BY <1>1, <1>2, <2>1
  <2> QED
    BY <2>2 DEF ApplyLine
<1>6. i \in 1 .. Len(s)
  BY <1>1, <1>2
<1>7. /\ r \in Seq(X) /\ Len(r) = Len(s) - 1
      /\ \A k \in 1 .. i - 1 : r[k] = s[k]
      /\ SubSeq(r, i, Len(r)) = v
  BY <1>1, <1>6, RemoveIs
<1> HIDE DEF r, v
<1>8. SubSeq(r, h + 1, Len(r)) = v
  BY <1>7
<1>9. h <= Len(r)
  BY <1>1, <1>2, <1>7
<1>10. \A m \in 1 .. h : r[m] = b[m]
  <2> TAKE m \in 1 .. h
  <2>1. m \in 1 .. i - 1 /\ m \in 1 .. i
    OBVIOUS
  <2> QED
    BY <1>3, <1>7, <2>1
<1>11. Reached(X, b, F, r, h, i)
  BY <1>4, <1>7, <1>8, <1>9, <1>10 DEF Reached
<1> QED
  BY <1>5, <1>11

\* A deleted line that nothing replaces.
LEMMA DeletedOnly ==
    ASSUME NEW X, NEW b, NEW T, NEW B, NEW x, NEW out, IsResult(X, b, T, B, x, out),
           NEW F, IsJoin(X, F, out, Len(b)), NEW s, NEW h \in Nat, NEW i \in T \ B, i = h + 1,
           Reached(X, b, F, s, h, i)
    PROVE  Reached(X, b, F, s, h, h)
<1>1. i \in 1 .. Len(b)
  BY DEF IsResult
<1>2. F[i] = F[h] \o out[i] /\ F[h] \in Seq(X)
  <2>1. F[i] = F[h] \o out[i]
    <3>1. i - 1 = h
      BY <1>1
    <3>2. F[i] = F[i - 1] \o out[i]
      BY <1>1 DEF IsJoin
    <3> QED
      BY <3>1, <3>2
  <2>2. F[h] \in Seq(X)
    <3>1. h \in 0 .. Len(b)
      BY <1>1, LenProperties DEF IsResult
    <3> QED
      BY <3>1 DEF IsJoin
  <2> QED
    BY <2>1, <2>2
<1>3. out[i] = <<>>
  BY <1>1 DEF IsResult
<1>4. F[i] = F[h]
  BY <1>2, <1>3, ConcatEmptySeq
<1> QED
  BY <1>4 DEF Reached

\* What replaces a line comes in its place.
LEMMA InsertedIs ==
    ASSUME NEW X, NEW b, NEW T, NEW B, NEW x, NEW out, IsResult(X, b, T, B, x, out),
           NEW F, IsJoin(X, F, out, Len(b)), NEW s, NEW h \in Nat, NEW i \in B, i = h + 1,
           Reached(X, b, F, s, h, i),
           NEW e, IsEdit(e, i, B, x), e.op = "insert"
    PROVE  Reached(X, b, F, ApplyLine(s, e), h, h)
<1>0. i \in 1 .. Len(b) /\ i \in T /\ x[i] \in X
  BY DEF IsResult
<1>1. s \in Seq(X) /\ h <= Len(s)
  BY DEF Reached
<1>2. Len(s) \in Nat
  BY <1>1, LenProperties
<1>3. \A m \in 1 .. h : s[m] = b[m]
  BY DEF Reached
<1> DEFINE r == InsertAt(s, i, x[i])
           y == <<x[i]>>
           v == SubSeq(s, h + 1, Len(s))
<1>4. F[i] \o v = F[Len(b)]
  BY DEF Reached
<1>5. ApplyLine(s, e) = r
  <2>1. e.line = i - 1 /\ e.text = {x[i]}
    BY DEF IsEdit
  <2>2. (CHOOSE t \in e.text : TRUE) = x[i]
    BY <2>1
  <2>3. 1 + (IF e.line < Len(s) THEN e.line ELSE Len(s)) = i
    <3>1. e.line = h
      BY <2>1
    <3> QED
      BY <1>1, <1>2, <3>1
  <2> QED
    BY <2>2, <2>3 DEF ApplyLine
<1>6. /\ r \in Seq(X) /\ Len(r) = Len(s) + 1
      /\ \A k \in 1 .. i - 1 : r[k] = s[k]
      /\ SubSeq(r, i, Len(r)) = y \o v
  <2>1. i \in 1 .. Len(s) + 1
    BY <1>1, <1>2
  <2>2. SubSeq(s, i, Len(s)) = v
    OBVIOUS
  <2> DEFINE z == x[i]
             q == InsertAt(s, i, z)
  <2>3. z \in X
    BY <1>0
  <2> HIDE DEF v, z
  <2>4. /\ q \in Seq(X) /\ Len(q) = Len(s) + 1
        /\ \A k \in 1 .. i - 1 : q[k] = s[k]
        /\ SubSeq(q, i, Len(q)) = <<z>> \o SubSeq(s, i, Len(s))
    BY <1>1, <2>1, <2>3, InsertIs
  <2>5. r = q /\ y = <<z>>
    BY DEF z
  <2> HIDE DEF r, q, y
  <2> QED
    BY <2>2, <2>4, <2>5
<1>7. y \in Seq(X)
  BY <1>0
<1>8. v \in Seq(X)
  BY <1>1, <1>2, SeqStays
<1>9. F[i] = F[h] \o y /\ F[h] \in Seq(X)
  <2>1. F[i] = F[h] \o out[i]
    <3>1. i - 1 = h
      BY <1>0
    <3>2. F[i] = F[i - 1] \o out[i]
      BY <1>0 DEF IsJoin
    <3> QED
      BY <3>1, <3>2
  <2>2. F[h] \in Seq(X)
    <3>1. h \in 0 .. Len(b)
      BY <1>0, LenProperties DEF IsResult
    <3> QED
      BY <3>1 DEF IsJoin
  <2>3. out[i] = y
    BY <1>0 DEF IsResult
  <2> QED
    BY <2>1, <2>2, <2>3
<1> HIDE DEF r, y, v
<1>10. F[h] \o SubSeq(r, h + 1, Len(r)) = F[Len(b)]
  <2> DEFINE g == F[h]
             w == SubSeq(r, h + 1, Len(r))
  <2>1. g \in Seq(X) /\ F[i] = g \o y
    BY <1>9
  <2>2. w = y \o v
    BY <1>6
  <2> HIDE DEF g, w
  <2>3. (g \o y) \o v = g \o (y \o v)
    BY <1>7, <1>8, <2>1
  <2>4. g \o w = F[Len(b)]
    BY <1>4, <2>1, <2>2, <2>3
  <2> QED
    BY <2>4 DEF g, w
<1>11. h <= Len(r)
  BY <1>1, <1>2, <1>6
<1>12. \A m \in 1 .. h : r[m] = b[m]
  <2> TAKE m \in 1 .. h
  <2>1. m \in 1 .. i - 1
    OBVIOUS
  <2> QED
    BY <1>3, <1>6, <2>1
<1>13. Reached(X, b, F, r, h, h)
  BY <1>6, <1>10, <1>11, <1>12 DEF Reached
<1> QED
  BY <1>5, <1>13

-----------------------------------------------------------------------------
(* The order in which a script is applied.                                 *)

\* Places from the last down, at each of T a deletion and then, in B, an insertion.
IsWalk(at, op, N, T, B) ==
    /\ N \in Nat /\ T \subseteq Nat
    /\ \A n \in 1 .. N : at[n] \in T /\ (op[n] = "delete" \/ (op[n] = "insert" /\ at[n] \in B))
    /\ \A i \in T : \E n \in 1 .. N : at[n] = i /\ op[n] = "delete"
    /\ \A i \in B : \E n \in 1 .. N : at[n] = i /\ op[n] = "insert"
    /\ \A m, n \in 1 .. N : m < n =>
          at[m] > at[n] \/ (at[m] = at[n] /\ op[m] = "delete" /\ op[n] = "insert")

\* Between one place and the next deletion there is none left, nor anything to bring.
LEMMA WalkDeletes ==
    ASSUME NEW at, NEW op, NEW N, NEW T, NEW B, IsWalk(at, op, N, T, B),
           NEW m \in 1 .. N, NEW n \in 1 .. N, n = m + 1, op[n] = "delete"
    PROVE  /\ at[n] < at[m] /\ \A i \in T : ~(at[n] < i /\ i < at[m])
           /\ op[m] = "delete" => at[m] \notin B
<1>1. N \in Nat /\ \A k \in 1 .. N : at[k] \in Nat
  BY DEF IsWalk
<1>2. \A j, k \in 1 .. N : j < k =>
          at[j] > at[k] \/ (at[j] = at[k] /\ op[j] = "delete" /\ op[k] = "insert")
  BY DEF IsWalk
<1>3. at[n] < at[m]
  <2>1. m < n
    OBVIOUS
  <2>2. at[m] > at[n]
    BY <1>2, <2>1
  <2> QED
    BY <1>1, <2>2
<1>4. ASSUME NEW i \in T, at[n] < i, i < at[m] PROVE FALSE
  <2>1. PICK k \in 1 .. N : at[k] = i
    BY DEF IsWalk
  <2>2. k < m \/ k = m \/ k = n \/ k > n
    OBVIOUS
  <2>3. CASE k < m
    BY <1>1, <1>2, <1>4, <2>1, <2>3
  <2>4. CASE k > n
    BY <1>1, <1>2, <1>4, <2>1, <2>4
  <2> QED
    BY <1>1, <1>4, <2>1, <2>2, <2>3, <2>4
<1>5. ASSUME op[m] = "delete", at[m] \in B PROVE FALSE
  <2>1. PICK k \in 1 .. N : at[k] = at[m] /\ op[k] = "insert"
    BY <1>5 DEF IsWalk
  <2>2. k < m \/ k = m \/ k = n \/ k > n
    OBVIOUS
  <2>3. CASE k < m
    BY <1>1, <1>2, <1>5, <2>1, <2>3
  <2>4. CASE k > n
    BY <1>1, <1>2, <1>3, <2>1, <2>4
  <2> QED
    BY <1>1, <1>3, <1>5, <2>1, <2>2, <2>3, <2>4
<1> QED
  BY <1>3, <1>4, <1>5

\* What is brought follows the deletion at its place.
LEMMA WalkInserts ==
    ASSUME NEW at, NEW op, NEW N, NEW T, NEW B, B \subseteq T, IsWalk(at, op, N, T, B),
           NEW n \in 1 .. N, op[n] = "insert"
    PROVE  n # 1 /\ at[n - 1] = at[n] /\ op[n - 1] = "delete"
<1>1. N \in Nat /\ \A k \in 1 .. N : at[k] \in Nat
  BY DEF IsWalk
<1>2. \A j, k \in 1 .. N : j < k =>
          at[j] > at[k] \/ (at[j] = at[k] /\ op[j] = "delete" /\ op[k] = "insert")
  BY DEF IsWalk
<1>3. PICK k \in 1 .. N : at[k] = at[n] /\ op[k] = "delete"
  BY DEF IsWalk
<1>4. k < n
  <2>1. k # n
    BY <1>3
  <2>2. ~(n < k)
    BY <1>1, <1>2, <1>3
  <2> QED
    BY <1>1, <2>1, <2>2
<1> DEFINE p == n - 1
<1>5. p \in 1 .. N /\ k <= p /\ p < n
  BY <1>1, <1>4
<1>6. k = p
  <2> HIDE DEF p
  <2> SUFFICES ASSUME k < p PROVE FALSE
    BY <1>1, <1>5
  <2>1. at[k] > at[p] \/ (at[k] = at[p] /\ op[k] = "delete" /\ op[p] = "insert")
    BY <1>2, <1>5
  <2>2. at[p] > at[n] \/ (at[p] = at[n] /\ op[p] = "delete" /\ op[n] = "insert")
    BY <1>2, <1>5
  <2> QED
    BY <1>1, <1>3, <1>5, <2>1, <2>2
<1> QED
  BY <1>3, <1>4, <1>6

\* Before the first place and after the last one there is none.
LEMMA WalkEnds ==
    ASSUME NEW at, NEW op, NEW N, NEW T, NEW B, B \subseteq T, IsWalk(at, op, N, T, B)
    PROVE  /\ N = 0 => T = {}
           /\ N # 0 => /\ \A i \in T : at[N] <= i /\ i <= at[1]
                       /\ op[N] = "delete" => at[N] \notin B
<1>1. N \in Nat /\ \A k \in 1 .. N : at[k] \in Nat
  BY DEF IsWalk
<1>2. \A j, k \in 1 .. N : j < k =>
          at[j] > at[k] \/ (at[j] = at[k] /\ op[j] = "delete" /\ op[k] = "insert")
  BY DEF IsWalk
<1>3. ASSUME N = 0 PROVE T = {}
  BY <1>3 DEF IsWalk
<1>4. ASSUME N # 0 PROVE /\ \A i \in T : at[N] <= i /\ i <= at[1]
                         /\ op[N] = "delete" => at[N] \notin B
  <2>1. 1 \in 1 .. N /\ N \in 1 .. N
    BY <1>1, <1>4
  <2>2. ASSUME NEW i \in T PROVE at[N] <= i /\ i <= at[1]
    <3>1. PICK k \in 1 .. N : at[k] = i
      BY DEF IsWalk
    <3>2. k = N \/ k < N
      BY <1>1
    <3>3. k = 1 \/ 1 < k
      BY <1>1
    <3>4. at[N] <= i
      BY <1>1, <1>2, <2>1, <3>1, <3>2
    <3>5. i <= at[1]
      BY <1>1, <1>2, <2>1, <3>1, <3>3
    <3> QED
      BY <3>4, <3>5
  <2>3. ASSUME op[N] = "delete", at[N] \in B PROVE FALSE
    <3>1. PICK k \in 1 .. N : at[k] = at[N] /\ op[k] = "insert"
      BY <2>3 DEF IsWalk
    <3>2. k = N \/ k < N
      BY <1>1
    <3>3. CASE k < N
      BY <1>1, <1>2, <2>1, <2>3, <3>1, <3>3
    <3> QED
      BY <2>3, <3>1, <3>2, <3>3
  <2> QED
    BY <2>2, <2>3
<1> QED
  BY <1>3, <1>4

\* after is what each of the edits e leaves, from the text b on.
IsCourse(after, e, at, op, N, b, B, x) ==
    /\ after[0] = b /\ \A n \in 1 .. N : after[n] = ApplyLine(after[n - 1], e[n])
    /\ \A n \in 1 .. N : IsEdit(e[n], at[n], B, x) /\ e[n].op = op[n]

\* The edits of such a walk make of the text the results, one after the other.
LEMMA WalkMakes ==
    ASSUME NEW X, NEW b, NEW T, NEW B, NEW x, NEW out, IsResult(X, b, T, B, x, out),
           NEW at, NEW op, NEW N, IsWalk(at, op, N, T, B),
           NEW after, NEW e, IsCourse(after, e, at, op, N, b, B, x)
    PROVE  after[N] = FlattenSeq(out)
<1> DEFINE L == Len(b)
<1>1. /\ b \in Seq(X) /\ L \in Nat /\ out \in [1 .. L -> Seq(X)]
      /\ T \subseteq 1 .. L /\ B \subseteq T
  BY LenProperties DEF IsResult
<1>2. PICK F \in [0 .. L -> Seq(X)] :
         /\ F[0] = <<>> /\ \A k \in 1 .. L : F[k] = F[k - 1] \o out[k]
         /\ FlattenSeq(out) = F[L]
  <2> HIDE DEF L
  <2> QED
    BY <1>1, FlattenIs
<1>3. IsJoin(X, F, out, Len(b))
  BY <1>2 DEF IsJoin
<1> DEFINE R(s, h, k) == Reached(X, b, F, s, h, k)
<1>4. N \in Nat /\ \A n \in 1 .. N : at[n] \in T /\ op[n] \in {"delete", "insert"}
                                     /\ (op[n] = "insert" => at[n] \in B)
  BY DEF IsWalk
<1>5. \A n \in 1 .. N : at[n] \in T /\ at[n] \in 1 .. L /\ at[n] \in Nat /\ at[n] - 1 \in Nat
                          /\ at[n] = (at[n] - 1) + 1
  <2> TAKE n \in 1 .. N
  <2> DEFINE i == at[n]
  <2>1. i \in T
    BY <1>4
  <2>2. i \in 1 .. L
    BY <1>1, <2>1
  <2> HIDE DEF i
  <2>3. i \in Nat /\ i - 1 \in Nat /\ i = (i - 1) + 1
    BY <1>1, <2>2
  <2> QED
    BY <2>1, <2>2, <2>3 DEF i
<1>6. \A h \in 0 .. L : \A k \in 0 .. h : \A s :
         (\A m \in T : ~(k < m /\ m <= h)) /\ R(s, h, h) => R(s, k, k)
  <2> SUFFICES ASSUME NEW h \in 0 .. L, NEW k \in 0 .. h, NEW s,
                      \A m \in T : ~(k < m /\ m <= h), R(s, h, h)
               PROVE  R(s, k, k)
    OBVIOUS
  <2> QED
    BY <1>3, PassLines
<1>7. \A i \in T \ B : \A h \in Nat : \A s : i = h + 1 /\ R(s, h, i) => R(s, h, h)
  <2> SUFFICES ASSUME NEW i \in T \ B, NEW h \in Nat, NEW s, i = h + 1, R(s, h, i)
               PROVE  R(s, h, h)
    OBVIOUS
  <2> QED
    BY <1>3, DeletedOnly
<1>8. \A i \in B : \A h \in Nat : \A s, f :
         i = h + 1 /\ R(s, h, i) /\ IsEdit(f, i, B, x) /\ f.op = "insert"
         => R(ApplyLine(s, f), h, h)
  <2> SUFFICES ASSUME NEW i \in B, NEW h \in Nat, NEW s, NEW f,
                      i = h + 1, R(s, h, i), IsEdit(f, i, B, x), f.op = "insert"
               PROVE  R(ApplyLine(s, f), h, h)
    OBVIOUS
  <2> QED
    BY <1>3, InsertedIs
<1>9. \A i \in Nat : \A h \in Nat : \A s, f :
         i = h + 1 /\ R(s, i, i) /\ IsEdit(f, i, B, x) /\ f.op = "delete"
         => R(ApplyLine(s, f), h, i)
  <2> SUFFICES ASSUME NEW i \in Nat, NEW h \in Nat, NEW s, NEW f,
                      i = h + 1, R(s, i, i), IsEdit(f, i, B, x), f.op = "delete"
               PROVE  R(ApplyLine(s, f), h, i)
    OBVIOUS
  <2> QED
    BY DeleteIs
<1>10. R(b, L, L)
  <2>1. SubSeq(b, L + 1, Len(b)) = <<>>
    BY <1>1, SubSeqProperties, EmptySeq
  <2>2. F[L] \in Seq(X)
    BY <1>1, <1>2
  <2>3. F[L] \o <<>> = F[L]
    BY <2>2, ConcatEmptySeq
  <2> QED
    BY <1>1, <2>1, <2>3 DEF Reached
<1>11. \A s : R(s, 0, 0) => s = F[L]
  <2> SUFFICES ASSUME NEW s, R(s, 0, 0) PROVE s = F[L]
    OBVIOUS
  <2>1. s \in Seq(X) /\ F[0] \o SubSeq(s, 0 + 1, Len(s)) = F[L]
    BY DEF Reached
  <2>2. SubSeq(s, 0 + 1, Len(s)) = s
    BY <2>1, SubSeqFull
  <2>3. <<>> \o s = s
    BY <2>1, ConcatEmptySeq
  <2> QED
    BY <1>2, <2>1, <2>2, <2>3
<1> HIDE DEF R, L
<1> DEFINE State(n) == R(after[n], at[n] - 1, IF op[n] = "delete" THEN at[n] ELSE at[n] - 1)
           Bad == {n \in 1 .. N : ~State(n)}
<1>12. ASSUME NEW n \in 1 .. N, op[n] = "delete" => at[n] \notin B, State(n)
       PROVE  R(after[n], at[n] - 1, at[n] - 1)
  <2> DEFINE i == at[n]
             h == at[n] - 1
             s == after[n]
  <2>1. i \in T /\ i \in 1 .. L /\ h \in Nat /\ i = h + 1
    BY <1>5
  <2>2. CASE op[n] = "delete"
    <3>1. R(s, h, i) /\ i \in T \ B
      BY <1>12, <2>1, <2>2
    <3> HIDE DEF i, h, s
    <3>2. R(s, h, h)
      BY <1>7, <2>1, <3>1
    <3> QED
      BY <3>2 DEF i, h, s
  <2>3. CASE op[n] # "delete"
    BY <1>12, <2>3
  <2> QED
    BY <2>2, <2>3
<1>13. Bad = {}
  <2> SUFFICES ASSUME Bad # {} PROVE FALSE
    OBVIOUS
  <2>1. Bad \in SUBSET Nat
    OBVIOUS
  <2>2. PICK n \in Bad : \A m \in Bad : n <= m
    <3> HIDE DEF Bad
    <3> QED
      BY <2>1, LeastNumber
  <2>3. n \in 1 .. N /\ ~State(n)
    BY <2>2
  <2> DEFINE i == at[n]
             h == at[n] - 1
             p == n - 1
             f == e[n]
  <2>4. i \in T /\ i \in 1 .. L /\ i \in Nat /\ h \in Nat /\ i = h + 1
    BY <1>5, <2>3
  <2>5. IsEdit(f, i, B, x) /\ f.op = op[n] /\ after[n] = ApplyLine(after[p], f)
    BY <2>3 DEF IsCourse
  <2>6. p # 0 => p \in 1 .. N /\ p < n /\ n = p + 1
    BY <1>4, <2>3
  <2>7. p # 0 => State(p)
    <3> SUFFICES ASSUME p # 0 PROVE State(p)
      OBVIOUS
    <3>1. p \in 1 .. N /\ p \in Nat /\ n \in Nat /\ ~(n <= p)
      BY <2>3, <2>6
    <3>2. p \notin Bad
      <4> HIDE DEF p, Bad
      <4> QED
        BY <2>2, <3>1
    <3> HIDE DEF p, State
    <3> QED
      BY <3>1, <3>2
  <2>8. CASE op[n] = "insert"
    <3>1. n # 1 /\ at[n - 1] = at[n] /\ op[n - 1] = "delete"
      <4>1. n \in 1 .. N /\ B \subseteq T
        BY <1>1, <2>3
      <4> HIDE DEF Bad, State
      <4> QED
        BY <2>8, <4>1, WalkInserts
    <3>2. p # 0 /\ at[p] = i /\ op[p] = "delete"
      BY <2>3, <3>1
    <3>3. R(after[p], h, i)
      <4>1. State(p)
        BY <2>7, <3>2
      <4>2. R(after[p], at[p] - 1, at[p])
        <5> HIDE DEF p
        <5> QED
          BY <3>2, <4>1
      <4> HIDE DEF p
      <4> QED
        BY <3>2, <4>2
    <3>4. i \in B
      BY <1>4, <2>3, <2>8
    <3>5. R(after[n], h, h)
      <4> HIDE DEF i, h, p, f
      <4> QED
        BY <1>8, <2>4, <2>5, <2>8, <3>3, <3>4
    <3>6. State(n)
      BY <2>8, <3>5
    <3> QED
      BY <2>3, <3>6
  <2>9. CASE op[n] = "delete"
    <3>1. R(after[p], i, i)
      <4>1. CASE p = 0
        <5>1. n = 1 /\ N # 0
          BY <1>4, <2>3, <4>1
        <5>2. \A m \in T : m <= i
          BY <1>1, <5>1, WalkEnds
        <5>3. \A m \in T : ~(i < m /\ m <= L)
          BY <1>1, <2>4, <5>2
        <5>4. L \in 0 .. L /\ i \in 0 .. L
          BY <1>1, <2>4
        <5>5. R(b, i, i)
          <6> HIDE DEF i
          <6> QED
            BY <1>6, <1>10, <5>3, <5>4
        <5>6. after[0] = b
          BY DEF IsCourse
        <5> HIDE DEF p, i
        <5> QED
          BY <4>1, <5>5, <5>6
      <4>2. CASE p # 0
        <5>1. p \in 1 .. N /\ n = p + 1
          BY <2>6, <4>2
        <5> DEFINE j == at[p]
                   g == at[p] - 1
        <5>2. /\ i < j /\ \A m \in T : ~(i < m /\ m < j)
              /\ op[p] = "delete" => j \notin B
          <6> HIDE DEF p
          <6> QED
            BY <2>3, <2>9, <5>1, WalkDeletes
        <5>3. R(after[p], g, g)
          <6> HIDE DEF p
          <6> QED
            BY <1>12, <2>7, <4>2, <5>1, <5>2
        <5>4. j \in 1 .. L
          <6> HIDE DEF p
          <6> QED
            BY <1>1, <1>4, <5>1
        <5>5. g \in 0 .. L /\ i \in 0 .. g /\ \A m \in T : ~(i < m /\ m <= g)
          <6> HIDE DEF p, i
          <6> DEFINE k == at[p]
          <6>1. k \in 1 .. L /\ i < k /\ \A m \in T : ~(i < m /\ m < k)
            BY <5>2, <5>4
          <6>2. g = k - 1
            OBVIOUS
          <6>3. i \in Nat
            BY <2>4
          <6> HIDE DEF k, g
          <6>4. \A m \in T : m \in Nat
            BY <1>1
          <6>5. g \in 0 .. L /\ i \in 0 .. g
            BY <1>1, <6>1, <6>2, <6>3
          <6>6. ASSUME NEW m \in T PROVE ~(i < m /\ m <= g)
            BY <1>1, <6>1, <6>2, <6>4
          <6> QED
            BY <6>5, <6>6
        <5> HIDE DEF g, i, p
        <5> QED
          BY <1>6, <5>3, <5>5
      <4> QED
        BY <4>1, <4>2
    <3>2. R(after[n], h, i)
      <4> HIDE DEF i, h, p, f
      <4> QED
        BY <1>9, <2>4, <2>5, <2>9, <3>1
    <3>3. State(n)
      BY <2>9, <3>2
    <3> QED
      BY <2>3, <3>3
  <2> QED
    BY <1>4, <2>3, <2>8, <2>9
<1>14. R(after[N], 0, 0)
  <2>1. CASE N = 0
    <3>1. T = {}
      BY <1>1, <2>1, WalkEnds
    <3>2. L \in 0 .. L /\ 0 \in 0 .. L
      BY <1>1
    <3>3. R(b, 0, 0)
      BY <1>6, <1>10, <3>1, <3>2
    <3>4. after[0] = b
      BY DEF IsCourse
    <3> QED
      BY <2>1, <3>3, <3>4
  <2>2. CASE N # 0
    <3> DEFINE g == at[N] - 1
    <3>1. N \in 1 .. N /\ State(N)
      <4>1. N \in 1 .. N
        BY <1>4, <2>2
      <4> HIDE DEF State
      <4> QED
        BY <1>13, <4>1
    <3>2. /\ \A i \in T : at[N] <= i
          /\ op[N] = "delete" => at[N] \notin B
      BY <1>1, <2>2, WalkEnds
    <3>3. R(after[N], g, g)
      BY <1>12, <3>1, <3>2
    <3>4. g \in 0 .. L /\ 0 \in 0 .. g /\ \A m \in T : ~(0 < m /\ m <= g)
      <4> DEFINE i == at[N]
      <4>1. i \in 1 .. L /\ \A m \in T : i <= m
        BY <1>5, <3>1, <3>2
      <4>2. g = i - 1
        OBVIOUS
      <4> HIDE DEF i, g
      <4> QED
        BY <1>1, <4>1, <4>2
    <3> HIDE DEF g
    <3> QED
      BY <1>6, <3>3, <3>4
  <2> QED
    BY <2>1, <2>2
<1> QED
  BY <1>2, <1>11, <1>14

-----------------------------------------------------------------------------
(* The edits of both sides together.                                       *)

\* The text after each edit comes from the one before it.
LEMMA AfterIs ==
    ASSUME NEW base, NEW edits, NEW order, Len(edits) \in Nat
    PROVE  LET a == AfterEdits(base, edits, order) IN
           /\ a[0] = base
           /\ \A n \in 1 .. Len(edits) : a[n] = ApplyLine(a[n - 1], edits[order[n]])
<1> DEFINE N == Len(edits)
           From(f, k) == [n \in 0 .. k |->
                            IF n = 0 THEN base ELSE ApplyLine(f[n - 1], edits[order[n]])]
           W == {k \in 0 .. N : ~\E f : f = From(f, k)}
<1>1. W = {}
  <2> SUFFICES ASSUME W # {} PROVE FALSE
    OBVIOUS
  <2>1. W \in SUBSET Nat
    OBVIOUS
  <2>2. PICK k \in W : \A m \in W : k <= m
    <3> HIDE DEF W
    <3> QED
      BY <2>1, LeastNumber
  <2>3. k \in 0 .. N /\ k \in Nat /\ ~\E f : f = From(f, k)
    BY <2>2
  <2>4. CASE k = 0
    <3> DEFINE f == [n \in 0 .. 0 |-> base]
    <3>1. f = From(f, 0)
      <4> DEFINE g == From(f, 0)
      <4>1. \A n \in 0 .. 0 : n = 0
        OBVIOUS
      <4>2. \A n \in 0 .. 0 : f[n] = base /\ g[n] = base
        BY <4>1
      <4>3. f = [n \in 0 .. 0 |-> f[n]] /\ g = [n \in 0 .. 0 |-> g[n]]
        OBVIOUS
      <4> HIDE DEF f, g
      <4>4. f = g
        BY <4>2, <4>3
      <4> QED
        BY <4>4 DEF g
    <3> HIDE DEF From, f
    <3> QED
      BY <2>3, <2>4, <3>1
  <2>5. CASE k # 0
    <3> DEFINE p == k - 1
    <3>1. p \in 0 .. N /\ p \in Nat /\ p < k /\ k = p + 1
      BY <2>3, <2>5
    <3>2. p \notin W
      <4> HIDE DEF W, p
      <4> QED
        BY <2>2, <2>3, <3>1
    <3>3. PICK f : f = From(f, p)
      <4> HIDE DEF p, From
      <4> QED
        BY <3>1, <3>2
    <3> DEFINE g == [n \in 0 .. k |->
                       IF n < k THEN f[n] ELSE ApplyLine(f[k - 1], edits[order[k]])]
               h == From(g, k)
    <3>4. ASSUME NEW n \in 0 .. k PROVE g[n] = h[n]
      <4>1. h[n] = IF n = 0 THEN base ELSE ApplyLine(g[n - 1], edits[order[n]])
        OBVIOUS
      <4>2. CASE n = 0
        <5>1. 0 \in 0 .. p /\ 0 < k /\ 0 \in 0 .. k
          BY <3>1
        <5>2. f[0] = base
          BY <3>3, <5>1
        <5> QED
          BY <4>1, <4>2, <5>1, <5>2
      <4>3. CASE n # 0 /\ n < k
        <5>1. n \in 0 .. p /\ n - 1 \in 0 .. k /\ n - 1 < k
          BY <3>1, <4>3
        <5>2. f[n] = ApplyLine(f[n - 1], edits[order[n]])
          BY <3>3, <4>3, <5>1
        <5>3. g[n] = f[n] /\ g[n - 1] = f[n - 1]
          BY <4>3, <5>1
        <5> QED
          BY <4>1, <4>3, <5>2, <5>3
      <4>4. CASE n = k
        <5>1. n - 1 \in 0 .. k /\ n - 1 < k /\ n # 0
          BY <2>3, <2>5, <4>4
        <5>2. g[n] = ApplyLine(f[n - 1], edits[order[n]])
          BY <4>4
        <5>3. g[n - 1] = f[n - 1]
          BY <5>1
        <5> QED
          BY <4>1, <5>1, <5>2, <5>3
      <4> QED
        BY <2>3, <4>2, <4>3, <4>4
    <3>5. g = [n \in 0 .. k |-> g[n]] /\ h = [n \in 0 .. k |-> h[n]]
      OBVIOUS
    <3>6. g = From(g, k)
      <4> HIDE DEF g, h
      <4>1. g = h
        BY <3>4, <3>5
      <4> QED
        BY <4>1 DEF h
    <3> HIDE DEF g, From
    <3> QED
      BY <2>3, <3>6
  <2> QED
    BY <2>4, <2>5
<1> DEFINE a == CHOOSE f : f = From(f, N)
<1>2. AfterEdits(base, edits, order) = a
  BY DEF AfterEdits
<1>3. a = From(a, N)
  <2>1. N \in 0 .. N
    OBVIOUS
  <2>2. \E f : f = From(f, N)
    <3> HIDE DEF From, N
    <3> QED
      BY <1>1, <2>1
  <2> HIDE DEF From
  <2> QED
    BY <2>2
<1> HIDE DEF a
<1>4. \A n \in 0 .. N : a[n] = IF n = 0 THEN base ELSE ApplyLine(a[n - 1], edits[order[n]])
  BY <1>3
<1>5. 0 \in 0 .. N /\ \A n \in 1 .. N : n \in 0 .. N /\ n # 0
  OBVIOUS
<1> QED
  BY <1>2, <1>4, <1>5

\* The places of the edits from the last line up, those of one line in order.
LEMMA ByLineIs ==
    ASSUME NEW d, NEW N \in Nat, DOMAIN d = 1 .. N, \A n \in 1 .. N : d[n].line \in Int
    PROVE  LET o == ByLine(d) IN
           /\ o \in [1 .. N -> 1 .. N]
           /\ \A k \in 1 .. N : \E n \in 1 .. N : o[n] = k
           /\ \A m, n \in 1 .. N : m < n =>
                 \/ d[o[m]].line > d[o[n]].line
                 \/ d[o[m]].line = d[o[n]].line /\ o[m] < o[n]
<1> DEFINE S == 1 .. N
           ln == [n \in S |-> d[n].line]
           First(i, j) == \/ d[i].line > d[j].line
                          \/ d[i].line = d[j].line /\ i < j
           R == {p \in S \X S : First(p[1], p[2])}
           o == InOrder(S, R)
<1>1. ByLine(d) = o
  BY DEF ByLine
<1>2. IsFiniteSet(S) /\ Cardinality(S) = N
  <2> HIDE DEF S, ln, R, o
  <2>1. 1 \in Int /\ N \in Int
    OBVIOUS
  <2>2. IsFiniteSet(1 .. N) /\ Cardinality(1 .. N) = IF 1 > N THEN 0 ELSE N - 1 + 1
    BY <2>1, FS_Interval
  <2>3. (IF 1 > N THEN 0 ELSE N - 1 + 1) = N
    OBVIOUS
  <2> QED
    BY <2>2, <2>3 DEF S
<1>3. \A i, j \in S : <<i, j>> \in R <=> First(i, j)
  <2> HIDE DEF S, ln
  <2> QED
    OBVIOUS
<1>4. \A i \in S : ln[i] \in Int /\ ln[i] = d[i].line /\ i \in Int
  OBVIOUS
<1>5. \A i, j \in S : <<i, j>> \in R <=> ln[i] > ln[j] \/ (ln[i] = ln[j] /\ i < j)
  <2> HIDE DEF ln, R
  <2> QED
    BY <1>3, <1>4
<1>6. Orders(S, R)
  <2> HIDE DEF R, ln, S
  <2> QED
    BY <1>4, <1>5 DEF Orders
<1>7. /\ o \in [1 .. N -> S]
      /\ \A m, n \in 1 .. N : m < n => <<o[m], o[n]>> \in R
      /\ \A x \in S : \E n \in 1 .. N : o[n] = x
  <2> HIDE DEF S, R, First, ln, o
  <2>1. LET C == Cardinality(S) IN
        /\ C \in Nat
        /\ InOrder(S, R) \in [1 .. C -> S]
        /\ \A m, n \in 1 .. C : m < n => <<InOrder(S, R)[m], InOrder(S, R)[n]>> \in R
        /\ \A x \in S : \E n \in 1 .. C : InOrder(S, R)[n] = x
    BY <1>2, <1>6, InOrderIs
  <2> QED
    BY <1>2, <2>1 DEF o
<1>8. ASSUME NEW m \in 1 .. N, NEW n \in 1 .. N, m < n PROVE First(o[m], o[n])
  <2>1. o[m] \in S /\ o[n] \in S /\ <<o[m], o[n]>> \in R
    <3> HIDE DEF o, R, S
    <3> QED
      BY <1>7, <1>8
  <2> HIDE DEF o, R, First, S, ln
  <2> QED
    BY <1>3, <2>1
<1>9. \A m, n \in 1 .. N : m < n =>
         \/ d[o[m]].line > d[o[n]].line
         \/ d[o[m]].line = d[o[n]].line /\ o[m] < o[n]
  <2> HIDE DEF o, R, S, ln
  <2> QED
    BY <1>8
<1> HIDE DEF o, R
<1> QED
  BY <1>1, <1>7, <1>9

\* A text after all the edits d, from the last line up.
LastLineUp(b, d) == AfterEdits(b, d, ByLine(d))[Len(d)]

\* A script makes of each line of the text its result.
LEMMA ScriptMakes ==
    ASSUME NEW X, NEW b, NEW T, NEW B, NEW x, NEW out, IsResult(X, b, T, B, x, out),
           NEW d, IsScript(d, T, B, x)
    PROVE  LastLineUp(b, d) = FlattenSeq(out)
<1> DEFINE N == Len(d)
           o == ByLine(d)
           e == [n \in 1 .. N |-> d[o[n]]]
           at == [n \in 1 .. N |-> d[o[n]].line + 1]
           op == [n \in 1 .. N |-> d[o[n]].op]
           after == AfterEdits(b, d, o)
<1>1. Len(b) \in Nat /\ T \subseteq 1 .. Len(b) /\ T \subseteq Nat /\ B \subseteq T
  BY LenProperties DEF IsResult
<1>2. N \in Nat /\ DOMAIN d = 1 .. N
  BY DEF IsScript
<1>3. ASSUME NEW n \in 1 .. N
      PROVE  \E i \in T : d[n].line = i - 1 /\ IsEdit(d[n], i, B, x)
  BY <1>2 DEF IsScript, IsEdit
<1>4. \A n \in 1 .. N : d[n].line \in Int
  <2> TAKE n \in 1 .. N
  <2>1. PICK i \in T : d[n].line = i - 1
    BY <1>3
  <2>2. i \in Nat
    BY <1>1
  <2> QED
    BY <2>1, <2>2
<1>5. /\ o \in [1 .. N -> 1 .. N]
      /\ \A k \in 1 .. N : \E n \in 1 .. N : o[n] = k
      /\ \A m, n \in 1 .. N : m < n =>
            \/ d[o[m]].line > d[o[n]].line
            \/ d[o[m]].line = d[o[n]].line /\ o[m] < o[n]
  <2> HIDE DEF N
  <2> QED
    BY <1>2, <1>4, ByLineIs
<1> HIDE DEF o
<1>6. ASSUME NEW n \in 1 .. N
      PROVE  /\ at[n] \in T /\ IsEdit(e[n], at[n], B, x) /\ e[n].op = op[n]
             /\ d[o[n]].line = at[n] - 1
  <2>1. o[n] \in 1 .. N
    BY <1>5
  <2>2. PICK i \in T : d[o[n]].line = i - 1 /\ IsEdit(d[o[n]], i, B, x)
    <3> DEFINE k == o[n]
    <3> HIDE DEF k, N
    <3>1. \E i \in T : d[k].line = i - 1 /\ IsEdit(d[k], i, B, x)
      BY <1>3, <2>1 DEF k
    <3> QED
      BY <3>1 DEF k
  <2>3. at[n] = d[o[n]].line + 1 /\ e[n] = d[o[n]] /\ op[n] = d[o[n]].op
    OBVIOUS
  <2>4. i \in Nat
    BY <1>1
  <2> DEFINE l == d[o[n]].line
  <2>5. l + 1 = i /\ l = i - 1
    <3>1. l = i - 1
      BY <2>2
    <3> HIDE DEF l
    <3> QED
      BY <2>4, <3>1
  <2>6. at[n] = i
    BY <2>3, <2>5
  <2> HIDE DEF at, e, op
  <2> QED
    BY <2>2, <2>3, <2>6
<1>7. IsCourse(after, e, at, op, N, b, B, x)
  <2>1. /\ after[0] = b
        /\ \A n \in 1 .. N : after[n] = ApplyLine(after[n - 1], d[o[n]])
    BY <1>2, AfterIs
  <2>2. \A n \in 1 .. N : e[n] = d[o[n]]
    OBVIOUS
  <2> HIDE DEF after, e, at, op, N
  <2> QED
    BY <1>6, <2>1, <2>2 DEF IsCourse
<1>8. IsWalk(at, op, N, T, B)
  <2>1. \A n \in 1 .. N : op[n] = d[o[n]].op
    OBVIOUS
  <2>2. ASSUME NEW n \in 1 .. N
        PROVE  at[n] \in T /\ (op[n] = "delete" \/ (op[n] = "insert" /\ at[n] \in B))
    <3> HIDE DEF at, op, e, N
    <3> QED
      BY <1>6 DEF IsEdit
  <2>3. ASSUME NEW i \in T, NEW k \in 1 .. N, d[k].line = i - 1
        PROVE  \E n \in 1 .. N : o[n] = k /\ at[n] = i /\ op[n] = d[k].op
    <3>1. PICK n \in 1 .. N : o[n] = k
      BY <1>5
    <3>2. i - 1 = at[n] - 1
      <4> HIDE DEF at, op, e, N
      <4> QED
        BY <1>6, <2>3, <3>1
    <3>3. i \in Nat /\ at[n] \in Nat
      <4> HIDE DEF at, op, e, N
      <4> QED
        BY <1>1, <1>6
    <3>4. at[n] = i
      <4> HIDE DEF at
      <4> QED
        BY <3>2, <3>3
    <3> HIDE DEF at
    <3> QED
      BY <2>1, <3>1, <3>4
  <2>4. ASSUME NEW i \in T PROVE \E n \in 1 .. N : at[n] = i /\ op[n] = "delete"
    <3>1. PICK k \in 1 .. N : d[k].line = i - 1 /\ d[k].op = "delete"
      BY <1>2 DEF IsScript
    <3> HIDE DEF at, op, N
    <3> QED
      BY <2>3, <3>1
  <2>5. ASSUME NEW i \in B PROVE \E n \in 1 .. N : at[n] = i /\ op[n] = "insert"
    <3>1. PICK k \in 1 .. N : d[k].line = i - 1 /\ d[k].op = "insert"
      BY <1>2 DEF IsScript
    <3>2. i \in T
      BY <1>1
    <3> HIDE DEF at, op, N
    <3> QED
      BY <2>3, <3>1, <3>2
  <2>6. ASSUME NEW m \in 1 .. N, NEW n \in 1 .. N, m < n
        PROVE  at[m] > at[n] \/ (at[m] = at[n] /\ op[m] = "delete" /\ op[n] = "insert")
    <3> DEFINE p == o[m]
               q == o[n]
    <3>1. p \in 1 .. N /\ q \in 1 .. N
      BY <1>5
    <3>2. d[p].line > d[q].line \/ (d[p].line = d[q].line /\ p < q)
      BY <1>5, <2>6
    <3>3. /\ at[m] \in Nat /\ at[n] \in Nat
          /\ d[p].line = at[m] - 1 /\ d[q].line = at[n] - 1
      <4> HIDE DEF at, op, e, N
      <4> QED
        BY <1>1, <1>6
    <3>4. op[m] = d[p].op /\ op[n] = d[q].op
      OBVIOUS
    <3> HIDE DEF at, op, e, N, p, q
    <3>5. CASE d[p].line > d[q].line
      <4>1. at[m] - 1 > at[n] - 1
        BY <3>3, <3>5
      <4> QED
        BY <3>3, <4>1
    <3>6. CASE d[p].line = d[q].line /\ p < q
      <4>1. at[m] - 1 = at[n] - 1
        BY <3>3, <3>6
      <4>2. at[m] = at[n]
        BY <3>3, <4>1
      <4>3. d[p].op = "delete" /\ d[q].op = "insert"
        BY <1>2, <3>1, <3>6 DEF IsScript
      <4> QED
        BY <3>4, <4>2, <4>3
    <3> QED
      BY <3>2, <3>5, <3>6
  <2> HIDE DEF at, op, N
  <2> QED
    BY <1>1, <1>2, <2>2, <2>4, <2>5, <2>6 DEF IsWalk
<1> HIDE DEF after, e, at, op, N
<1>9. after[N] = FlattenSeq(out)
  BY <1>7, <1>8, WalkMakes
<1> QED
  BY <1>9 DEF after, o, N, LastLineUp

\* Two scripts that touch no line in common, one after the other.
LEMMA BothScripts ==
    ASSUME NEW Y, NEW c \in Seq(Y), NEW d \in Seq(Y),
           NEW TL \in SUBSET Nat, NEW TR \in SUBSET Nat, TL \cap TR = {},
           NEW BL \in SUBSET TL, NEW BR \in SUBSET TR, NEW xl, NEW xr, NEW x,
           \A i \in BL : x[i] = xl[i], \A i \in BR : x[i] = xr[i],
           IsScript(c, TL, BL, xl), IsScript(d, TR, BR, xr)
    PROVE  IsScript(c \o d, TL \cup TR, BL \cup BR, x)
<1> DEFINE M == Len(c)
           N == Len(d)
           a == c \o d
           T == TL \cup TR
           B == BL \cup BR
<1>1. M \in Nat /\ N \in Nat /\ DOMAIN c = 1 .. M /\ DOMAIN d = 1 .. N
  BY LenProperties
<1>2. Len(a) = M + N /\ \A j \in 1 .. M + N : a[j] = IF j <= M THEN c[j] ELSE d[j - M]
  BY ConcatProperties
<1>3. a \in Seq(Y)
  BY ConcatProperties
<1>4. DOMAIN a = 1 .. M + N /\ Len(a) \in Nat
  BY <1>1, <1>2, <1>3, LenProperties
<1>5. \A k \in 1 .. M : a[k] = c[k] /\ k \in 1 .. M + N
  BY <1>1, <1>2
<1>6. \A k \in 1 .. N : a[M + k] = d[k] /\ M + k \in 1 .. M + N
  <2> TAKE k \in 1 .. N
  <2> HIDE DEF a, M, N
  <2>1. M + k \in 1 .. M + N /\ ~(M + k <= M) /\ M + k - M = k
    BY <1>1
  <2> DEFINE j == M + k
  <2>2. j \in 1 .. M + N /\ ~(j <= M) /\ j - M = k
    BY <1>1, <2>1
  <2> HIDE DEF j
  <2>3. a[j] = d[k]
    BY <1>2, <2>2
  <2> QED
    BY <2>1, <2>3 DEF j
<1>7. \A k \in 1 .. M + N : (k \in 1 .. M) \/ (k - M \in 1 .. N /\ k = M + (k - M))
  BY <1>1
<1> HIDE DEF a, M, N
<1>8. ASSUME NEW k \in 1 .. M PROVE \E i \in TL : IsEdit(c[k], i, BL, xl)
  BY <1>1 DEF IsScript
<1>9. ASSUME NEW k \in 1 .. N PROVE \E i \in TR : IsEdit(d[k], i, BR, xr)
  BY <1>1 DEF IsScript
<1>10. ASSUME NEW k \in 1 .. M PROVE \E i \in TL : IsEdit(a[k], i, B, x)
  <2>1. PICK i \in TL : IsEdit(c[k], i, BL, xl)
    BY <1>8
  <2>2. IsEdit(c[k], i, B, x)
    BY <2>1 DEF IsEdit
  <2> QED
    BY <1>5, <2>2
<1>11. ASSUME NEW k \in 1 .. N PROVE \E i \in TR : IsEdit(a[M + k], i, B, x)
  <2>1. PICK i \in TR : IsEdit(d[k], i, BR, xr)
    BY <1>9
  <2>2. IsEdit(d[k], i, B, x)
    BY <2>1 DEF IsEdit
  <2> QED
    BY <1>6, <2>2
<1>12. \A k \in 1 .. M + N : \E i \in T : IsEdit(a[k], i, B, x)
  <2> TAKE k \in 1 .. M + N
  <2>1. CASE k \in 1 .. M
    BY <1>10, <2>1
  <2>2. CASE k - M \in 1 .. N /\ k = M + (k - M)
    <3> DEFINE j == k - M
    <3>1. j \in 1 .. N /\ k = M + j
      BY <2>2
    <3> HIDE DEF j
    <3>2. \E i \in TR : IsEdit(a[M + j], i, B, x)
      BY <1>11, <3>1
    <3> QED
      BY <3>1, <3>2
  <2> QED
    BY <1>7, <2>1, <2>2
<1>13. ASSUME NEW i \in T
       PROVE  \E k \in 1 .. M + N : a[k].line = i - 1 /\ a[k].op = "delete"
  <2>1. CASE i \in TL
    <3>1. PICK k \in 1 .. M : c[k].line = i - 1 /\ c[k].op = "delete"
      BY <1>1, <2>1 DEF IsScript
    <3> QED
      BY <1>5, <3>1
  <2>2. CASE i \in TR
    <3>1. PICK k \in 1 .. N : d[k].line = i - 1 /\ d[k].op = "delete"
      BY <1>1, <2>2 DEF IsScript
    <3> QED
      BY <1>6, <3>1
  <2> QED
    BY <2>1, <2>2
<1>14. ASSUME NEW i \in B
       PROVE  \E k \in 1 .. M + N : a[k].line = i - 1 /\ a[k].op = "insert"
  <2>1. CASE i \in BL
    <3>1. PICK k \in 1 .. M : c[k].line = i - 1 /\ c[k].op = "insert"
      BY <1>1, <2>1 DEF IsScript
    <3> QED
      BY <1>5, <3>1
  <2>2. CASE i \in BR
    <3>1. PICK k \in 1 .. N : d[k].line = i - 1 /\ d[k].op = "insert"
      BY <1>1, <2>2 DEF IsScript
    <3> QED
      BY <1>6, <3>1
  <2> QED
    BY <2>1, <2>2
<1>15. ASSUME NEW j \in 1 .. M, NEW k \in 1 .. N, c[j].line = d[k].line PROVE FALSE
  <2>1. PICK p \in TL : c[j].line = p - 1
    BY <1>8 DEF IsEdit
  <2>2. PICK q \in TR : d[k].line = q - 1
    BY <1>9 DEF IsEdit
  <2>3. p \in Nat /\ q \in Nat
    OBVIOUS
  <2>4. p - 1 = q - 1
    BY <1>15, <2>1, <2>2
  <2>5. p = q
    BY <2>3, <2>4
  <2> QED
    BY <2>5
<1>16. ASSUME NEW j \in 1 .. M + N, NEW k \in 1 .. M + N, j < k, a[j].line = a[k].line
       PROVE  a[j].op = "delete" /\ a[k].op = "insert"
  <2> DEFINE p == j - M
             q == k - M
  <2>1. (j \in 1 .. M) \/ (p \in 1 .. N /\ j = M + p)
    BY <1>7
  <2>2. (k \in 1 .. M) \/ (q \in 1 .. N /\ k = M + q)
    BY <1>7
  <2>3. (j \in 1 .. M => a[j] = c[j]) /\ (k \in 1 .. M => a[k] = c[k])
    BY <1>5
  <2>4. p \in 1 .. N => a[M + p] = d[p]
    <3> HIDE DEF p
    <3> QED
      BY <1>6
  <2>5. q \in 1 .. N => a[M + q] = d[q]
    <3> HIDE DEF q
    <3> QED
      BY <1>6
  <2>6. p < q
    BY <1>1, <1>16
  <2>7. CASE j \in 1 .. M /\ k \in 1 .. M
    <3>1. \A e, f \in 1 .. M : e < f /\ c[e].line = c[f].line =>
             c[e].op = "delete" /\ c[f].op = "insert"
      BY <1>1 DEF IsScript
    <3>2. a[j] = c[j] /\ a[k] = c[k]
      BY <2>3, <2>7
    <3> QED
      BY <1>16, <2>7, <3>1, <3>2
  <2> HIDE DEF p, q
  <2>8. CASE p \in 1 .. N /\ j = M + p /\ q \in 1 .. N /\ k = M + q
    <3>1. a[j] = d[p] /\ a[k] = d[q]
      BY <2>4, <2>5, <2>8
    <3>2. d[p].line = d[q].line
      BY <1>16, <3>1
    <3>3. d[p].op = "delete" /\ d[q].op = "insert"
      BY <1>1, <2>6, <2>8, <3>2 DEF IsScript
    <3> QED
      BY <3>1, <3>3
  <2>9. CASE j \in 1 .. M /\ q \in 1 .. N /\ k = M + q
    BY <1>15, <1>16, <2>3, <2>5, <2>9
  <2>10. CASE p \in 1 .. N /\ j = M + p /\ k \in 1 .. M
    <3>1. c[k].line = d[p].line
      BY <1>16, <2>3, <2>4, <2>10
    <3> QED
      BY <1>15, <2>10, <3>1
  <2> QED
    BY <2>1, <2>2, <2>7, <2>8, <2>9, <2>10
<1>17. IsScript(a, T, B, x)
  <2>1. \A e, f \in 1 .. M + N : e < f /\ a[e].line = a[f].line =>
             a[e].op = "delete" /\ a[f].op = "insert"
    BY <1>16
  <2>2. Len(a) = M + N
    BY <1>2
  <2> DEFINE D == DOMAIN a
  <2>3. D = 1 .. M + N /\ D = 1 .. Len(a)
    BY <1>4, <2>2
  <2>4. \A k \in D : \E i \in T : IsEdit(a[k], i, B, x)
    BY <1>12, <2>3
  <2>5. \A i \in T : \E k \in D : a[k].line = i - 1 /\ a[k].op = "delete"
    BY <1>13, <2>3
  <2>6. \A i \in B : \E k \in D : a[k].line = i - 1 /\ a[k].op = "insert"
    BY <1>14, <2>3
  <2>7. \A e, f \in D : e < f /\ a[e].line = a[f].line =>
             a[e].op = "delete" /\ a[f].op = "insert"
    BY <2>1, <2>3
  <2>8. Len(a) \in Nat /\ DOMAIN a = 1 .. Len(a)
    BY <1>4, <2>2
  <2> HIDE DEF T, B
  <2> QED
    BY <2>4, <2>5, <2>6, <2>7, <2>8 DEF IsScript
<1> QED
  BY <1>17 DEF a

-----------------------------------------------------------------------------
(* Lines deleted.                                                          *)

\* A text with some of its lines left, each paired with where it is then.
LEMMA LinesLeft ==
    ASSUME NEW X, NEW b \in Seq(X), NEW K \in SUBSET (1 .. Len(b)), NEW s,
           NEW out \in [1 .. Len(b) -> Seq(X)],
           \A i \in 1 .. Len(b) : out[i] = IF i \in K THEN <<b[i]>> ELSE <<>>,
           s = FlattenSeq(out)
    PROVE  \E c \in SUBSET Equals(b, s) : Pairs(c, K, DOMAIN s)
<1> DEFINE L == Len(b)
<1>1. L \in Nat /\ DOMAIN b = 1 .. L
  BY LenProperties
<1>2. \A i \in 1 .. L : b[i] \in X
  BY ElementOfSeq
<1>3. out \in [1 .. L -> Seq(X)]
  OBVIOUS
<1>4. PICK F \in [0 .. L -> Seq(X)] :
         /\ F[0] = <<>> /\ \A k \in 1 .. L : F[k] = F[k - 1] \o out[k]
         /\ s = F[L]
  <2> HIDE DEF L
  <2>1. \E F \in [0 .. L -> Seq(X)] :
           /\ F[0] = <<>> /\ \A k \in 1 .. L : F[k] = F[k - 1] \o out[k]
           /\ FlattenSeq(out) = F[L]
    BY <1>1, <1>3, FlattenIs
  <2> QED
    BY <2>1
<1> DEFINE g == [n \in 0 .. L |-> Len(F[n])]
<1>5. \A n \in 0 .. L : g[n] = Len(F[n]) /\ g[n] \in Nat /\ F[n] \in Seq(X)
  BY LenProperties
<1>6. g[0] = 0
  BY <1>1, <1>4
<1> HIDE DEF g
<1>7. ASSUME NEW k \in 1 .. L
      PROVE  /\ k - 1 \in 0 .. L /\ k \in 0 .. L
             /\ g[k] = IF k \in K THEN g[k - 1] + 1 ELSE g[k - 1]
             /\ \A j \in 1 .. g[k - 1] : F[k][j] = F[k - 1][j]
             /\ k \in K => F[k][g[k]] = b[k]
  <2>1. k - 1 \in 0 .. L /\ k \in 0 .. L
    BY <1>1
  <2> DEFINE q == F[k - 1]
             m == g[k - 1]
             r == F[k]
  <2>2. q \in Seq(X) /\ m = Len(q) /\ m \in Nat
    BY <1>5, <2>1
  <2>3. r = q \o out[k] /\ g[k] = Len(r)
    BY <1>4, <1>5, <2>1
  <2>4. CASE k \in K
    <3> DEFINE z == b[k]
               y == <<z>>
    <3>1. y \in Seq(X) /\ Len(y) = 1 /\ y[1] = z
      BY <1>2
    <3>2. r = q \o y
      BY <2>3, <2>4
    <3> HIDE DEF q, m, r, y, z
    <3>3. Len(r) = m + 1 /\ \A j \in 1 .. m + 1 : r[j] = IF j <= m THEN q[j] ELSE y[j - m]
      <4>1. /\ Len(q \o y) = Len(q) + Len(y)
            /\ \A j \in 1 .. Len(q) + Len(y) :
                  (q \o y)[j] = IF j <= Len(q) THEN q[j] ELSE y[j - Len(q)]
        BY <2>2, <3>1, ConcatProperties
      <4> QED
        BY <2>2, <3>1, <3>2, <4>1
    <3>4. \A j \in 1 .. m : r[j] = q[j]
      BY <2>2, <3>3
    <3>5. r[m + 1] = z
      <4>1. m + 1 \in 1 .. m + 1 /\ ~(m + 1 <= m) /\ m + 1 - m = 1
        BY <2>2
      <4> DEFINE j == m + 1
      <4>2. j \in 1 .. m + 1 /\ ~(j <= m) /\ j - m = 1
        BY <2>2, <4>1
      <4> HIDE DEF j
      <4>3. r[j] = y[1]
        BY <3>3, <4>2
      <4> QED
        BY <3>1, <4>3 DEF j
    <3>6. g[k] = m + 1
      BY <2>3, <3>3
    <3> QED
      BY <2>1, <2>4, <3>4, <3>5, <3>6 DEF q, m, r, z
  <2>5. CASE k \notin K
    <3>1. out[k] = <<>>
      BY <2>5
    <3>2. r = q
      <4> HIDE DEF q, r, m
      <4> QED
        BY <2>2, <2>3, <3>1, ConcatEmptySeq
    <3> QED
      BY <2>1, <2>2, <2>3, <2>5, <3>2
  <2> QED
    BY <2>4, <2>5
<1> HIDE DEF L
<1>8. ASSUME NEW m \in 0 .. L, NEW n \in 0 .. L, m <= n
      PROVE  g[m] <= g[n] /\ \A j \in 1 .. g[m] : F[n][j] = F[m][j]
  <2> DEFINE Prefix(k) == g[m] <= g[k] /\ \A j \in 1 .. g[m] : F[k][j] = F[m][j]
             W == {k \in 0 .. L : m <= k /\ ~Prefix(k)}
  <2>1. W = {}
    <3> SUFFICES ASSUME W # {} PROVE FALSE
      OBVIOUS
    <3>1. W \in SUBSET Nat
      BY <1>1
    <3>2. PICK k \in W : \A j \in W : k <= j
      <4> HIDE DEF W
      <4> QED
        BY <3>1, LeastNumber
    <3>3. k \in 0 .. L /\ m <= k /\ ~Prefix(k)
      BY <3>2
    <3>4. k # m
      <4>1. Prefix(m)
        BY <1>5
      <4> HIDE DEF Prefix
      <4> QED
        BY <3>3, <4>1
    <3> DEFINE p == k - 1
    <3>5. k \in 1 .. L /\ p \in 0 .. L /\ m <= p /\ ~(k <= p)
      BY <1>1, <3>3, <3>4
    <3>6. Prefix(p)
      <4>1. p \notin W
        <5> HIDE DEF p, W
        <5> QED
          BY <3>2, <3>5
      <4> HIDE DEF p, Prefix
      <4> QED
        BY <3>5, <4>1
    <3>7. /\ g[k] = IF k \in K THEN g[p] + 1 ELSE g[p]
          /\ \A j \in 1 .. g[p] : F[k][j] = F[p][j]
      BY <1>7, <3>5
    <3>8. g[p] \in Nat /\ g[m] \in Nat /\ g[k] \in Nat
      <4> HIDE DEF p
      <4> QED
        BY <1>5, <3>3, <3>5
    <3> HIDE DEF p
    <3>9. Prefix(k)
      <4>1. \A j \in 1 .. g[m] : j \in 1 .. g[p]
        BY <3>6, <3>8
      <4> QED
        BY <3>6, <3>7, <3>8, <4>1
    <3> QED
      BY <3>3, <3>9
  <2> HIDE DEF Prefix
  <2>2. Prefix(n)
    BY <1>8, <2>1
  <2> QED
    BY <2>2 DEF Prefix
<1>9. L \in 0 .. L /\ s \in Seq(X) /\ g[L] = Len(s) /\ DOMAIN s = 1 .. g[L]
  <2>1. L \in 0 .. L
    BY <1>1
  <2>2. s \in Seq(X) /\ g[L] = Len(s)
    BY <1>4, <1>5, <2>1
  <2> QED
    BY <2>1, <2>2, LenProperties
<1>10. ASSUME NEW i \in K PROVE g[i] \in 1 .. g[L] /\ s[g[i]] = b[i]
  <2>1. i \in 1 .. L /\ i \in 0 .. L /\ i <= L
    BY <1>1 DEF L
  <2>2. g[i] = g[i - 1] + 1 /\ F[i][g[i]] = b[i] /\ i - 1 \in 0 .. L
    BY <1>7, <2>1
  <2>3. g[i] \in 1 .. g[i]
    BY <1>5, <2>1, <2>2
  <2>4. g[i] <= g[L] /\ F[L][g[i]] = F[i][g[i]]
    BY <1>8, <1>9, <2>1, <2>3
  <2>5. g[L] \in Nat /\ g[i] \in Nat
    BY <1>5, <1>9, <2>1
  <2> QED
    BY <1>4, <2>2, <2>3, <2>4, <2>5
<1>11. ASSUME NEW i \in K, NEW k \in K, i < k PROVE g[i] < g[k]
  <2>1. i \in 0 .. L /\ k \in 1 .. L /\ i <= k - 1 /\ k - 1 \in 0 .. L
    BY <1>1, <1>11 DEF L
  <2>2. g[k] = g[k - 1] + 1
    BY <1>7, <2>1
  <2> DEFINE p == k - 1
  <2>3. g[i] <= g[p]
    <3>1. p \in 0 .. L /\ i <= p
      BY <2>1
    <3> HIDE DEF p
    <3> QED
      BY <1>8, <2>1, <3>1
  <2>4. g[i] \in Nat /\ g[p] \in Nat
    BY <1>5, <2>1
  <2> QED
    BY <2>2, <2>3, <2>4
<1>12. ASSUME NEW j \in 1 .. g[L] PROVE \E i \in K : g[i] = j
  <2> DEFINE W == {n \in 0 .. L : j <= g[n]}
  <2>0. j \in Nat /\ j >= 1
    BY <1>5, <1>9
  <2>1. W \in SUBSET Nat /\ W # {}
    <3>1. j <= g[L]
      BY <1>5, <1>9
    <3>2. L \in W
      BY <1>9, <3>1
    <3>3. W \subseteq Nat
      BY <1>1
    <3> HIDE DEF W
    <3> QED
      BY <3>2, <3>3
  <2>2. PICK n \in W : \A m \in W : n <= m
    <3> HIDE DEF W
    <3> QED
      BY <2>1, LeastNumber
  <2>3. n \in 0 .. L /\ j <= g[n]
    BY <2>2
  <2>4. n # 0
    BY <1>6, <2>0, <2>3
  <2> DEFINE p == n - 1
  <2>5. n \in 1 .. L /\ p \in 0 .. L /\ ~(n <= p)
    BY <1>1, <2>3, <2>4
  <2>6. ~(j <= g[p])
    <3>1. p \notin W
      <4> HIDE DEF p, W
      <4> QED
        BY <2>2, <2>5
    <3> HIDE DEF p
    <3> QED
      BY <2>5, <3>1
  <2>7. g[n] = IF n \in K THEN g[p] + 1 ELSE g[p]
    BY <1>7, <2>5
  <2>8. g[n] \in Nat /\ g[p] \in Nat
    <3> HIDE DEF p
    <3> QED
      BY <1>5, <2>3, <2>5
  <2> HIDE DEF p
  <2>9. n \in K /\ g[n] = j
    BY <2>0, <2>3, <2>6, <2>7, <2>8
  <2> QED
    BY <2>9
<1> DEFINE c == {<<i, g[i]>> : i \in K}
<1>13. c \in SUBSET Equals(b, s)
  <2> SUFFICES ASSUME NEW i \in K PROVE <<i, g[i]>> \in Equals(b, s)
    OBVIOUS
  <2>1. i \in DOMAIN b /\ g[i] \in DOMAIN s /\ b[i] = s[g[i]]
    BY <1>1, <1>9, <1>10 DEF L
  <2> QED
    BY <2>1 DEF Equals
<1>14. IsChain(c)
  <2> SUFFICES ASSUME NEW i \in K, NEW k \in K
               PROVE  \/ i < k /\ g[i] < g[k]
                      \/ i = k
                      \/ i > k /\ g[i] > g[k]
    BY DEF IsChain
  <2>1. i \in Nat /\ k \in Nat /\ g[i] \in Nat /\ g[k] \in Nat
    BY <1>1, <1>5 DEF L
  <2> QED
    BY <1>11, <2>1
<1>15. Pairs(c, K, DOMAIN s)
  <2>1. c \in SUBSET (K \X DOMAIN s)
    BY <1>9, <1>10
  <2>2. ASSUME NEW i \in K PROVE \E p \in c : p[1] = i /\ p[2] = g[i]
    <3> DEFINE q == <<i, g[i]>>
    <3>1. q \in c /\ q[1] = i /\ q[2] = g[i]
      OBVIOUS
    <3> HIDE DEF c, q
    <3> QED
      BY <3>1
  <2>3. ASSUME NEW j \in DOMAIN s PROVE \E p \in c : p[2] = j
    <3>1. PICK i \in K : g[i] = j
      BY <1>9, <1>12
    <3> HIDE DEF c
    <3> QED
      BY <2>2, <3>1
  <2> HIDE DEF c
  <2> QED
    BY <1>14, <2>1, <2>2, <2>3 DEF Pairs
<1> QED
  BY <1>13, <1>15

-----------------------------------------------------------------------------
(* One side.                                                               *)

\* A script has the numbers of the lines that it touches.
LEMMA ScriptLines ==
    ASSUME NEW d, NEW T \in SUBSET Nat, NEW B, NEW x, IsScript(d, T, B, x)
    PROVE  LinesOf(d) = {i - 1 : i \in T}
<1>1. ToSet(d) = {d[n] : n \in DOMAIN d}
  BY DEF ToSet
<1>2. LinesOf(d) = {d[n].line : n \in DOMAIN d}
  BY <1>1 DEF LinesOf
<1>3. \A n \in DOMAIN d : \E i \in T : d[n].line = i - 1
  BY DEF IsScript, IsEdit
<1>4. \A i \in T : \E n \in DOMAIN d : d[n].line = i - 1
  BY DEF IsScript
<1> QED
  BY <1>2, <1>3, <1>4

LEMMA DiffIsSeq ==
    ASSUME NEW a, NEW b, NEW c, Len(DiffText(a, b, c)) \in Nat,
           DOMAIN DiffText(a, b, c) = 1 .. Len(DiffText(a, b, c))
    PROVE  \E Y : DiffText(a, b, c) \in Seq(Y)
<1> DEFINE d == DiffText(a, b, c)
           N == Len(d)
           Y == {d[n] : n \in 1 .. N}
<1>1. d = [n \in DOMAIN d |-> d[n]]
  <2>1. \E S, R : d = InOrder(S, R)
    BY DEF DiffText
  <2>2. PICK S, R : d = InOrder(S, R)
    BY <2>1
  <2> DEFINE C == Cardinality(S)
             at(n) == CHOOSE y \in S : Cardinality({z \in S : <<z, y>> \in R}) = n - 1
  <2>3. d = [n \in 1 .. C |-> at(n)]
    BY <2>2 DEF InOrder
  <2> HIDE DEF d, C, at
  <2> QED
    BY <2>3
<1> HIDE DEF d
<1>2. N \in Nat /\ DOMAIN d = 1 .. N
  BY DEF d
<1>3. d \in [1 .. N -> Y]
  BY <1>1, <1>2
<1>4. d \in Seq(Y)
  <2> HIDE DEF N, Y
  <2> QED
    BY <1>2, <1>3
<1> QED
  BY <1>4 DEF d

\* The diff with a side that replaces lines in place or deletes lines.
LEMMA SideIs ==
    ASSUME NEW X, NEW b \in Seq(X), NEW s \in Seq(X), InPlace(b, s),
           NEW c \in Alignments(b, s)
    PROVE  \E B \in SUBSET Touched(b, s) :
              /\ IsScript(DiffText(b, s, c), Touched(b, s), B, s)
              /\ B \subseteq DOMAIN s
              /\ \A i \in Touched(b, s) :
                    LineAfter(b, s, i) = IF i \in B THEN <<s[i]>> ELSE <<>>
<1> DEFINE T == Touched(b, s)
           D == DOMAIN b
           K == D \ T
           J == DOMAIN s
<1>1. Len(b) \in Nat /\ Len(s) \in Nat /\ D = 1 .. Len(b) /\ J = 1 .. Len(s)
  BY LenProperties
<1>2. IsFiniteSet(D) /\ IsFiniteSet(J) /\ D \in SUBSET Nat /\ J \in SUBSET Nat
  <2>1. IsFiniteSet(1 .. Len(b)) /\ IsFiniteSet(1 .. Len(s))
    BY <1>1, FS_Interval
  <2> HIDE DEF D, J
  <2> QED
    BY <1>1, <2>1
<1>3. T \subseteq D /\ K \subseteq D
  BY DEF Touched
<1>4. \A i \in D, j \in J : b[i] = s[j] => i \notin T
  <2>1. \A j \in J : s[j] \in ToSet(s)
    BY DEF ToSet
  <2>2. \A i \in T : b[i] \notin ToSet(s)
    BY DEF InPlace
  <2> QED
    BY <2>1, <2>2
<1>5. \A i \in D : i \in T <=> LineAfter(b, s, i) # <<b[i]>>
  BY DEF Touched
<1>6. CASE Len(s) = Len(b)
  <2>1. J = D
    BY <1>1, <1>6
  <2>2. \A i \in D : LineAfter(b, s, i) = <<s[i]>>
    BY <1>6 DEF LineAfter
  <2>3. \A i \in D : i \in T <=> s[i] # b[i]
    BY <1>5, <2>2
  <2>4. \A i \in D, j \in J : b[i] = s[j] => i \in K /\ j \in K
    <3> SUFFICES ASSUME NEW i \in D, NEW j \in D, b[i] = s[j] PROVE i \in K /\ j \in K
      BY <2>1
    <3>1. i \in K
      BY <1>4, <2>1
    <3>2. ASSUME j \in T PROVE FALSE
      <4>1. ToSet(LineAfter(b, s, j)) \cap ToSet(b) = {}
        BY <3>2 DEF InPlace
      <4>2. s[j] \in ToSet(<<s[j]>>)
        <5>1. 1 \in DOMAIN <<s[j]>> /\ <<s[j]>>[1] = s[j]
          OBVIOUS
        <5> QED
          BY <5>1 DEF ToSet
      <4>3. b[i] \in ToSet(b)
        BY DEF ToSet
      <4> QED
        BY <2>2, <4>1, <4>2, <4>3
    <3> QED
      BY <3>1, <3>2
  <2> DEFINE d == {<<i, i>> : i \in K}
  <2>5. d \in SUBSET Equals(b, s)
    <3> SUFFICES ASSUME NEW i \in K PROVE <<i, i>> \in Equals(b, s)
      OBVIOUS
    <3>1. i \in D /\ i \in J /\ b[i] = s[i]
      BY <2>1, <2>3
    <3> QED
      BY <3>1 DEF Equals
  <2>6. Pairs(d, K, K)
    <3>1. d \in SUBSET (K \X K)
      OBVIOUS
    <3>2. IsChain(d)
      <4> SUFFICES ASSUME NEW i \in K, NEW k \in K
                   PROVE  (i < k /\ i < k) \/ i = k \/ (i > k /\ i > k)
        BY DEF IsChain
      <4>1. i \in Nat /\ k \in Nat
        BY <1>2
      <4> QED
        BY <4>1
    <3>3. ASSUME NEW i \in K PROVE \E p \in d : p[1] = i /\ p[2] = i
      <4> DEFINE q == <<i, i>>
      <4>1. q \in d /\ q[1] = i /\ q[2] = i
        OBVIOUS
      <4> HIDE DEF d, q
      <4> QED
        BY <4>1
    <3> HIDE DEF d, K
    <3> QED
      BY <3>1, <3>2, <3>3 DEF Pairs
  <2>7. Pairs(c, K, K)
    <3>1. K \in SUBSET Nat /\ K \subseteq D /\ K \subseteq J
      BY <1>2, <2>1
    <3> HIDE DEF d, K, T
    <3> QED
      BY <1>2, <2>4, <2>5, <2>6, <3>1, AlignedPairs
  <2>8. IsScript(DiffText(b, s, c), T, T, s)
    <3>1. K = D \ T /\ K = J \ T /\ K \in SUBSET Nat /\ IsFiniteSet(K)
      BY <1>2, <2>1, FS_Difference
    <3>2. \A i \in T : Cardinality({p \in c : p[1] < i}) = Cardinality({p \in c : p[2] < i})
      <4>1. \A i \in T : i \in Nat
        BY <1>2, <1>3
      <4> HIDE DEF K, T
      <4> QED
        BY <2>7, <3>1, <4>1, SameGap
    <3>3. T \in SUBSET D /\ T \subseteq J
      BY <1>3, <2>1
    <3>4. Pairs(c, D \ T, J \ T)
      BY <2>1, <2>7
    <3> HIDE DEF K, T
    <3> QED
      BY <1>2, <3>2, <3>3, <3>4, DiffIsScript
  <2>9. T \subseteq J /\ \A i \in T : LineAfter(b, s, i) = <<s[i]>>
    BY <1>3, <2>1, <2>2
  <2> QED
    BY <2>8, <2>9
<1>7. CASE Len(s) # Len(b)
  <2>1. \A i \in D : LineAfter(b, s, i) = IF b[i] \in ToSet(s) THEN <<b[i]>> ELSE <<>>
    BY <1>7 DEF LineAfter
  <2>2. \A i \in D : i \in T <=> b[i] \notin ToSet(s)
    <3> TAKE i \in D
    <3>1. <<>> # <<b[i]>>
      OBVIOUS
    <3> QED
      BY <1>5, <2>1, <3>1
  <2> DEFINE out == [i \in D |-> LineAfter(b, s, i)]
  <2>3. /\ out \in [1 .. Len(b) -> Seq(X)]
        /\ \A i \in 1 .. Len(b) : out[i] = IF i \in K THEN <<b[i]>> ELSE <<>>
        /\ s = FlattenSeq(out)
    <3>1. \A i \in D : out[i] = IF i \in K THEN <<b[i]>> ELSE <<>>
      <4> TAKE i \in D
      <4>1. out[i] = LineAfter(b, s, i)
        OBVIOUS
      <4> HIDE DEF out, T
      <4> QED
        BY <2>1, <2>2, <4>1
    <3>2. \A i \in D : out[i] \in Seq(X)
      <4>1. \A i \in D : b[i] \in X
        BY <1>1, ElementOfSeq
      <4> HIDE DEF out, K, D
      <4> TAKE i \in D
      <4>2. <<b[i]>> \in Seq(X)
        BY <4>1
      <4>3. <<>> \in Seq(X)
        OBVIOUS
      <4> QED
        BY <3>1, <4>2, <4>3
    <3>3. out \in [D -> Seq(X)]
      BY <3>2
    <3>4. s = FlattenSeq(out)
      BY DEF InPlace
    <3> HIDE DEF out
    <3> QED
      BY <1>1, <3>1, <3>3, <3>4
  <2>4. PICK d \in SUBSET Equals(b, s) : Pairs(d, K, J)
    <3>1. K \in SUBSET (1 .. Len(b))
      BY <1>1
    <3> HIDE DEF out, K, J
    <3>2. \E d \in SUBSET Equals(b, s) : Pairs(d, K, DOMAIN s)
      BY <2>3, <3>1, LinesLeft
    <3> QED
      BY <3>2 DEF J
  <2> HIDE DEF out
  <2>5. Pairs(c, K, J)
    <3>1. K \in SUBSET Nat /\ K \subseteq D
      BY <1>2
    <3>2. \A i \in D, j \in J : b[i] = s[j] => i \in K /\ j \in J
      BY <1>4
    <3> HIDE DEF K, T
    <3> QED
      BY <1>2, <2>4, <3>1, <3>2, AlignedPairs
  <2>6. IsScript(DiffText(b, s, c), T, {}, s)
    <3>1. Pairs(c, D \ T, J \ {})
      BY <2>5
    <3>2. {} \in SUBSET T /\ T \in SUBSET D
      BY <1>3
    <3> HIDE DEF T
    <3> QED
      BY <1>2, <3>1, <3>2, DiffIsScript
  <2>7. \A i \in T : LineAfter(b, s, i) = <<>>
    BY <1>3, <2>1, <2>2
  <2> QED
    BY <2>6, <2>7
<1> QED
  BY <1>6, <1>7

-----------------------------------------------------------------------------
(* Both sides.                                                             *)

\* What LinesMerge promises of a text.
LinesMerged(b, l, r) ==
    FlattenSeq([i \in DOMAIN b |-> LineAfter(b, IF i \in Touched(b, l) THEN l ELSE r, i)])

\* Two such sides merge line by line, or conflict where both touched a line.
LEMMA TextsMerge ==
    ASSUME NEW X, NEW b \in Seq(X), NEW l \in Seq(X), NEW r \in Seq(X),
           InPlace(b, l), InPlace(b, r), b # l, b # r, l # r,
           NEW cl \in Alignments(b, l), NEW cr \in Alignments(b, r)
    PROVE  MergeText(b, l, r, cl, cr) =
              IF Touched(b, l) \cap Touched(b, r) # {} THEN {} ELSE {LinesMerged(b, l, r)}
<1> DEFINE D == DOMAIN b
           TL == Touched(b, l)
           TR == Touched(b, r)
           ours == DiffText(b, l, cl)
           theirs == DiffText(b, r, cr)
<1>1. Len(b) \in Nat /\ D = 1 .. Len(b)
  BY LenProperties
<1>2. PICK BL \in SUBSET TL :
         /\ IsScript(ours, TL, BL, l)
         /\ BL \subseteq DOMAIN l
         /\ \A i \in TL : LineAfter(b, l, i) = IF i \in BL THEN <<l[i]>> ELSE <<>>
  <2> HIDE DEF D, ours
  <2> QED
    BY SideIs DEF ours
<1>3. PICK BR \in SUBSET TR :
         /\ IsScript(theirs, TR, BR, r)
         /\ BR \subseteq DOMAIN r
         /\ \A i \in TR : LineAfter(b, r, i) = IF i \in BR THEN <<r[i]>> ELSE <<>>
  <2> HIDE DEF D, theirs
  <2> QED
    BY SideIs DEF theirs
<1>4. TL \subseteq D /\ TR \subseteq D /\ TL \in SUBSET Nat /\ TR \in SUBSET Nat
  BY <1>1 DEF Touched
<1> HIDE DEF ours, theirs, D
<1>5. LinesOf(ours) = {i - 1 : i \in TL} /\ LinesOf(theirs) = {i - 1 : i \in TR}
  <2> HIDE DEF TL, TR
  <2> QED
    BY <1>2, <1>3, <1>4, ScriptLines
<1>6. LinesOf(ours) \cap LinesOf(theirs) # {} <=> TL \cap TR # {}
  <2>1. ASSUME NEW i \in TL, NEW j \in TR, i - 1 = j - 1 PROVE i = j
    <3>1. i \in Nat /\ j \in Nat
      BY <1>4
    <3> QED
      BY <2>1, <3>1
  <2> HIDE DEF TL, TR
  <2>2. ASSUME LinesOf(ours) \cap LinesOf(theirs) # {} PROVE TL \cap TR # {}
    <3>1. PICK n : n \in LinesOf(ours) /\ n \in LinesOf(theirs)
      BY <2>2
    <3>2. PICK i \in TL : n = i - 1
      BY <1>5, <3>1
    <3>3. PICK j \in TR : n = j - 1
      BY <1>5, <3>1
    <3>4. i = j
      BY <2>1, <3>2, <3>3
    <3> QED
      BY <3>4
  <2>3. ASSUME TL \cap TR # {} PROVE LinesOf(ours) \cap LinesOf(theirs) # {}
    <3>1. PICK i : i \in TL /\ i \in TR
      BY <2>3
    <3>2. i - 1 \in LinesOf(ours) /\ i - 1 \in LinesOf(theirs)
      BY <1>5, <3>1
    <3> QED
      BY <3>2
  <2> QED
    BY <2>2, <2>3
<1>7. MergeText(b, l, r, cl, cr) =
         IF TL \cap TR # {} THEN {} ELSE {ApplyDisjointEdits(b, ours, theirs)}
  <2>1. MergeText(b, l, r, cl, cr) =
           IF LinesOf(ours) \cap LinesOf(theirs) # {} THEN {}
           ELSE {ApplyDisjointEdits(b, ours, theirs)}
    BY DEF MergeText, ours, theirs
  <2> HIDE DEF TL, TR
  <2> QED
    BY <1>6, <2>1
<1>8. ASSUME TL \cap TR = {} PROVE ApplyDisjointEdits(b, ours, theirs) = LinesMerged(b, l, r)
  <2> DEFINE x == [i \in D |-> IF i \in TL THEN l[i] ELSE r[i]]
             out == [i \in D |-> LineAfter(b, IF i \in TL THEN l ELSE r, i)]
             T == TL \cup TR
             B == BL \cup BR
             all == ours \o theirs
  <2>1. \A i \in BL : i \in TL /\ x[i] = l[i] /\ l[i] \in X
    <3> TAKE i \in BL
    <3>1. i \in TL /\ i \in D /\ i \in DOMAIN l
      BY <1>2, <1>4
    <3>2. l[i] \in X
      BY <3>1, ElementOfSeq, LenProperties
    <3> HIDE DEF TL
    <3> QED
      BY <3>1, <3>2
  <2>2. \A i \in BR : i \in TR /\ i \notin TL /\ x[i] = r[i] /\ r[i] \in X
    <3> TAKE i \in BR
    <3>1. i \in TR /\ i \in D /\ i \in DOMAIN r /\ i \notin TL
      BY <1>3, <1>4, <1>8
    <3>2. r[i] \in X
      BY <3>1, ElementOfSeq, LenProperties
    <3> HIDE DEF TL, TR
    <3> QED
      BY <3>1, <3>2
  <2>3. IsScript(all, T, B, x)
    <3>1. \E Y : ours \in Seq(Y)
      BY <1>2, DiffIsSeq DEF IsScript, ours
    <3>2. \E Y : theirs \in Seq(Y)
      BY <1>3, DiffIsSeq DEF IsScript, theirs
    <3>3. PICK Y : ours \in Seq(Y)
      BY <3>1
    <3>4. PICK Z : theirs \in Seq(Z)
      BY <3>2
    <3>5. ours \in Seq(Y \cup Z) /\ theirs \in Seq(Y \cup Z)
      BY <3>3, <3>4
    <3>6. (\A i \in BL : x[i] = l[i]) /\ (\A i \in BR : x[i] = r[i])
      BY <2>1, <2>2
    <3> HIDE DEF x, TL, TR
    <3> QED
      BY <1>2, <1>3, <1>4, <1>8, <3>5, <3>6, BothScripts
  <2>4. IsResult(X, b, T, B, x, out)
    <3>1. T \subseteq 1 .. Len(b) /\ B \subseteq T
      BY <1>1, <1>2, <1>3, <1>4
    <3>2. \A i \in B : x[i] \in X
      BY <2>1, <2>2
    <3>3. ASSUME NEW i \in D
          PROVE  out[i] = IF i \in B THEN <<x[i]>> ELSE IF i \in T THEN <<>> ELSE <<b[i]>>
      <4>1. out[i] = LineAfter(b, IF i \in TL THEN l ELSE r, i)
        OBVIOUS
      <4>2. i \in BL => i \in TL /\ x[i] = l[i]
        BY <2>1
      <4>3. i \in BR => i \in TR /\ i \notin TL /\ x[i] = r[i]
        BY <2>2
      <4>4. i \notin TR => LineAfter(b, r, i) = <<b[i]>>
        BY DEF Touched, D
      <4>5. i \in TL => i \notin TR
        BY <1>8
      <4> HIDE DEF out, x, TL, TR
      <4>6. CASE i \in TL
        BY <1>2, <4>1, <4>2, <4>3, <4>6
      <4>7. CASE i \in TR
        BY <1>3, <4>1, <4>2, <4>3, <4>5, <4>7
      <4>8. CASE i \notin TL /\ i \notin TR
        BY <4>1, <4>2, <4>3, <4>4, <4>8
      <4> QED
        BY <4>6, <4>7, <4>8
    <3>4. \A i \in D : out[i] \in Seq(X)
      <4> TAKE i \in D
      <4>1. b[i] \in X
        BY <1>1, ElementOfSeq
      <4>2. <<b[i]>> \in Seq(X) /\ <<>> \in Seq(X)
        BY <4>1
      <4>3. i \in B => <<x[i]>> \in Seq(X)
        <5> HIDE DEF x, B
        <5> QED
          BY <3>2
      <4> HIDE DEF out, x, B, T
      <4> QED
        BY <3>3, <4>2, <4>3
    <3>5. out \in [1 .. Len(b) -> Seq(X)]
      BY <1>1, <3>4
    <3>6. \A i \in 1 .. Len(b) :
             out[i] = IF i \in B THEN <<x[i]>> ELSE IF i \in T THEN <<>> ELSE <<b[i]>>
      BY <1>1, <3>3
    <3> HIDE DEF out, x, B, T
    <3> QED
      BY <3>1, <3>2, <3>5, <3>6 DEF IsResult
  <2> HIDE DEF x, T, B, all
  <2>5. LastLineUp(b, all) = FlattenSeq(out)
    <3> HIDE DEF out
    <3> QED
      BY <2>3, <2>4, ScriptMakes
  <2>6. ApplyDisjointEdits(b, ours, theirs) = LastLineUp(b, all)
    BY DEF ApplyDisjointEdits, LastLineUp, all
  <2>7. LinesMerged(b, l, r) = FlattenSeq(out)
    BY DEF LinesMerged, D
  <2> HIDE DEF out
  <2> QED
    BY <2>5, <2>6, <2>7
<1> HIDE DEF TL, TR
<1>9. MergeText(b, l, r, cl, cr) =
         IF TL \cap TR # {} THEN {} ELSE {LinesMerged(b, l, r)}
  BY <1>7, <1>8
<1> QED
  BY <1>9 DEF TL, TR

-----------------------------------------------------------------------------
(* Texts in a plan.                                                        *)

\* So do the files, whatever the alignments, and the mode is no matter.
LEMMA TextOutcome ==
    ASSUME NEW b, NEW l, NEW r, IsFile(b), IsFile(l), IsFile(r),
           LinesOnly(b), LinesOnly(l), LinesOnly(r),
           b.kind = "text", l.kind = "text", r.kind = "text",
           OneSide(b, l, r) = {}, MergeModes(b, l, r) # {},
           InPlace(b.lines, l.lines), InPlace(b.lines, r.lines),
           NEW o \in MergeTrackedPath(b, l, r)
    PROVE  IF Touched(b.lines, l.lines) \cap Touched(b.lines, r.lines) # {} THEN o = Conflict
           ELSE o.what = "keep" /\ o.file.lines = LinesMerged(b.lines, l.lines, r.lines)
<1> DEFINE B == b.lines
           L == l.lines
           R == r.lines
           X == ToSet(B) \cup ToSet(L) \cup ToSet(R)
           both == Touched(B, L) \cap Touched(B, R) # {}
           all == LinesMerged(B, L, R)
<1>1. b # NoFile /\ l # NoFile /\ r # NoFile
  BY NoFileIsFile
<1>2. B \in Seq(X) /\ L \in Seq(X) /\ R \in Seq(X)
  <2>1. B \in Seq(ToSet(B)) /\ L \in Seq(ToSet(L)) /\ R \in Seq(ToSet(R))
    BY DEF LinesOnly
  <2> QED
    BY <2>1
<1>3. B # L /\ B # R /\ L # R
  <2>1. ~SemanticEq(l, r) /\ ~SemanticEq(b, r) /\ ~SemanticEq(b, l)
    BY DEF OneSide
  <2>2. Content(l) # Content(r) /\ Content(b) # Content(r) /\ Content(b) # Content(l)
    BY <2>1, SemanticEqIs
  <2>3. /\ b.nodes = l.nodes /\ l.nodes = r.nodes /\ b.root = l.root /\ l.root = r.root
        /\ b.kind = l.kind /\ l.kind = r.kind
    BY DEF LinesOnly
  <2> QED
    BY <2>2, <2>3 DEF Content
<1>4. ASSUME NEW la \in Alignments(B, L), NEW ra \in Alignments(B, R)
      PROVE  MergeText(B, L, R, la, ra) = IF both THEN {} ELSE {all}
  <2> HIDE DEF B, L, R, X
  <2>1. InPlace(B, L) /\ InPlace(B, R)
    BY DEF B, L, R
  <2> QED
    BY <1>2, <1>3, <2>1, TextsMerge
<1>5. ASSUME NEW c \in MergePath(b, l, r)
      PROVE  c = IF both THEN Conflict ELSE Keep(Text(all))
  <2>1. c \in MergeFiles(b, l, r)
    BY <1>1, MergePathIs
  <2>2. Cardinality({b.kind, l.kind, r.kind}) = 1
    <3>1. {b.kind, l.kind, r.kind} = {"text"}
      OBVIOUS
    <3> QED
      BY <3>1, FS_Singleton
  <2>3. c \in MergeLines(b, l, r)
    <3>1. ~(Cardinality({b.kind, l.kind, r.kind}) > 1)
      BY <2>2
    <3>2. c \in (CASE b.kind = "ast"  -> MergeAst(b, l, r)
                   [] b.kind = "text" -> MergeLines(b, l, r)
                   [] OTHER           -> MergeOpaque(b, l, r))
      BY <2>1, <3>1 DEF MergeFiles
    <3> QED
      BY <3>2
  <2>4. PICK la \in Alignments(B, L), ra \in Alignments(B, R) :
            c \in IF MergeText(B, L, R, la, ra) = {} THEN {Conflict}
                  ELSE {Keep(Text(t)) : t \in MergeText(B, L, R, la, ra)}
    BY <2>3 DEF MergeLines
  <2>5. MergeText(B, L, R, la, ra) = IF both THEN {} ELSE {all}
    BY <1>4
  <2> HIDE DEF B, L, R, both, all
  <2> QED
    BY <2>4, <2>5
<1>6. (l.mode = "symlink") = (r.mode = "symlink")
  BY DEF IsFile
<1>7. PICK c \in MergePath(b, l, r) :
          o \in IF c.what # "keep" THEN {c}
                ELSE IF MergeModes(b, l, r) = {} THEN {Conflict}
                ELSE {Keep([c.file EXCEPT !.mode = m]) : m \in MergeModes(b, l, r)}
  BY <1>6 DEF MergeTrackedPath
<1> HIDE DEF B, L, R, both, all
<1>8. CASE both
  <2>1. c = Conflict
    BY <1>5, <1>8
  <2>2. c.what # "keep"
    BY <2>1 DEF Conflict
  <2>3. o = Conflict
    BY <1>7, <2>1, <2>2
  <2> QED
    BY <1>8, <2>3 DEF both, B, L, R
<1>9. CASE ~both
  <2>1. c = Keep(Text(all))
    BY <1>5, <1>9
  <2>2. c.what = "keep" /\ c.file = Text(all)
    BY <2>1, KeepIs
  <2>3. PICK m \in MergeModes(b, l, r) : o = Keep([Text(all) EXCEPT !.mode = m])
    BY <1>7, <2>2
  <2> DEFINE f == [Text(all) EXCEPT !.mode = m]
  <2>4. f.lines = all
    BY DEF Text, File
  <2>5. o = Keep(f)
    BY <2>3
  <2> HIDE DEF f
  <2>6. o.what = "keep" /\ o.file.lines = all
    BY <2>4, <2>5, KeepIs
  <2> QED
    BY <1>9, <2>6 DEF both, all, B, L, R
<1> QED
  BY <1>8, <1>9

\* All sides have a text at the path, with edits that LinesMerge speaks of.
EditedText(p) ==
    /\ Diverged(p, "text")
    /\ InPlace(job.base[p].lines, job.left[p].lines)
    /\ InPlace(job.base[p].lines, job.right[p].lines)

\* The plan has of the path what LinesMerge promises.
TextPlanned(p) ==
    LET b == job.base[p].lines
        l == job.left[p].lines
        r == job.right[p].lines
    IN  IF Touched(b, l) \cap Touched(b, r) # {} THEN p \in conflicts
        ELSE p \notin conflicts /\ merged[p].lines = LinesMerged(b, l, r)

\* No conflict before the path is visited, and then what it should be.
TextsPlanned ==
    /\ stage = "renames" => conflicts = {}
    /\ stage \in {"base", "rest"} => \A p \in Path : EditedText(p) =>
          IF p \in todo THEN p \notin conflicts ELSE TextPlanned(p)

\* The outcome at such a path, from its own three files.
LEMMA EditedOutcome ==
    ASSUME PlanTyped, NEW p \in Path, EditedText(p), p \notin conflicts, job' = job,
           NEW o \in MergeTrackedPath(job.base[p], job.left[p], job.right[p]), Settle(p, o)
    PROVE  TextPlanned(p)'
<1> DEFINE b == job.base[p]
           l == job.left[p]
           r == job.right[p]
           both == Touched(b.lines, l.lines) \cap Touched(b.lines, r.lines) # {}
           all == LinesMerged(b.lines, l.lines, r.lines)
<1>1. /\ IsFile(b) /\ IsFile(l) /\ IsFile(r)
      /\ LinesOnly(b) /\ LinesOnly(l) /\ LinesOnly(r)
  BY FilesAssumption DEF PlanTyped
<1>2. IF both THEN o = Conflict ELSE o.what = "keep" /\ o.file.lines = all
  <2>1. /\ b.kind = "text" /\ l.kind = "text" /\ r.kind = "text"
        /\ OneSide(b, l, r) = {} /\ MergeModes(b, l, r) # {}
        /\ InPlace(b.lines, l.lines) /\ InPlace(b.lines, r.lines)
    BY DEF EditedText, Diverged
  <2> HIDE DEF b, l, r
  <2>2. o \in MergeTrackedPath(b, l, r)
    BY DEF b, l, r
  <2> QED
    BY <1>1, <2>1, <2>2, TextOutcome
<1>3. TextPlanned(p)' <=> IF both THEN p \in conflicts'
                          ELSE p \notin conflicts' /\ merged'[p].lines = all
  BY DEF TextPlanned
<1> HIDE DEF both, all
<1>4. CASE both
  <2>1. o.what = "conflict"
    BY <1>2, <1>4 DEF Conflict
  <2>2. conflicts' = conflicts \cup {p}
    BY <2>1 DEF Settle
  <2> QED
    BY <1>3, <1>4, <2>2
<1>5. CASE ~both
  <2>1. o.what = "keep" /\ o.file.lines = all
    BY <1>2, <1>5
  <2>2. conflicts' = conflicts /\ merged' = [merged EXCEPT ![p] = o.file]
    BY <2>1 DEF Settle
  <2>3. p \in DOMAIN merged
    BY DEF PlanTyped
  <2>4. merged'[p] = o.file
    BY <2>2, <2>3
  <2> QED
    BY <1>3, <1>5, <2>1, <2>2, <2>4
<1> QED
  BY <1>4, <1>5

\* Settling a path leaves the others as they are.
LEMMA SettledElsewhere ==
    ASSUME PlanTyped, NEW p \in Path, NEW x, x # p, NEW o, Settle(x, o), job' = job
    PROVE  (p \in conflicts' <=> p \in conflicts) /\ TextPlanned(p)' = TextPlanned(p)
<1>1. p \in conflicts' <=> p \in conflicts
  <2>1. conflicts' = conflicts \cup {x} \/ conflicts' = conflicts
    BY DEF Settle
  <2> QED
    BY <2>1
<1>2. merged'[p] = merged[p]
  <2>1. merged' = [merged EXCEPT ![x] = o.file] \/ merged' = merged
    BY DEF Settle
  <2>2. p \in DOMAIN merged
    BY DEF PlanTyped
  <2> QED
    BY <2>1, <2>2
<1> QED
  BY <1>1, <1>2 DEF TextPlanned

\* A path that both sides still have is merged in its place, and no other path
\* is merged into it.
LEMMA BaseText ==
    ASSUME PlanTyped, PlanCourse, NEW p \in Path, EditedText(p), NEW q \in todo, BasePath(q)
    PROVE  /\ q = p => \E o \in MergeTrackedPath(job.base[p], job.left[p], job.right[p]) :
                           Settle(p, o)
           /\ q # p => \E x : x # p /\ \E o : Settle(x, o)
<1>1. p \in Held(job.base) /\ p \in Held(job.left) /\ p \in Held(job.right)
  BY NoFileIsFile DEF EditedText, Diverged, Held
<1>2. \A side \in Side : p \in Held(job[side])
  BY <1>1 DEF Side
<1>3. \A side \in Side : ~Renamed(side, p)
  BY <1>2, TargetsAre
<1>4. ASSUME q = p
      PROVE  \E o \in MergeTrackedPath(job.base[p], job.left[p], job.right[p]) : Settle(p, o)
  <2>1. ~RenamedApart(p) /\ ~DestinationTaken(p)
    BY <1>3, Sides DEF RenamedApart, DestinationTaken
  <2>2. ResultPath(p) = p
    BY <1>3, ResultIs, TargetsAre, Sides
  <2>3. SidePaths("left", p) = {p} /\ SidePaths("right", p) = {p}
    BY <1>2, SideFile, Sides
  <2>4. FileAt("left", {p}) = job.left[p] /\ FileAt("right", {p}) = job.right[p]
    BY DEF FileAt
  <2>5. \E o \in MergeTrackedPath(job.base[p], FileAt("left", SidePaths("left", p)),
                                  FileAt("right", SidePaths("right", p))) :
           Settle(ResultPath(p), o)
    BY <1>4, <2>1 DEF BasePath
  <2> QED
    BY <2>2, <2>3, <2>4, <2>5
<1>5. ASSUME q # p PROVE \E x : x # p /\ \E o : Settle(x, o)
  <2>1. \E x \in {q, ResultPath(q)} : \E o : Settle(x, o)
    BY DEF BasePath
  <2>2. ResultPath(q) # p
    <3>1. PICK side \in Side : ResultPath(q) = Target(side, q)
      BY ResultIs
    <3>2. Target(side, q) # p
      BY <1>1, <1>5, TargetsAre
    <3> QED
      BY <3>1, <3>2
  <2> QED
    BY <1>5, <2>1, <2>2
<1> QED
  BY <1>4, <1>5

\* In the second stage nor does a revert change such an outcome.
LEMMA RestText ==
    ASSUME PlanTyped, NEW p \in Path, EditedText(p), RestPath(p)
    PROVE  \E o \in MergeTrackedPath(job.base[p], job.left[p], job.right[p]) : Settle(p, o)
<1> DEFINE b == job.base[p]
           l == job.left[p]
           r == job.right[p]
<1>1. PICK o \in MergeTrackedPath(b, l, r) :
          \/ o.what = "remove"
          \/ o.what = "keep" /\ l = NoFile
          \/ Settle(p, o)
  BY DEF RestPath
<1>2. l # NoFile
  BY NoFileIsFile DEF EditedText, Diverged
<1>3. o.what # "remove"
  <2>1. /\ IsFile(b) /\ IsFile(l) /\ IsFile(r)
        /\ LinesOnly(b) /\ LinesOnly(l) /\ LinesOnly(r)
    BY FilesAssumption DEF PlanTyped
  <2>2. /\ b.kind = "text" /\ l.kind = "text" /\ r.kind = "text"
        /\ OneSide(b, l, r) = {} /\ MergeModes(b, l, r) # {}
        /\ InPlace(b.lines, l.lines) /\ InPlace(b.lines, r.lines)
    BY DEF EditedText, Diverged
  <2> HIDE DEF b, l, r
  <2>3. o = Conflict \/ o.what = "keep"
    BY <2>1, <2>2, TextOutcome
  <2> QED
    BY <2>3 DEF Conflict
<1> QED
  BY <1>1, <1>2, <1>3

\* At one visit the path takes its outcome; at all others it stays as it was.
LEMMA VisitKeepsTexts ==
    ASSUME PlanTyped, PlanCourse, TextsPlanned, NEW q \in todo, BasePath(q) \/ RestPath(q)
    PROVE  TextsPlanned'
<1>1. /\ job' = job /\ stage' = stage /\ todo' = todo \ {q} /\ stage \in {"base", "rest"}
  BY DEF BasePath, RestPath
<1>2. \A p : EditedText(p)' = EditedText(p)
  BY <1>1 DEF EditedText, Diverged
<1> SUFFICES ASSUME NEW p \in Path, EditedText(p)
             PROVE  IF p \in todo' THEN p \notin conflicts' ELSE TextPlanned(p)'
  BY <1>1, <1>2 DEF TextsPlanned
<1>3. IF p \in todo THEN p \notin conflicts ELSE TextPlanned(p)
  BY <1>1 DEF TextsPlanned
<1>4. CASE q = p
  <2>1. \E o \in MergeTrackedPath(job.base[p], job.left[p], job.right[p]) : Settle(p, o)
    BY <1>4, BaseText, RestText
  <2>2. TextPlanned(p)'
    BY <1>1, <1>3, <1>4, <2>1, EditedOutcome
  <2> QED
    BY <1>1, <1>4, <2>2
<1>5. CASE q # p
  <2>1. \E x : x # p /\ \E o : Settle(x, o)
    <3>1. CASE BasePath(q)
      BY <1>5, <3>1, BaseText
    <3>2. CASE RestPath(q)
      <4>1. q \in Path
        BY DEF PlanTyped
      <4>2. \E o : Settle(q, o)
        BY <3>2, <4>1, RestSettles
      <4> QED
        BY <1>5, <4>2
    <3> QED
      BY <3>1, <3>2
  <2>2. (p \in conflicts' <=> p \in conflicts) /\ TextPlanned(p)' = TextPlanned(p)
    BY <1>1, <2>1, SettledElsewhere
  <2>3. p \in todo' <=> p \in todo
    BY <1>1, <1>5
  <2> QED
    BY <1>3, <2>2, <2>3
<1> QED
  BY <1>4, <1>5

LEMMA StepKeepsTexts == PlanTyped /\ PlanCourse /\ TextsPlanned /\ [Next]_vars => TextsPlanned'
<1> SUFFICES ASSUME PlanTyped, PlanCourse, TextsPlanned, [Next]_vars PROVE TextsPlanned'
  OBVIOUS
<1>1. ASSUME NEW p, EditedText(p) PROVE p \in Path => p \in Held(job.base)
  BY <1>1, NoFileIsFile DEF EditedText, Diverged, Held
<1>2. job' = job => \A p : EditedText(p)' = EditedText(p)
  BY DEF EditedText, Diverged
<1>3. ASSUME job' = job, merged' = merged, conflicts' = conflicts
      PROVE  \A p : TextPlanned(p)' = TextPlanned(p)
  BY <1>3 DEF TextPlanned
<1>4. ASSUME NEW upLeft, NEW upRight, FindRenames(upLeft, upRight) PROVE TextsPlanned'
  <2>1. /\ stage = "renames" /\ stage' = "base" /\ todo' = Held(job.base)
        /\ job' = job /\ conflicts' = conflicts
    BY <1>4 DEF FindRenames
  <2>2. conflicts = {}
    BY <2>1 DEF TextsPlanned
  <2> QED
    BY <1>1, <1>2, <2>1, <2>2 DEF TextsPlanned
<1>5. CASE StartRevert
  <2>1. /\ stage = "renames" /\ stage' = "rest" /\ todo' = AllPaths
        /\ job' = job /\ conflicts' = conflicts
    BY <1>5 DEF StartRevert
  <2>2. conflicts = {} /\ Held(job.base) \subseteq AllPaths
    BY <2>1 DEF TextsPlanned, AllPaths
  <2> QED
    BY <1>1, <1>2, <2>1, <2>2 DEF TextsPlanned
<1>6. CASE BaseDone
  <2>1. /\ stage = "base" /\ todo = {} /\ stage' = "rest" /\ todo' = AllPaths \ processed
        /\ job' = job /\ conflicts' = conflicts /\ merged' = merged
    BY <1>6 DEF BaseDone
  <2>2. \A p \in Held(job.base) : p \in processed
    BY <2>1 DEF PlanCourse, Settled, Targets
  <2> QED
    BY <1>1, <1>2, <1>3, <2>1, <2>2 DEF TextsPlanned
<1>7. CASE RestDone
  <2>1. stage' \in {"resolve", "done"}
    BY <1>7 DEF RestDone
  <2> QED
    BY <2>1 DEF TextsPlanned
<1>8. ASSUME NEW sides, Resolve(sides) PROVE TextsPlanned'
  <2>1. stage' = "done"
    BY <1>8 DEF Resolve
  <2> QED
    BY <2>1 DEF TextsPlanned
<1>9. CASE UNCHANGED vars
  <2>1. /\ stage' = stage /\ job' = job /\ todo' = todo /\ merged' = merged
        /\ conflicts' = conflicts
    BY <1>9 DEF vars
  <2> QED
    BY <1>2, <1>3, <2>1 DEF TextsPlanned
<1> QED
  BY <1>4, <1>5, <1>6, <1>7, <1>8, <1>9, VisitKeepsTexts DEF Next

(***************************************************************************)
(* When each side of a text replaces lines in place or deletes lines and   *)
(* repeats none, a line that both changed is a conflict, and otherwise the *)
(* plan has each line as the side that changed it left it: for texts of    *)
(* any length, any shortest edit scripts and any order of the paths.       *)
(***************************************************************************)
THEOREM PlansMergeLines == PlanSpec => []LinesMerge
<1>1. Init => PlanTyped /\ PlanCourse /\ TextsPlanned
  <2>1. Init => stage = "renames" /\ conflicts = {}
    BY DEF Init
  <2>2. Init => TextsPlanned
    BY <2>1 DEF TextsPlanned
  <2> QED
    BY <2>2, InitTyped, InitCourse
<1>2. PlanTyped /\ PlanCourse /\ TextsPlanned /\ [Next]_vars
         => (PlanTyped /\ PlanCourse /\ TextsPlanned)'
  BY StepTyped, StepCourse, StepKeepsTexts
<1>3. TextsPlanned => LinesMerge
  <2> SUFFICES ASSUME TextsPlanned, Planned, NEW p \in Path, EditedText(p) PROVE TextPlanned(p)
    BY DEF LinesMerge, EditedText, TextPlanned, LinesMerged
  <2> QED
    BY DEF TextsPlanned, Planned
<1> QED
  BY <1>1, <1>2, <1>3, PTL DEF PlanSpec

=============================================================================
