CONSTANTS
    Root = r0
    NewState = {s1, s2}
    State <- MCState
    Branch = {b1, b2}
    Tag = {}
    Path = {f1, f2}
    Content = {c1}
    Proc = {p1}
    NoState = NoState
    Absent = Absent
    NotStaged = NotStaged
    NoProc = NoProc
    Commands = {"commit", "merge", "hard"}
    NoVerify <- AnyVerify
    GcModes = {}
SPECIFICATION Spec
SYMMETRY Symmetry
INVARIANTS TypeOK RepoInv
PROPERTIES RefsAdvanceLast NoSilentDiscard
