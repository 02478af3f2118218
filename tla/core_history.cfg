CONSTANTS
    Root = r0
    NewState = {s1, s2, s3}
    State <- MCState
    Branch = {b1}
    Tag = {t1}
    Path = {f1}
    Content = {c1}
    Proc = {p1, p2}
    NoState = NoState
    Absent = Absent
    NotStaged = NotStaged
    NoProc = NoProc
    Commands = {"commit", "merge", "soft", "revert", "pick"}
    NoVerify <- AlwaysNoVerify
    GcModes = {"history"}
SPECIFICATION Spec
SYMMETRY Symmetry
INVARIANTS RefsComplete
PROPERTIES BranchesGoForward LogSpec
