CONSTANTS
    Root = r0
    NewState = {s1, s2}
    State <- MCState
    Branch = {b1, b2}
    Tag = {}
    Path = {f1}
    Content = {c1, c2}
    Proc = {p1, p2}
    NoState = NoState
    Absent = Absent
    NotStaged = NotStaged
    NoProc = NoProc
    Commands <- AllKinds
    NoVerify <- AlwaysNoVerify
    GcModes = {"all"}
SPECIFICATION Spec
SYMMETRY Symmetry
INVARIANTS RefsComplete
PROPERTIES RefsAdvanceLast NoSilentDiscard StagedWorkKept BranchesGoForward LogSpec
