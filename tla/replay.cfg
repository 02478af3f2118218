CONSTANTS
    Root = r0
    base = b
    old1 = o1
    old2 = o2
    up = u
    main = main
    topic = topic
    NewState = {n1, n2}
    State <- MCState
    Lineage <- MCLineage
    At <- MCAt
    Upstream = {b, u}
    Scenarios <- MCScenarios
    Branch = {main, topic}
    Tag = {}
    Path = {f1}
    x = x
    y = y
    Content = {x, y}
    Proc = {p1}
    NoState = NoState
    Absent = Absent
    NotStaged = NotStaged
    NoProc = NoProc
    NoJob = NoJob
    Conflict = Conflict
    NoQueue = NoQueue
    MaxStash = 1
    Commands = {"commit", "checkout"}
    NoVerify = {TRUE}
    GcModes = {}
SPECIFICATION ReplaySpec
SYMMETRY Symmetry
INVARIANTS ReplayTypeOK QueueSound
PROPERTIES EveryCommitReplayed AbortRestores StashKeepsWork PopDelivers ListedHaveEntries JobsEnd
