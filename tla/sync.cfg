CONSTANTS
    server = server
    k1 = k1
    k2 = k2
    main = main
    topic = topic
    r0 = r0
    sa = sa
    sb = sb
    sc = sc
    sm = sm
    sn = sn
    v1 = v1
    Client = {k1, k2}
    Server = server
    State = {r0, sa, sb, sc, sm, sn}
    Root = r0
    ParentsOf <- MCParents
    BlobsOf <- MCBlobs
    Branch = {main, topic}
    Tag = {v1}
    NoState = NoState
    Starts <- MCStarts
    NoJob = NoJob
    NoItem = NoItem
    Depth = {1, 2, 4}
    NoDepth = 9
SPECIFICATION SyncSpec
CHECK_DEADLOCK FALSE
INVARIANTS SyncTypeOK RefsWhole
PROPERTIES RemoteForward FullFetchHeals SyncEnds
