CONSTANTS
    r0 = r0
    sa = sa
    sb = sb
    sc = sc
    main = main
    topic = topic
    Blob = {1, 2, 3}
    NoBlob = 0
    ShardOf <- MCShard
    Alike <- MCAlike
    State = {r0, sa, sb}
    Root = r0
    NoState = NoState
    ParentsOf <- MCParents
    ManifestOf <- MCManifest
    Ref = {main}
    NoJob = NoJob
    MaxPacks = 2
SPECIFICATION StoreSpec
CHECK_DEADLOCK FALSE
INVARIANTS StoreTypeOK StoredReads GcReclaims
PROPERTIES RefsStayWhole
