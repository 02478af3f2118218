CONSTANTS
    LcsThreshold = 48
    PathOrder <- MCPathOrder
    Extension <- MCExtension
    Jobs <- ReorderJobs
    MergeTrees <- MergeRoots
    SameShape <- OnlyEdited
SPECIFICATION PlanSpec
CHECK_DEADLOCK FALSE
INVARIANTS InsertsKept
