CONSTANTS
    LcsThreshold = 6
    PathOrder <- MCPathOrder
    Extension <- MCExtension
    Jobs <- MCJobs
    MergeTrees <- MergeRoots
    SameShape <- OnlyEdited
SPECIFICATION PlanSpec
CHECK_DEADLOCK FALSE
INVARIANTS MergePlanTypeOK ContentKept LinesMerge EditsBothApplied
