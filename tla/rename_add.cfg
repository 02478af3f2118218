CONSTANTS
    LcsThreshold = 48
    PathOrder <- MCPathOrder
    Extension <- MCExtension
    Jobs <- RenameJobs
    MergeTrees <- MergeRoots
    SameShape <- OnlyEdited
SPECIFICATION PlanSpec
CHECK_DEADLOCK FALSE
INVARIANTS RenameMeetsAdd
