CONSTANTS
    r1 = r1
    r2 = r2
    Requests = {r1, r2}
    MaxJobs = 3
    MaxKeys = 3
    MaxRevision = 2
    MaxCrashes = 0
    MaxFaults = 1
    None = None
SPECIFICATION Spec
CHECK_DEADLOCK FALSE
SYMMETRY MCSymmetry
INVARIANTS TypeOK DraftFilesExist DeletedLeavesNothing OneAvatar ProcessingIsOwned FinishedAvatarIsWhole
PROPERTIES FinishingIsFrozen ResultExtendsWhatItRead EditExtendsWhatItRead ExpiresOnlyIdle RecoversOnlyTheDead
