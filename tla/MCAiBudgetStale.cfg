CONSTANTS
    r1 = r1
    r2 = r2
    Requests = {r1, r2}
    Limit <- MCLimit
    Candidates = 2
    MaxJobs = 2
    MaxRevision = 3
    MaxCrashes = 1
    None = None
SPECIFICATION Spec
CHECK_DEADLOCK FALSE
PROPERTY OnlyRefundsLowerCounts
