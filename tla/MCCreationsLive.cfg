CONSTANTS
    r1 = r1
    r2 = r2
    Requests = {r1}
    MaxJobs = 3
    MaxKeys = 3
    MaxRevision = 2
    MaxCrashes = 1
    MaxFaults = 1
    None = None
SPECIFICATION FairSpec
CHECK_DEADLOCK FALSE
PROPERTIES KeepsLife NeverStuck
