CONSTANTS
    r1 = r1
    r2 = r2
    Requests = {r1, r2}
    MaxJobs = 3
    MaxKeys = 2
    MaxRevision = 2
    MaxCrashes = 0
    MaxFaults = 1
    None = None
SPECIFICATION Spec
CHECK_DEADLOCK FALSE
PROPERTY RecordedJobsKeepTheirRecord
