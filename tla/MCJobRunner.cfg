CONSTANTS
    j1 = j1
    j2 = j2
    j3 = j3
    j4 = j4
    s1 = s1
    s2 = s2
    s3 = s3
    s4 = s4
    s5 = s5
    acme = acme
    beta = beta
    Jobs = {j1, j2, j3, j4}
    Subjects <- MCSubjects
    Orgs <- MCOrgs
    OrgOf <- MCOrgOf
    MaxActive = 3
    MaxPerOrg = 2
    MaxRunning = 1
    MaxLends = 1
    None = None
SPECIFICATION FairSpec
INVARIANTS TypeOK SlotConservation RegistriesAgree NoLostWakeup
PROPERTIES KeepsLimits EveryJobEnds ShutdownEnds
