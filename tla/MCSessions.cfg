CONSTANTS
    t1 = t1
    t2 = t2
    load = load
    Me = me
    Dropped = dropped
    None = None
    Users = {ann}
    Tabs <- MCTabs
    Calls <- MCCalls
    MaxSessions = 2
    MaxTokens = 3
SPECIFICATION FairSpec
INVARIANTS SessionsTypeOK JarKeepsUp
PROPERTIES SignOutIsDeserved LoadEnds
CHECK_DEADLOCK FALSE
