CONSTANTS
    t1 = t1
    t2 = t2
    load = load
    Me = me
    Dropped = dropped
    None = None
    Users = {ann, bob}
    Tabs <- MCTabs
    Calls <- MCCalls
    MaxSessions = 2
    MaxTokens = 3
SPECIFICATION Spec
PROPERTY TabActsAsItsUser
CHECK_DEADLOCK FALSE
