SPECIFICATION CallbackFairSpec
CONSTANTS
    w1 = w1
    w2 = w2
    l1 = l1
    l2 = l2
    chat = chat
    arc = arc
    key = key
    NoKey = NoKey
    NoLaunch = NoLaunch
    Scope = {chat, arc}
    ArcScope = {arc}
    Key = {key}
    Event <- One
    Launch <- TwoLaunches
    Request <- MixedRequests
    MaxConcurrentPerScope = 2
    MaxCrashes = 1
    MaxAttempts = 1
    MaxPerWindow = 1
    MaxStops = 1
INVARIANT NoOutcomeLost
PROPERTY InboxImplemented
PROPERTY EveryJobSettles
PROPERTY EveryOutcomeReported
PROPERTY EveryOutcomeReachesChat
CHECK_DEADLOCK FALSE
