SPECIFICATION Spec
CONSTANTS
    w1 = w1
    w2 = w2
    l1 = l1
    l2 = l2
    l3 = l3
    l4 = l4
    chat = chat
    arc = arc
    key = key
    NoKey = NoKey
    NoLaunch = NoLaunch
    Scope = {chat, arc}
    ArcScope = {arc}
    Key = {key}
    Worker <- Two
    Launch <- FourLaunches
    Request <- MixedRequests
    MaxConcurrentPerScope = 1
    MaxCrashes = 1
SYMMETRY Symmetry
INVARIANT QuotaRespected
INVARIANT NoStrayProcess
INVARIANT NoStrandedReport
INVARIANT ReportsAreTrue
INVARIANT OneLiveJobPerKey
INVARIANT DurableIdempotence
PROPERTY TerminalIsFinal
PROPERTY PromiseKept
CHECK_DEADLOCK FALSE
