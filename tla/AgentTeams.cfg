SPECIFICATION FairSpec
CONSTANTS
    Agent = {dev, pm}
    Governed = {pm}
    Gated = {pm}
    Task = {1, 2}
    NoTask = 0
    MaxParallel = 3
    MaxActiveRuns = 2
    MaxRunsPerAgent = 2
    SameFailureLimit = 2
    FailedRunLimit = 2
    MaxEvents = 1
INVARIANT NoTaskStranded
INVARIANT LanesAreIsolated
PROPERTY EveryTaskSettles
PROPERTY NoLateOverwrite
CHECK_DEADLOCK FALSE
