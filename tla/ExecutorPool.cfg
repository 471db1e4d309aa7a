SPECIFICATION FairSpec
CONSTANTS
    Calls = {1, 2}
    Chats = {c1, c2}
    Versions = {v1, v2}
    None = None
    Burst = Burst
    MaxConcurrent = 1
    MaxRespawns = 1
    MaxRestarts = 1
    MaxCrashes = 2
    MaxFailures = 1
    MaxBursts = 1
    MaxReleases = 1
INVARIANT OneExecutorPerChat
PROPERTY EveryCallEnds
INVARIANT TurnIsolation
CHECK_DEADLOCK FALSE
