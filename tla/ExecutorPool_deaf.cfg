SPECIFICATION Spec
CONSTANTS
    Calls = {1, 2, 3}
    Chats = {c1}
    Versions = {v1}
    None = None
    Burst = Burst
    MaxConcurrent = 1
    MaxRespawns = 1
    MaxRestarts = 1
    MaxCrashes = 2
    MaxFailures = 1
    MaxBursts = 1
    MaxReleases = 1
INVARIANT EveryExecutorIsHeard
CHECK_DEADLOCK FALSE
