SPECIFICATION Spec
CONSTANTS
    Calls = {c1, c2}
    MaxFaults = 3
INVARIANT PipelineFollowsRow
PROPERTY EndIsTrue
PROPERTY EveryEndIsCollected
CHECK_DEADLOCK FALSE
