SPECIFICATION GovernanceFairSpec
CONSTANTS
    Name = {dev, aux, tmp}
    Template = {dev}
    MaxAgents = 2
    MaxTemporary = 1
    MaxCrashes = 2
INVARIANT HalvesAgree
INVARIANT NobodyUnleased
PROPERTY EveryGuestLeaves
CHECK_DEADLOCK FALSE
