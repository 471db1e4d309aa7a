SPECIFICATION Spec
CONSTANTS
    r1 = r1
    r2 = r2
    c1 = c1
    c2 = c2
    None = None
    Req = {r1, r2}
    Chat = {c1, c2}
    Requester <- Asked
    Forced = {r2}
    Resumed = {r1, r2}
    Internal = {c2}
    MaxTasks = 2
    MaxCrashes = 1
INVARIANT FreezeHasLease
CHECK_DEADLOCK FALSE
