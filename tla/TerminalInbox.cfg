SPECIFICATION Spec
CONSTANTS
    Event = {e1, e2, e3}
    MaxAttempts = 3
    MaxPerWindow = 1
    MaxStops = 2
INVARIANT BudgetIsExact
INVARIANT WakeHoldsLease
INVARIANT NoFreshEventWaits
PROPERTY ResolvedIsFinal
CHECK_DEADLOCK FALSE
