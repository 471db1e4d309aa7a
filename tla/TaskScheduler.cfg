SPECIFICATION Spec
CONSTANTS
    Task = {t1, t2}
    Recurring = {1}
    Key = {k}
    NoKey = NoKey
    None = None
    MaxTimers = 2
    MaxFaults = 1
    MaxStops = 2
SYMMETRY Symmetry
INVARIANT PendingHasTimer
INVARIANT RecurrenceGoesOn
INVARIANT PromisedIsSaved
INVARIANT ExecutedAtMostOnce
CHECK_DEADLOCK FALSE
