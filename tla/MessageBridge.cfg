SPECIFICATION FairSpec
CONSTANTS
    Text = {t1, t2}
    Media = {i1}
    Direct = {c1}
    Api = {a1}
    None = None
    MaxQueue = 1
    MaxQuestions = 1
    MaxStops = 2
INVARIANT OneTaskPerChat
INVARIANT QueueIsServed
PROPERTY EveryMessageIsServed
CHECK_DEADLOCK FALSE
