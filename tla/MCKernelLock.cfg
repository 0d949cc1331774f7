CONSTANTS
    th1 = th1  th2 = th2  f = f  a = a  b = b
    Threads <- MCThreads
    TimerThreads <- MCThreads
    Tracers <- MCThreads
    Callbacks = {f}
    Priorities = {1}
    MaxTasks = 1
    ConcurrencyOpts = {1}
    Delays = {0}
    MaxTimers = 1
    MaxClock = 0
    InflightMax = 2
    Capacity = 2
    MaxSpans = 1
    MaxBoots = 1
    SvcThreads <- MCThreads
    RepThreads <- MCThreads
    Names <- MCNames
    ServiceMax = 2
    Restarts = {0, 1}
    MaxRegistrations = 2
    ReplicaMax = 0
    MaxCreations = 0
SPECIFICATION MCSpec
CHECK_DEADLOCK FALSE
INVARIANT LockReleased
