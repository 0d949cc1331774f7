CONSTANTS
    th1 = th1  th2 = th2  f = f  a = a  b = b
    Threads <- MCThreads
    TimerThreads <- MCThreads
    Tracers <- MCThreads
    Callbacks = {f}
    Priorities = {1, 6, 9}
    MaxTasks = 3
    ConcurrencyOpts = {0, 1, 2}
    Delays = {0, 1, 2}
    MaxTimers = 3
    MaxClock = 2
    InflightMax = 2
    Capacity = 2
    MaxSpans = 3
    MaxBoots = 2
    SvcThreads <- MCThreads
    RepThreads <- MCThreads
    Names <- MCNames
    ServiceMax = 2
    Restarts = {1}
    MaxRegistrations = 3
    ReplicaMax = 2
    MaxCreations = 3
SPECIFICATION MCSpec
CHECK_DEADLOCK FALSE
INVARIANTS
    TasksAccounted TraceExact BootConsistent ServicesSound ReplicasSound
PROPERTIES
    TakenInOrder QueuedIsRun ServicesEnd
