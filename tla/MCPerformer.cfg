CONSTANTS
    th1 = th1  th2 = th2  t1 = t1  t2 = t2
    watcher = watcher  r1 = r1  r2 = r2
    Threads <- MCThreads
    Tasks <- MCTasks
    ExecTasks <- MCTasks
    Runners <- MCRunners
    Followers <- MCFollowers
    Capacity = 1
    MaxEvents = 3
    MaxConcurrent = 1
    QueueDepth = 2
SPECIFICATION MCSpec
CHECK_DEADLOCK FALSE
INVARIANTS
    LogTellsAll AnswerMatchesState
PROPERTIES
    TakenIsAnswered
