SPECIFICATION FairSpec
CONSTANTS
    Queues = {q1, q2}
    Producers = {p1, p2}
    Workers = {w1, w2}
    NoQueue = NoQueue
    NoThread = NoThread
    HasTimeout = TRUE
    MaxJobs = 2
INVARIANTS TypeOK OneHolder NotStranded Counted
PROPERTIES EveryJobHandled ShutdownEnds ImplementsSerial
