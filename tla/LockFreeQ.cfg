SPECIFICATION Spec
CONSTANTS
    Threads = {t1, t2}
    Nodes = {n1, n2, n3}
    Null = Null
    MaxCalls = 8
SYMMETRY Symmetry
CHECK_DEADLOCK FALSE
INVARIANTS QueueLinked RearNear TakesFirst ReservedThere CountExact
