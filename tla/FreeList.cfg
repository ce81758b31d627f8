SPECIFICATION Spec
CONSTANTS
    Threads = {t1, t2, t3}
    Nodes = {n1, n2, n3, n4, n5}
    Null = Null
    MaxCalls = 9
SYMMETRY Symmetry
CHECK_DEADLOCK FALSE
INVARIANTS TypeOK NodesApart ListLinked FlagsTell
