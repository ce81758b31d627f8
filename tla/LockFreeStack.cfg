SPECIFICATION Spec
CONSTANTS
    Threads = {t1, t2, t3}
    Nodes = {n1, n2, n3}
    Null = Null
    MaxCalls = 7
SYMMETRY Symmetry
CHECK_DEADLOCK FALSE
INVARIANTS TopThere StackLinked PopsTop
