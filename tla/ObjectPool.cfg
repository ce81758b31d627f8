SPECIFICATION Spec
CONSTANTS
    Threads = {t1, t2}
    SLOT_COUNT = 2
    MaxPages = 3
    MaxAllocs = 7
SYMMETRY Symmetry
INVARIANTS SlotsAccounted HomeSlotsSafe RetiredEmpty
CHECK_DEADLOCK FALSE
