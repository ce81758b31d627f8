SPECIFICATION RingSpec
CONSTANTS
    Size = 5
    Zero = 0
    Inputs <- MCInputs
INVARIANTS RingTypeOK DirectSegmentsFree
PROPERTIES ImplementsQueue
