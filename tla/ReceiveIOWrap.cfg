SPECIFICATION Spec
CONSTANTS
    Size = 6
    Zero <- NoByte
    Inputs <- NoInputs
    Header = 2
    MaxMsgs = 2
    Verdicts = {TRUE}
    Lengths = {1}
INVARIANTS ReceivedIsPushed
CHECK_DEADLOCK FALSE
