SPECIFICATION FairSpec
CONSTANTS
    Size = 6
    Zero <- NoByte
    Inputs <- NoInputs
    Header = 2
    MaxMsgs = 3
    Verdicts = {TRUE, FALSE}
    Lengths = {0, 3, 4}
INVARIANTS Reassembled
PROPERTIES EveryMessageParsed CloseEndsReception
CHECK_DEADLOCK FALSE
