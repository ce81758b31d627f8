SPECIFICATION FairSpec
CONSTANTS
    Senders = {s1, s2}
    MaxSends = 2
    MayFail = FALSE
PROPERTIES EveryPacketSent
