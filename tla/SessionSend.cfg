SPECIFICATION FairSpec
CONSTANTS
    Senders = {s1, s2, s3}
    MaxSends = 4
    MayFail = TRUE
INVARIANTS TypeOK OneSender WireInOrder PacketsOwned
PROPERTIES FlagReleased
