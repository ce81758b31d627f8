SPECIFICATION FairSpec
CONSTANTS
    Handles = {h1, h2, h3, h4}
    NoSocket = NoSocket
    MaxConnects = 0
    MaxPeers = 2
    MayFail = TRUE
INVARIANTS OneReceiver RegisteredOwn SocketsOwned
PROPERTIES EveryPeerAccepted
CHECK_DEADLOCK FALSE
