SPECIFICATION BotSpec
CONSTANTS
    Handles = {h1}
    NoSocket = NoSocket
    MaxConnects = 3
    MaxPeers = 0
    MayFail = TRUE
    BotCount = 2
    PacketsPerBot = 1
    ReconnectRatePct = 50
    Scenario = "Reconnect"
    MaxSends = 1
INVARIANTS OneReceiver SessionsHeld
PROPERTIES EveryBotConnects
CHECK_DEADLOCK FALSE
