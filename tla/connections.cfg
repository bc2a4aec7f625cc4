SPECIFICATION FairSpec
CONSTANTS
    Callers = {t1}
    Event = event
    Freer = freer
    Remover = remover
    Peers <- MCPeers
    Sources <- MCSources
    MaxBev = 2
    MaxCalls = 2
    NULL = NULL
INVARIANTS TypeOK RightPeer ReadableIsMapped OneConnection SignalAccounted
CHECK_DEADLOCK FALSE
 
