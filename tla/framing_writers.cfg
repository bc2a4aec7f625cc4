SPECIFICATION Spec
CONSTANTS
    Senders = {s1, s2}
    EventMessages <- MCEventMessages
    Messages <- MCMessages
    Configured <- MCConfigured
    Handled <- MCConfigured
    MaxSent = 2
    MaxSentUnsound = 2
    CacheBlockAtStart = {FALSE}
    BlockSizeAtStart <- MCBlockSizes
    Polling = {FALSE}
    Failing = {FALSE}
INVARIANT OneMessageRead
CHECK_DEADLOCK FALSE
