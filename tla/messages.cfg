SPECIFICATION FairSpec
CONSTANTS
    Senders = {s1}
    EventMessages <- MCEventMessages
    Messages <- MCMessages
    Configured <- MCConfigured
    Handled <- MCConfigured
    MaxSent = 3
    MaxSentUnsound = 2
    CacheBlockAtStart = {TRUE, FALSE}
    BlockSizeAtStart <- MCBlockSizes
    Polling = {TRUE, FALSE}
    Failing = {TRUE, FALSE}
INVARIANT TypeOK
INVARIANT NothingStranded
INVARIANT PhaseOrder
PROPERTY FifoSpec
PROPERTY EventuallyTaken
CHECK_DEADLOCK FALSE
