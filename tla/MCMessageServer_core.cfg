\* One sender, one topic, one handler: reconnects with new and duplicate
\* epochs, pending buffering, handler errors and timeouts, acks, and the run loop blocking in Send.
CONSTANTS
    p1 = p1
    p2 = p2
    t1 = t1
    t2 = t2
    Peers <- OnePeer
    Topics <- OneTopic
    HandlesPerTopic = 1
    MaxEpoch = 2
    MaxSeq = 2
    MaxStreams = 2
    MaxPeerCount = 1
    MaxPendingMessageCountPerTopic = 1
    MaxPendingTaskCount = 2
    SendChannelSize = 1
    DuplicateStreams = FALSE
    UserErrors = TRUE
    HandlerTimeout = TRUE
    SyncRemove = TRUE
    UserRemovesHandlers = TRUE
    UserDeregistersPeers = TRUE
    ServerID = ServerID
    MaxLocal = 0
    LocalBatchSize = 1
SPECIFICATION Spec
INVARIANTS
    TypeOK
    DeliveryContiguous
    AckedImpliesDelivered
    NoInvalidPeerAbort
