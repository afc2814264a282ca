\* One sender on one stream, one topic, a handler that fails and is added
\* again: the data-loss check against the last ack, late acks; local
\* messages through batches into the same pending buffer, which overflows.
CONSTANTS
    p1 = p1
    p2 = p2
    t1 = t1
    t2 = t2
    Peers <- OnePeer
    Topics <- OneTopic
    HandlesPerTopic = 2
    MaxEpoch = 1
    MaxSeq = 3
    MaxStreams = 1
    MaxPeerCount = 1
    MaxPendingMessageCountPerTopic = 2
    MaxPendingTaskCount = 2
    SendChannelSize = 1
    DuplicateStreams = FALSE
    UserErrors = TRUE
    HandlerTimeout = FALSE
    SyncRemove = TRUE
    UserRemovesHandlers = TRUE
    UserDeregistersPeers = FALSE
    ServerID = ServerID
    MaxLocal = 3
    LocalBatchSize = 2
SPECIFICATION Spec
INVARIANTS
    DeliveryContiguous
    LocalInOrder
