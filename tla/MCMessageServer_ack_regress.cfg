\* One sender on one stream, one topic, a handler removed and added again
\* while its GracefulUnregister times out: the old handle's fn is still
\* running when the new handle takes over the topic.
CONSTANTS
    p1 = p1
    p2 = p2
    t1 = t1
    t2 = t2
    Peers <- OnePeer
    Topics <- OneTopic
    HandlesPerTopic = 2
    MaxEpoch = 1
    MaxSeq = 2
    MaxStreams = 1
    MaxPeerCount = 1
    MaxPendingMessageCountPerTopic = 1
    MaxPendingTaskCount = 2
    SendChannelSize = 1
    DuplicateStreams = FALSE
    UserErrors = FALSE
    HandlerTimeout = TRUE
    SyncRemove = TRUE
    UserRemovesHandlers = TRUE
    UserDeregistersPeers = FALSE
    ServerID = ServerID
    MaxLocal = 0
    LocalBatchSize = 1
SPECIFICATION Spec
PROPERTY AckMonotonic
