\* One sender, one topic, one handler: reconnects with new and duplicate
\* epochs, pending buffering, handler errors and timeouts, acks.
CONSTANTS
    p1 = p1
    p2 = p2
    t1 = t1
    t2 = t2
    Peers <- OnePeer
    Topics <- OneTopic
    HandlesPerTopic = 1
    MaxEpoch = 2
    MaxSeq = 1
    MaxStreams = 2
    MaxPeerCount = 1
    MaxPendingMessageCountPerTopic = 1
    MaxPendingTaskCount = 2
    SendChannelSize = 1
    DuplicateStreams = FALSE
    UserErrors = FALSE
    HandlerTimeout = FALSE
    SyncRemove = TRUE
    UserRemovesHandlers = FALSE
    UserDeregistersPeers = FALSE
    ServerID = ServerID
    MaxLocal = 0
    LocalBatchSize = 1
SPECIFICATION Spec
INVARIANT RunSurvivesPeerErrors
