\* MessageServerConfig's limits: two senders against MaxPeerCount 1.  With
\* OnePeer, MaxEpoch 2 and MaxSeq 2 the pending buffer overshoots; with
\* OnePeer, MaxStreams 1, MaxPendingMessageCountPerTopic 2, MaxLocal 2 and
\* LocalBatchSize 2 the local buffer is dropped at the limit.
CONSTANTS
    p1 = p1
    p2 = p2
    t1 = t1
    t2 = t2
    Peers <- TwoPeers
    Topics <- OneTopic
    HandlesPerTopic = 1
    MaxEpoch = 1
    MaxSeq = 1
    MaxStreams = 2
    MaxPeerCount = 1
    MaxPendingMessageCountPerTopic = 1
    MaxPendingTaskCount = 2
    SendChannelSize = 1
    DuplicateStreams = FALSE
    UserErrors = FALSE
    HandlerTimeout = FALSE
    SyncRemove = TRUE
    UserRemovesHandlers = FALSE
    UserDeregistersPeers = FALSE
    ServerID = ServerID
    MaxLocal = 0
    LocalBatchSize = 1
SPECIFICATION Spec
INVARIANT ConfigLimitsExact
