\* Is every acked sequence delivered? A same-epoch stream after the peer was
\* deregistered (as set here); with DuplicateStreams = FALSE, a handler error
\* followed by a re-add; with UserErrors = FALSE too, a handler re-added while
\* the removed handle still holds seq 1 (SyncRemove = FALSE) or after a
\* forced unregister timeout (HandlerTimeout = TRUE).
CONSTANTS
    p1 = p1
    p2 = p2
    t1 = t1
    t2 = t2
    Peers <- OnePeer
    Topics <- OneTopic
    HandlesPerTopic = 2
    MaxEpoch = 2
    MaxSeq = 2
    MaxStreams = 2
    MaxPeerCount = 1
    MaxPendingMessageCountPerTopic = 1
    MaxPendingTaskCount = 2
    SendChannelSize = 1
    DuplicateStreams = TRUE
    UserErrors = TRUE
    HandlerTimeout = FALSE
    SyncRemove = TRUE
    UserRemovesHandlers = TRUE
    UserDeregistersPeers = TRUE
    ServerID = ServerID
    MaxLocal = 0
    LocalBatchSize = 1
SPECIFICATION Spec
INVARIANT AckedImpliesDelivered
