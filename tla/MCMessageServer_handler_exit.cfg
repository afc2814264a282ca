\* A handler that fails while the task queue is full: OnExit's
\* deregistration task is dropped.
CONSTANTS
    p1 = p1
    p2 = p2
    t1 = t1
    t2 = t2
    Peers <- OnePeer
    Topics <- OneTopic
    HandlesPerTopic = 1
    MaxEpoch = 1
    MaxSeq = 2
    MaxStreams = 1
    MaxPeerCount = 1
    MaxPendingMessageCountPerTopic = 1
    MaxPendingTaskCount = 1
    SendChannelSize = 1
    DuplicateStreams = FALSE
    UserErrors = TRUE
    HandlerTimeout = FALSE
    SyncRemove = TRUE
    UserRemovesHandlers = FALSE
    UserDeregistersPeers = FALSE
    ServerID = ServerID
    MaxLocal = 0
    LocalBatchSize = 1
SPECIFICATION Spec
PROPERTY HandlerExitDeregistered
