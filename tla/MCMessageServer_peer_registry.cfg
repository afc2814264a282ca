\* A sender that connects, is registered and goes away before anything is
\* acknowledged to it: tick skips peers with no acks, so the peer is never
\* deregistered and keeps its MaxPeerCount slot.
\* With MaxEpoch = 2, MaxStreams = 2 and UserDeregistersPeers = TRUE the
\* same cfg shows the missing tombstone (server.go:380): the sender
\* reconnects with epoch 2 before its epoch-1 stream sent its register task;
\* the epoch-2 peer is deregistered (ScheduleDeregisterPeerTask; tick on a
\* closed stream or a congestion abort do the same) and the epoch-1 task
\* then finds no peer and installs the stale stream.
CONSTANTS
    p1 = p1
    p2 = p2
    t1 = t1
    t2 = t2
    Peers <- OnePeer
    Topics <- OneTopic
    HandlesPerTopic = 1
    MaxEpoch = 1
    MaxSeq = 1
    MaxStreams = 1
    MaxPeerCount = 1
    MaxPendingMessageCountPerTopic = 1
    MaxPendingTaskCount = 2
    SendChannelSize = 1
    DuplicateStreams = FALSE
    UserErrors = FALSE
    HandlerTimeout = FALSE
    SyncRemove = TRUE
    UserRemovesHandlers = FALSE
    UserDeregistersPeers = FALSE
    ServerID = ServerID
    MaxLocal = 0
    LocalBatchSize = 1
SPECIFICATION Spec
PROPERTY RegistryFollowsStreams
