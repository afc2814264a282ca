--------------------------- MODULE MessageServer ---------------------------
(***************************************************************************)
(* The peer-to-peer MessageServer of pkg/p2p/server.go: the run loop that  *)
(* serialises every registry mutation through taskQueue, the per-stream    *)
(* receive goroutines, the worker-pool handles that run topic handlers,    *)
(* the periodic ack tick, and the remote clients that open streams, send   *)
(* sequenced messages, read acks and reconnect with a new epoch.           *)
(*                                                                         *)
(* A stream is the pair of goroutines SendMessage starts for one gRPC      *)
(* stream; the cdcPeer built from it by registerPeer is identified with    *)
(* the stream, so peers[p] is the index of the stream whose peer object is *)
(* in m.peers, and streams[s].valid is that object's valid flag.           *)
(***************************************************************************)
EXTENDS Integers, Sequences, FiniteSets, SequencesExt, FiniteSetsExt, Functions

CONSTANTS
    Peers,            \* sender NodeIDs of remote clients
    Topics,           \* topics
    HandlesPerTopic,  \* AddHandler calls the API user makes per topic
    MaxEpoch,         \* bound on the epoch a client connects with
    MaxSeq,           \* each client has messages 1..MaxSeq on every topic
    MaxStreams,       \* bound on the number of gRPC streams opened
    MaxPeerCount,                    \* MessageServerConfig.MaxPeerCount
    MaxPendingMessageCountPerTopic,  \* MessageServerConfig.MaxPendingMessageCountPerTopic
    MaxPendingTaskCount,             \* MessageServerConfig.MaxPendingTaskCount
    SendChannelSize,                 \* MessageServerConfig.SendChannelSize
    DuplicateStreams, \* a client may open a second stream with its current epoch
    UserErrors,       \* the user callback fn may return an error
    HandlerTimeout,   \* GracefulUnregister may time out and drop queued events
    SyncRemove,       \* the API user re-adds a topic only after SyncRemoveHandler returned
    UserRemovesHandlers,  \* the API user calls RemoveHandler
    UserDeregistersPeers, \* the API user calls ScheduleDeregisterPeerTask
    ServerID,         \* m.serverID, the sender of local messages
    MaxLocal,         \* the local caller sends messages 1..MaxLocal (0: no localCh)
    LocalBatchSize    \* receiveLocalMessage's batch limit (1024)

ASSUME /\ HandlesPerTopic \in Nat \ {0}
       /\ {MaxEpoch, MaxSeq, MaxStreams, MaxPendingTaskCount, SendChannelSize} \subseteq Nat \ {0}
       /\ {MaxPeerCount, MaxPendingMessageCountPerTopic, MaxLocal} \subseteq Nat
       /\ LocalBatchSize \in Nat \ {0} /\ ServerID \notin Peers
       /\ {DuplicateStreams, UserErrors, HandlerTimeout, SyncRemove,
           UserRemovesHandlers, UserDeregistersPeers} \subseteq BOOLEAN

StreamIds == 1..MaxStreams
HandleIds == Topics \X (1..HandlesPerTopic)
NoPeer    == 0
NoHandle  == <<"none", 0>>
initAck   == 0

\* Errors that reach errorToRPCResponse.
Errors == {"TopicCongested", "StaleConnection", "DuplicateConnection",
           "HandleCancelled", "TaskQueueCongested", "ReceiverMismatch"}
ExitReasons == {"CONGESTED", "STALE_CONNECTION", "CAPTURE_ID_MISMATCH", "UNKNOWN"}

Entry    == [s : StreamIds, seq : 1..MaxSeq]                \* pendingMessageEntry
Event    == [s : StreamIds, topic : Topics, seq : 1..MaxSeq] \* poolEventArgs
NoEvent  == [s |-> 0]
Response == [kind : {"ack"}, acks : [Topics -> 0..MaxSeq]]
            \cup [kind : {"error"}, reason : ExitReasons]
\* Local messages: RawMessageEntry, its pendingMessageEntry (no StreamMeta,
\* s = 0) and the event AddEvent queues for it; v numbers them in the order
\* the caller sends them.
RawMessageEntry == [topic : Topics, v : 1..MaxLocal]
LocalEntry      == [s : {0}, seq : 1..MaxLocal]
LocalEvent      == [s : {0}, topic : Topics, seq : 1..MaxLocal]
Task == [kind : {"msgBatch"}, s : StreamIds, topic : Topics, seq : 1..MaxSeq]
        \cup [kind : {"localBatch"}, entries : Seq(RawMessageEntry)]
        \cup [kind : {"regPeer"}, s : StreamIds]
        \cup [kind : {"deregPeer"}, peer : Peers]
        \cup [kind : {"regHandler"}, h : HandleIds]
        \cup [kind : {"deregHandler"}, topic : Topics]

VARIABLES
    srv,             \* "running", or "exited" once run() returned an error
    loop,            \* run loop: "select", or blocked in a Send of its task or of tick
    taskQueue,       \* m.taskQueue
    peers,           \* m.peers: sender -> stream of its cdcPeer, or NoPeer
    handlers,        \* m.handlers: topic -> handle, or NoHandle
    pendingMessages, \* m.pendingMessages: <<topic, sender>> -> entries
    acks,            \* m.acks: sender -> topic -> last acknowledged seq
    streams,         \* per gRPC stream: meta, receive phase, sendCh, cdcPeer.valid,
                     \* and (history) whether registerPeer ever installed it
    hState,          \* worker-pool handle status
    hQueue,          \* events queued on a handle
    hCur,            \* event whose fn returned and whose acks.Set is pending
    unregistering,   \* handles whose GracefulUnregister goroutine is running
    cliEpoch,        \* client: epoch of its latest stream
    ackSeen,         \* client: last ack received per topic
    calls,           \* history: seqs fn accepted (returned nil), per sender and topic
    aborted,         \* history: the peers (streams) cdcPeer.abort was called on
    localNext,       \* the local caller's next message
    localBatch,      \* receiveLocalMessage's batchRawMessages
    localCalls,      \* history: local messages fn accepted, per topic
    localDrops       \* history: lengths at which a local pending buffer was deleted

vars == <<srv, loop, taskQueue, peers, handlers, pendingMessages, acks, streams,
          hState, hQueue, hCur, unregistering, cliEpoch, ackSeen, calls, aborted,
          localNext, localBatch, localCalls, localDrops>>
localVars  == <<localNext, localBatch, localCalls, localDrops>>
handleVars == <<hState, hQueue, hCur, unregistering>>
clientVars == <<cliEpoch, ackSeen>>

Sender(s) == streams[s].sender
Epoch(s)  == streams[s].epoch
Running   == srv = "running"

-----------------------------------------------------------------------------
(* streamHandle.Send: fails with ErrPeerMessageInternalSenderClosed once   *)
(* the handle is closed, otherwise blocks until sendCh has room.           *)

CanSend(s) == streams[s].phase = "closed" \/ Len(streams[s].sendCh) < SendChannelSize

(* What is left in the sendCh of a closed handle is never read: only how  *)
(* many responses fill it matters.                                         *)
Unread == [kind |-> "unread"]
Abandon(ch) == [i \in DOMAIN ch |-> Unread]

SendTo(strs, s, resp) ==
    IF strs[s].phase = "closed" THEN strs
    ELSE [strs EXCEPT ![s].sendCh = Append(@, resp)]

errorToRPCResponse(err) ==
    [kind |-> "error",
     reason |-> CASE err \in {"TopicCongested", "TaskQueueCongested"} -> "CONGESTED"
                  [] err = "StaleConnection"  -> "STALE_CONNECTION"
                  [] err = "ReceiverMismatch" -> "CAPTURE_ID_MISMATCH"
                  [] OTHER -> "UNKNOWN"]

(* deregisterPeer deletes the peer from m.peers, then aborts it.           *)
DeletePeer_kept(p) == peers   \* fault: the delete is forgotten
DeletePeer(p) == [peers EXCEPT ![p] = NoPeer]

(* cdcPeer.abort on strs: send the error, then mark the peer invalid.     *)
(* Aborting an invalid peer is a log.Panic; aborted records every abort.   *)
Abort(strs, s, err) ==
    /\ streams' = [SendTo(strs, s, errorToRPCResponse(err)) EXCEPT ![s].valid = FALSE]
    /\ aborted' = Append(aborted, s)

(* scheduleTask: non-blocking enqueue, ErrPeerMessageTaskQueueCongested    *)
(* when full.                                                              *)
QueueHasRoom_offByOne == Len(taskQueue) <= MaxPendingTaskCount   \* fault
QueueHasRoom == Len(taskQueue) < MaxPendingTaskCount
ScheduleTask(task) ==
    taskQueue' = IF QueueHasRoom THEN Append(taskQueue, task) ELSE taskQueue

(* scheduleTaskBlocking: waits until m.taskQueue has room.                 *)
ScheduleTaskBlocking(task) ==
    /\ QueueHasRoom
    /\ taskQueue' = Append(taskQueue, task)

-----------------------------------------------------------------------------
(* The handler wrapper's sequence checks (AddHandler's RegisterEvent fn).  *)

\* Faults: a strict comparison, an off-by-one, the check left out.
IsRepeated_strict(lastAck, seq)   == lastAck > seq
IsRepeated_skipNext(lastAck, seq) == lastAck >= seq - 1
IsRepeated_never(lastAck, seq)    == FALSE
IsRepeated(lastAck, seq) == lastAck >= seq

IsDataLost_never(lastAck, seq) == FALSE   \* fault: the gap check left out
IsDataLost(lastAck, seq) == lastAck # initAck /\ seq > lastAck + 1

(* handleMessage's admission test: a peer with this stream's epoch is      *)
(* registered and valid.                                                   *)
PeerAccepts(s) ==
    LET pe == peers[Sender(s)]
    IN  pe # NoPeer /\ Epoch(pe) = Epoch(s) /\ streams[pe].valid

(* The pending entries handlePendingMessages hands to a new handler for   *)
(* topic t: per sender in FIFO order, without those handleMessage drops.   *)
AsEvents(t, entries) ==
    [i \in DOMAIN entries |-> [s |-> entries[i].s, topic |-> t, seq |-> entries[i].seq]]

DrainPending(t) ==
    FoldSet(LAMBDA p, acc :
              acc \o AsEvents(t, SelectSeq(pendingMessages[<<t, p>>],
                                           LAMBDA e : PeerAccepts(e.s))),
            <<>>, Peers)
    \o AsEvents(t, pendingMessages[<<t, ServerID>>])

-----------------------------------------------------------------------------
Init ==
    /\ srv = "running"
    /\ loop = "select"
    /\ taskQueue = <<>>
    /\ peers = [p \in Peers |-> NoPeer]
    /\ handlers = [t \in Topics |-> NoHandle]
    /\ pendingMessages = [k \in Topics \X (Peers \cup {ServerID}) |-> <<>>]
    /\ acks = [p \in Peers |-> [t \in Topics |-> initAck]]
    /\ streams = <<>>
    /\ hState = [h \in HandleIds |-> "idle"]
    /\ hQueue = [h \in HandleIds |-> <<>>]
    /\ hCur = [h \in HandleIds |-> NoEvent]
    /\ unregistering = {}
    /\ cliEpoch = [p \in Peers |-> 0]
    /\ ackSeen = [p \in Peers |-> [t \in Topics |-> 0]]
    /\ calls = [p \in Peers |-> [t \in Topics |-> <<>>]]
    /\ aborted = <<>>
    /\ localNext = 1 /\ localBatch = <<>>
    /\ localCalls = [t \in Topics |-> <<>>] /\ localDrops = <<>>

-----------------------------------------------------------------------------
(***************************************************************************)
(* Clients and the per-stream goroutines of SendMessage.                   *)
(***************************************************************************)

(* A client opens a stream with its next epoch (or, when DuplicateStreams, *)
(* its current one) and will resend every message after its last ack.     *)
OpenStream(p, e) ==
    /\ Running
    /\ Len(streams) < MaxStreams
    /\ e \in 1..MaxEpoch
    /\ \/ e = cliEpoch[p] + 1
       \/ DuplicateStreams /\ e = cliEpoch[p] /\ e > 0
    /\ streams' = Append(streams, [sender |-> p, epoch |-> e, phase |-> "init",
                                   next |-> [t \in Topics |-> ackSeen[p][t] + 1],
                                   sendCh |-> <<>>, valid |-> FALSE, reg |-> FALSE])
    /\ cliEpoch' = [cliEpoch EXCEPT ![p] = e]
    /\ UNCHANGED <<srv, loop, taskQueue, peers, handlers, pendingMessages, acks,
                   handleVars, ackSeen, calls, aborted, localVars>>

(* receive: the blocking taskOnRegisterPeer enqueue.                       *)
ReceiveRegister(s) ==
    /\ Running
    /\ streams[s].phase = "init"
    /\ ScheduleTaskBlocking([kind |-> "regPeer", s |-> s])
    /\ streams' = [streams EXCEPT ![s].phase = "recv"]
    /\ UNCHANGED <<srv, loop, peers, handlers, pendingMessages, acks, handleVars,
                   clientVars, calls, aborted, localVars>>

(* receive: stream.Recv returns a packet, enqueued (blocking) as a batch.  *)
ReceivePacket(s, t) ==
    /\ Running
    /\ streams[s].phase = "recv"
    /\ streams[s].next[t] <= MaxSeq
    /\ ScheduleTaskBlocking([kind |-> "msgBatch", s |-> s, topic |-> t,
                             seq |-> streams[s].next[t]])
    /\ streams' = [streams EXCEPT ![s].next[t] = @ + 1]
    /\ UNCHANGED <<srv, loop, peers, handlers, pendingMessages, acks, handleVars,
                   clientVars, calls, aborted, localVars>>

(* stream.Recv fails (client gone, transport broken): the receive          *)
(* goroutine returns and closes the stream handle, the send goroutine      *)
(* sees it closed and cancels the stream; what is left in sendCh is never  *)
(* read.  Nothing tells the run loop.                                      *)
StreamClose(s) ==
    /\ Running
    /\ streams[s].phase \in {"init", "recv"}
    /\ streams' = [streams EXCEPT ![s].phase = "closed", ![s].sendCh = Abandon(@)]
    /\ UNCHANGED <<srv, loop, taskQueue, peers, handlers, pendingMessages, acks,
                   handleVars, clientVars, calls, aborted, localVars>>

(* The send goroutine writes the head of sendCh to the client.  The client *)
(* records acks and closes the stream on any error frame.                  *)
ClientReceive(s) ==
    /\ Running
    /\ streams[s].phase \in {"init", "recv"}
    /\ streams[s].sendCh # <<>>
    /\ LET resp == Head(streams[s].sendCh)
           p    == Sender(s)
       IN  IF resp.kind = "ack"
           THEN /\ ackSeen' = [ackSeen EXCEPT ![p] =
                      [t \in Topics |-> IF resp.acks[t] # initAck THEN resp.acks[t]
                                                                  ELSE @[t]]]
                /\ streams' = [streams EXCEPT ![s].sendCh = Tail(@)]
           ELSE /\ streams' = [streams EXCEPT ![s].phase = "closed", ![s].sendCh = Abandon(Tail(@))]
                /\ UNCHANGED ackSeen
    /\ UNCHANGED <<srv, loop, taskQueue, peers, handlers, pendingMessages, acks,
                   handleVars, cliEpoch, calls, aborted, localVars>>

-----------------------------------------------------------------------------
(***************************************************************************)
(* The public API, called by the local user of the server.                 *)
(***************************************************************************)

(* The user adds the k-th handler of topic t once the (k-1)-th is gone:    *)
(* after SyncRemoveHandler returned, or, with SyncRemove false, once its   *)
(* deregistration has been processed.                                      *)
MayAdd(h) ==
    LET prev == <<h[1], h[2] - 1>>
    IN  IF h[2] = 1 THEN TRUE
        ELSE IF SyncRemove THEN hState[prev] \in {"removed", "leaked"}
        ELSE hState[prev] \notin {"idle", "added"} /\ handlers[h[1]] # prev

(* AddHandler: RegisterEvent on the pool, then a non-blocking              *)
(* taskOnRegisterHandler; on ErrPeerMessageTaskQueueCongested the pool     *)
(* handle is left registered but never reachable.                          *)
AddHandler(h) ==
    /\ Running
    /\ hState[h] = "idle"
    /\ MayAdd(h)
    /\ ScheduleTask([kind |-> "regHandler", h |-> h])
    /\ hState' = [hState EXCEPT ![h] = IF QueueHasRoom THEN "added" ELSE "leaked"]
    /\ UNCHANGED <<srv, loop, peers, handlers, pendingMessages, acks, streams, hQueue,
                   hCur, unregistering, clientVars, calls, aborted, localVars>>

RemoveHandler(t) ==
    /\ Running
    /\ UserRemovesHandlers
    /\ \E h \in HandleIds : h[1] = t /\ hState[h] \in {"added", "running", "exited"}
    /\ QueueHasRoom
    /\ ScheduleTask([kind |-> "deregHandler", topic |-> t])
    /\ UNCHANGED <<srv, loop, peers, handlers, pendingMessages, acks, streams,
                   handleVars, clientVars, calls, aborted, localVars>>

ScheduleDeregisterPeerTask(p) ==
    /\ Running
    /\ UserDeregistersPeers
    /\ peers[p] # NoPeer
    /\ QueueHasRoom
    /\ ScheduleTask([kind |-> "deregPeer", peer |-> p])
    /\ UNCHANGED <<srv, loop, peers, handlers, pendingMessages, acks, streams,
                   handleVars, clientVars, calls, aborted, localVars>>

-----------------------------------------------------------------------------
(***************************************************************************)
(* Local ingress: Run's receiveLocalMessage goroutine and its caller.      *)
(***************************************************************************)

(* sendTaskBlocking: enqueue the batch with scheduleTaskBlocking, then     *)
(* start a new one.                                                        *)
SendLocalBatch_noReset(batch) ==   \* fault: the batch is not cleared
    ScheduleTaskBlocking([kind |-> "localBatch", entries |-> batch]) /\ localBatch' = batch
SendLocalBatch(batch) ==
    ScheduleTaskBlocking([kind |-> "localBatch", entries |-> batch]) /\ localBatch' = <<>>

(* The next message from localCh joins the batch; a full batch is sent.   *)
LocalReceive(t) ==
    /\ Running
    /\ localNext <= MaxLocal
    /\ localNext' = localNext + 1
    /\ LET batch == Append(localBatch, [topic |-> t, v |-> localNext])
       IN  IF Len(batch) >= LocalBatchSize
           THEN SendLocalBatch(batch)
           ELSE localBatch' = batch /\ UNCHANGED taskQueue
    /\ UNCHANGED <<srv, loop, peers, handlers, pendingMessages, acks, streams, handleVars,
                   clientVars, calls, aborted, localCalls, localDrops>>

(* The 10 ms ticker sends a non-empty batch.                               *)
LocalTick ==
    /\ Running
    /\ localBatch # <<>>
    /\ SendLocalBatch(localBatch)
    /\ UNCHANGED <<srv, loop, peers, handlers, pendingMessages, acks, streams, handleVars,
                   clientVars, calls, aborted, localNext, localCalls, localDrops>>

(* The caller closes localCh: ErrPeerMessageServerClosed ends Run's        *)
(* errgroup, and with it run().                                            *)
LocalClose ==
    /\ Running
    /\ MaxLocal > 0
    /\ srv' = "closed"
    /\ UNCHANGED <<loop, taskQueue, peers, handlers, pendingMessages, acks, streams,
                   handleVars, clientVars, calls, aborted, localVars>>

-----------------------------------------------------------------------------
(***************************************************************************)
(* The run loop: one task of m.taskQueue per step, or a tick.              *)
(***************************************************************************)

HeadTask(kind) ==
    Running /\ loop # "tick" /\ taskQueue # <<>> /\ Head(taskQueue).kind = kind

NumPeers == Cardinality({q \in Peers : peers[q] # NoPeer})

(* handleMessage's two deregistering cases for a message of an accepted    *)
(* peer: no handler and a full pending buffer, or a handle that has        *)
(* stopped (AddEvent fails).                                               *)
TopicCongested(task) ==
    /\ handlers[task.topic] = NoHandle
    /\ Len(pendingMessages[<<task.topic, Sender(task.s)>>]) > MaxPendingMessageCountPerTopic
HandleCancelled(task) ==
    handlers[task.topic] # NoHandle /\ hState[handlers[task.topic]] # "running"

(* handleMessage for one entry of a taskOnMessageBatch.                    *)
DoMessageBatch ==
    /\ HeadTask("msgBatch")
    /\ taskQueue' = Tail(taskQueue)
    /\ loop' = "select"
    /\ LET task == Head(taskQueue)
           t    == task.topic
           p    == Sender(task.s)
           pe   == peers[p]
           key  == <<t, p>>
           h    == handlers[t]
       IN  \/ /\ ~PeerAccepts(task.s)
              /\ UNCHANGED <<srv, peers, pendingMessages, streams, hQueue, aborted>>
           \/ /\ PeerAccepts(task.s)
              /\ h = NoHandle
              /\ Len(pendingMessages[key]) <= MaxPendingMessageCountPerTopic
              /\ pendingMessages' = [pendingMessages EXCEPT ![key] =
                                        Append(@, [s |-> task.s, seq |-> task.seq])]
              /\ UNCHANGED <<srv, peers, streams, hQueue, aborted>>
           \/ /\ PeerAccepts(task.s)
              /\ TopicCongested(task)
              /\ CanSend(pe)
              /\ pendingMessages' = [pendingMessages EXCEPT ![key] = <<>>]
              /\ peers' = DeletePeer(p)
              /\ Abort(streams, pe, "TopicCongested")
              /\ UNCHANGED <<srv, hQueue>>
           \/ /\ PeerAccepts(task.s)
              /\ h # NoHandle
              /\ hState[h] = "running"
              /\ hQueue' = [hQueue EXCEPT ![h] =
                               Append(@, [s |-> task.s, topic |-> t, seq |-> task.seq])]
              /\ UNCHANGED <<srv, peers, pendingMessages, streams, aborted>>
           \/ /\ PeerAccepts(task.s)
              /\ HandleCancelled(task)
              /\ CanSend(pe)
              /\ peers' = DeletePeer(p)
              /\ Abort(streams, pe, "HandleCancelled")
              /\ UNCHANGED <<srv, pendingMessages, hQueue>>
    /\ UNCHANGED <<handlers, acks, hState, hCur, unregistering, clientVars, calls, localVars>>

(* handleRawMessage for one local entry, on the pending buffers, the       *)
(* handle queues and the drop history: to the handler (an AddEvent error   *)
(* is ignored), or to the pending buffer of (topic, serverID), deleted     *)
(* once it holds MaxPendingMessageCountPerTopic entries.                   *)
HandleRawMessage(acc, e) ==
    LET h   == handlers[e.topic]
        key == <<e.topic, ServerID>>
        buf == Append(acc.pm[key], [s |-> 0, seq |-> e.v])
    IN  CASE h # NoHandle /\ hState[h] = "running" ->
               [acc EXCEPT !.hq[h] = Append(@, [s |-> 0, topic |-> e.topic, seq |-> e.v])]
          [] h # NoHandle -> acc
          [] Len(buf) >= MaxPendingMessageCountPerTopic ->
               [acc EXCEPT !.pm[key] = <<>>, !.drops = Append(@, Len(buf))]
          [] OTHER -> [acc EXCEPT !.pm[key] = buf]

(* taskOnMessageBatch with raw entries: handleRawMessage for each, in order. *)
DoLocalBatch ==
    /\ HeadTask("localBatch")
    /\ taskQueue' = Tail(taskQueue)
    /\ LET r == FoldLeft(HandleRawMessage,
                         [pm |-> pendingMessages, hq |-> hQueue, drops |-> localDrops],
                         Head(taskQueue).entries)
       IN  pendingMessages' = r.pm /\ hQueue' = r.hq /\ localDrops' = r.drops
    /\ UNCHANGED <<srv, loop, peers, handlers, acks, streams, hState, hCur, unregistering,
                   clientVars, calls, aborted, localNext, localBatch, localCalls>>

(* run's handling of a registerPeer error: a stale or duplicate answer is  *)
(* sent on the stream and the loop goes on; a failed send, or any other    *)
(* error, returns from run().                                               *)
RegisterPeerError(s, err) ==
    IF err \in {"StaleConnection", "DuplicateConnection"} /\ streams[s].phase # "closed"
    THEN streams' = SendTo(streams, s, errorToRPCResponse(err)) /\ UNCHANGED srv
    ELSE srv' = "exited" /\ UNCHANGED streams

(* taskOnRegisterPeer: registerPeer, with RegisterPeerError for its        *)
(* errors.                                                                 *)
DoRegisterPeer ==
    /\ HeadTask("regPeer")
    /\ taskQueue' = Tail(taskQueue)
    /\ loop' = "select"
    /\ LET s   == Head(taskQueue).s
           p   == Sender(s)
           old == peers[p]
       IN  \/ /\ old = NoPeer
              /\ NumPeers > MaxPeerCount
              /\ RegisterPeerError(s, "TooManyPeers")
              /\ UNCHANGED <<peers, aborted>>
           \/ /\ old = NoPeer
              /\ NumPeers <= MaxPeerCount
              /\ peers' = [peers EXCEPT ![p] = s]
              /\ streams' = [streams EXCEPT ![s].valid = TRUE, ![s].reg = TRUE]
              /\ UNCHANGED <<srv, aborted>>
           \/ /\ old # NoPeer
              /\ Epoch(old) >= Epoch(s)
              /\ CanSend(s)
              /\ RegisterPeerError(s, IF Epoch(old) > Epoch(s) THEN "StaleConnection"
                                                            ELSE "DuplicateConnection")
              /\ UNCHANGED <<peers, aborted>>
           \/ /\ old # NoPeer
              /\ Epoch(old) < Epoch(s)
              /\ CanSend(old)
              /\ peers' = [DeletePeer(p) EXCEPT ![p] = s]
              /\ Abort([streams EXCEPT ![s].valid = TRUE, ![s].reg = TRUE], old, "StaleConnection")
              /\ UNCHANGED srv
    /\ UNCHANGED <<handlers, pendingMessages, acks, handleVars, clientVars, calls, localVars>>

(* taskOnDeregisterPeer: deregisterPeerByID, without an error.             *)
DoDeregisterPeer ==
    /\ HeadTask("deregPeer")
    /\ taskQueue' = Tail(taskQueue)
    /\ peers' = IF peers[Head(taskQueue).peer] # NoPeer
                THEN DeletePeer(Head(taskQueue).peer) ELSE peers
    /\ UNCHANGED <<srv, loop, handlers, pendingMessages, acks, streams, handleVars,
                   clientVars, calls, aborted, localVars>>

(* taskOnRegisterHandler: registerHandler, then handlePendingMessages.     *)
(* Its log.Panic on a second handler for the topic is excluded by MayAdd.  *)
DoRegisterHandler ==
    /\ HeadTask("regHandler")
    /\ taskQueue' = Tail(taskQueue)
    /\ LET h == Head(taskQueue).h
           t == h[1]
       IN  /\ handlers' = [handlers EXCEPT ![t] = h]
           /\ hState' = [hState EXCEPT ![h] = "running"]
           /\ hQueue' = [hQueue EXCEPT ![h] = @ \o DrainPending(t)]
           /\ pendingMessages' = [k \in DOMAIN pendingMessages |->
                                    IF k[1] = t THEN <<>> ELSE pendingMessages[k]]
    /\ UNCHANGED <<srv, loop, peers, acks, streams, hCur, unregistering, clientVars, calls, aborted,
                   localVars>>

(* taskOnDeregisterHandler: delete the handler and start its               *)
(* GracefulUnregister goroutine; a no-op for an unknown topic.             *)
DoDeregisterHandler ==
    /\ HeadTask("deregHandler")
    /\ taskQueue' = Tail(taskQueue)
    /\ LET t == Head(taskQueue).topic
       IN  IF handlers[t] # NoHandle
           THEN /\ handlers' = [handlers EXCEPT ![t] = NoHandle]
                /\ unregistering' = unregistering \cup {handlers[t]}
           ELSE UNCHANGED <<handlers, unregistering>>
    /\ UNCHANGED <<srv, loop, peers, pendingMessages, acks, streams, hState, hQueue,
                   hCur, clientVars, calls, aborted, localVars>>

(* tick: one ack frame per registered peer that has acks; peers whose      *)
(* handle is closed are deregistered without an error afterwards.          *)
AckPeers == {p \in Peers : peers[p] # NoPeer /\ \E t \in Topics : acks[p][t] # initAck}

(* The peers whose Send fails with ErrPeerMessageInternalSenderClosed go   *)
(* to peersToDeregister.                                                   *)
SenderClosedPeers == {p \in AckPeers : streams[peers[p]].phase = "closed"}

Tick ==
    /\ Running
    /\ loop # "task"
    /\ loop' = "select"
    /\ \A p \in AckPeers : CanSend(peers[p])
    /\ LET ackStreams == {peers[p] : p \in AckPeers}
       IN  streams' = [s \in DOMAIN streams |->
                         IF s \in ackStreams
                         THEN SendTo(streams, s, [kind |-> "ack", acks |-> acks[Sender(s)]])[s]
                         ELSE streams[s]]
    /\ peers' = [p \in Peers |-> IF p \in SenderClosedPeers THEN NoPeer ELSE peers[p]]
    /\ UNCHANGED <<srv, taskQueue, handlers, pendingMessages, acks, handleVars,
                   clientVars, calls, aborted, localVars>>

(* The stream the head task's handler sends to: the abort of handleMessage *)
(* and registerPeer (line 124), or run's answer to a stale or duplicate    *)
(* stream (line 309); NoPeer when its case sends nothing.                  *)
HeadSendTarget ==
    LET task == Head(taskQueue)
        old  == peers[Sender(task.s)]
    IN  CASE task.kind = "msgBatch" /\ PeerAccepts(task.s)
                 /\ (TopicCongested(task) \/ HandleCancelled(task)) -> old
          [] task.kind = "regPeer" /\ old # NoPeer ->
                 IF Epoch(old) >= Epoch(task.s) THEN task.s ELSE old
          [] OTHER -> NoPeer

(* The select takes the head task or the ticker, and the Send it makes     *)
(* finds sendCh of an open stream full: the run loop blocks in it and does *)
(* nothing else until the send goroutine makes room (or the stream         *)
(* closes). The handler or tick then completes as one step.                *)
BlockInSend ==
    /\ Running
    /\ loop = "select"
    /\ \/ /\ taskQueue # <<>>
          /\ HeadSendTarget # NoPeer
          /\ ~CanSend(HeadSendTarget)
          /\ loop' = "task"
       \/ /\ \E p \in AckPeers : ~CanSend(peers[p])
          /\ loop' = "tick"
    /\ UNCHANGED <<srv, taskQueue, peers, handlers, pendingMessages, acks, streams,
                   handleVars, clientVars, calls, aborted, localVars>>

-----------------------------------------------------------------------------
(***************************************************************************)
(* The worker pool running a handle's events, and GracefulUnregister.      *)
(***************************************************************************)

(* The handle exits with an error: its queued events are skipped and       *)
(* OnExit schedules taskOnDeregisterHandler, dropped when the queue is     *)
(* full.                                                                   *)
HandleExit(h) ==
    /\ hState' = [hState EXCEPT ![h] = "exited"]
    /\ hQueue' = [hQueue EXCEPT ![h] = <<>>]
    /\ ScheduleTask([kind |-> "deregHandler", topic |-> h[1]])

(* The wrapper fn of AddHandler up to and including the user callback.     *)
HandleEvent(h) ==
    /\ Running
    /\ hState[h] = "running"
    /\ hCur[h] = NoEvent
    /\ hQueue[h] # <<>>
    /\ Head(hQueue[h]).s # 0
    /\ LET ev      == Head(hQueue[h])
           p       == Sender(ev.s)
           lastAck == acks[p][ev.topic]
           called  == [calls EXCEPT ![p][ev.topic] = Append(@, ev.seq)]
       IN  \/ /\ IsRepeated(lastAck, ev.seq)
              /\ hQueue' = [hQueue EXCEPT ![h] = Tail(@)]
              /\ UNCHANGED <<taskQueue, hState, hCur, calls, aborted>>
           \/ /\ ~IsRepeated(lastAck, ev.seq)
              /\ IsDataLost(lastAck, ev.seq)
              /\ HandleExit(h)
              /\ UNCHANGED <<hCur, calls, aborted>>
           \/ /\ ~IsRepeated(lastAck, ev.seq)
              /\ ~IsDataLost(lastAck, ev.seq)
              /\ calls' = called
              /\ hQueue' = [hQueue EXCEPT ![h] = Tail(@)]
              /\ hCur' = [hCur EXCEPT ![h] = ev]
              /\ UNCHANGED <<taskQueue, hState>>
           \/ /\ UserErrors
              /\ ~IsRepeated(lastAck, ev.seq)
              /\ ~IsDataLost(lastAck, ev.seq)
              /\ HandleExit(h)
              /\ UNCHANGED <<hCur, calls>>
    /\ UNCHANGED <<srv, loop, peers, handlers, pendingMessages, acks, streams,
                   unregistering, clientVars, aborted, localVars>>

(* The rest of the wrapper: acks.Set after fn succeeded.                   *)
HandleSetAck(h) ==
    /\ Running
    /\ hCur[h] # NoEvent
    /\ acks' = [acks EXCEPT ![Sender(hCur[h].s)][hCur[h].topic] = hCur[h].seq]
    /\ hCur' = [hCur EXCEPT ![h] = NoEvent]
    /\ UNCHANGED <<srv, loop, taskQueue, peers, handlers, pendingMessages, streams,
                   hState, hQueue, unregistering, clientVars, calls, aborted, localVars>>

(* The wrapper fn for a local message: fn(serverID, value), nothing else. *)
HandleLocalEvent(h) ==
    /\ Running
    /\ hState[h] = "running"
    /\ hCur[h] = NoEvent
    /\ hQueue[h] # <<>>
    /\ Head(hQueue[h]).s = 0
    /\ LET ev == Head(hQueue[h])
       IN  \/ /\ localCalls' = [localCalls EXCEPT ![ev.topic] = Append(@, ev.seq)]
              /\ hQueue' = [hQueue EXCEPT ![h] = Tail(@)]
              /\ UNCHANGED <<taskQueue, hState>>
           \/ /\ UserErrors
              /\ HandleExit(h)
              /\ UNCHANGED localCalls
    /\ UNCHANGED <<srv, loop, peers, handlers, pendingMessages, acks, streams, hCur,
                   unregistering, clientVars, calls, aborted, localNext, localBatch,
                   localDrops>>

(* GracefulUnregister returns: the queue drained, the handle already       *)
(* cancelled, or (HandlerTimeout) forcefully, dropping what is queued.     *)
UnregisterDone(h) ==
    /\ Running
    /\ h \in unregistering
    /\ \/ hState[h] = "exited"
       \/ hQueue[h] = <<>> /\ hCur[h] = NoEvent
       \/ HandlerTimeout
    /\ hState' = [hState EXCEPT ![h] = "removed"]
    /\ hQueue' = [hQueue EXCEPT ![h] = <<>>]
    /\ unregistering' = unregistering \ {h}
    /\ UNCHANGED <<srv, loop, taskQueue, peers, handlers, pendingMessages, acks,
                   streams, hCur, clientVars, calls, aborted, localVars>>

(* run() has returned or the process panicked: nothing moves any more.     *)
Stopped == ~Running /\ UNCHANGED vars

-----------------------------------------------------------------------------
RemoteNext ==
    \/ \E p \in Peers, e \in 1..MaxEpoch : OpenStream(p, e)
    \/ \E s \in DOMAIN streams : \/ ReceiveRegister(s)
                                 \/ \E t \in Topics : ReceivePacket(s, t)
                                 \/ StreamClose(s)
                                 \/ ClientReceive(s)
    \/ \E h \in HandleIds : AddHandler(h)
    \/ \E t \in Topics : RemoveHandler(t)
    \/ \E p \in Peers : ScheduleDeregisterPeerTask(p)
    \/ DoMessageBatch
    \/ DoRegisterPeer
    \/ DoDeregisterPeer
    \/ DoRegisterHandler
    \/ DoDeregisterHandler
    \/ Tick
    \/ BlockInSend
    \/ \E h \in HandleIds : HandleEvent(h) \/ HandleSetAck(h) \/ UnregisterDone(h)

Next ==
    \/ RemoteNext
    \/ \E t \in Topics : LocalReceive(t)
    \/ LocalTick
    \/ LocalClose
    \/ DoLocalBatch
    \/ \E h \in HandleIds : HandleLocalEvent(h)
    \/ Stopped

(* The server's own goroutines keep moving while they can: the run loop   *)
(* (its select takes a queued task or the ticker), each stream's receive   *)
(* goroutine up to its blocking register enqueue, the stream send          *)
(* goroutines with clients that read their stream, the worker pool running *)
(* handle events, the GracefulUnregister goroutines and the local ticker.  *)
(* The clients' packets and disconnects, the API user and the local caller *)
(* are not fair: they may stop at any time.                                *)
Fairness ==
    /\ WF_vars(DoMessageBatch) /\ WF_vars(DoLocalBatch)
    /\ WF_vars(DoRegisterPeer) /\ WF_vars(DoDeregisterPeer)
    /\ WF_vars(DoRegisterHandler) /\ WF_vars(DoDeregisterHandler)
    /\ WF_vars(Tick) /\ WF_vars(BlockInSend) /\ WF_vars(LocalTick)
    /\ \A s \in StreamIds :
         /\ WF_vars(s \in DOMAIN streams /\ ReceiveRegister(s))
         /\ WF_vars(s \in DOMAIN streams /\ ClientReceive(s))
    /\ \A h \in HandleIds :
         /\ WF_vars(HandleEvent(h)) /\ WF_vars(HandleSetAck(h))
         /\ WF_vars(HandleLocalEvent(h)) /\ WF_vars(UnregisterDone(h))

Spec == Init /\ [][Next]_vars /\ Fairness

-----------------------------------------------------------------------------
(***************************************************************************)
(* Properties.                                                             *)
(***************************************************************************)

TypeOK ==
    /\ srv \in {"running", "exited", "closed"}
    /\ loop \in {"select", "task", "tick"}
    /\ aborted \in Seq(DOMAIN streams)
    /\ taskQueue \in Seq(Task) /\ Len(taskQueue) <= MaxPendingTaskCount
    /\ peers \in [Peers -> {NoPeer} \cup DOMAIN streams]
    /\ handlers \in [Topics -> HandleIds \cup {NoHandle}]
    /\ pendingMessages \in [Topics \X (Peers \cup {ServerID}) -> Seq(Entry \cup LocalEntry)]
    /\ acks \in [Peers -> [Topics -> 0..MaxSeq]]
    /\ \A s \in DOMAIN streams :
         /\ streams[s].sender \in Peers /\ streams[s].epoch \in 1..MaxEpoch
         /\ streams[s].phase \in {"init", "recv", "closed"}
         /\ streams[s].next \in [Topics -> 1..MaxSeq + 1]
         /\ streams[s].sendCh \in Seq(Response \cup {Unread})
         /\ Len(streams[s].sendCh) <= SendChannelSize
         /\ streams[s].valid \in BOOLEAN /\ streams[s].reg \in BOOLEAN
    /\ hState \in [HandleIds -> {"idle", "added", "leaked", "running", "exited", "removed"}]
    /\ hQueue \in [HandleIds -> Seq(Event \cup LocalEvent)]
    /\ hCur \in [HandleIds -> Event \cup {NoEvent}]
    /\ unregistering \subseteq HandleIds
    /\ cliEpoch \in [Peers -> 0..MaxEpoch]
    /\ ackSeen \in [Peers -> [Topics -> 0..MaxSeq]]
    /\ calls \in [Peers -> [Topics -> Seq(1..MaxSeq)]]
    /\ localNext \in 1..MaxLocal + 1 /\ localBatch \in Seq(RawMessageEntry)
    /\ localCalls \in [Topics -> Seq(1..MaxLocal)] /\ localDrops \in Seq(Nat)

(* §8: for every sender and topic the user callback is invoked with        *)
(* strictly increasing sequences without gaps: the repeated-message and    *)
(* data-loss checks of the handler wrapper, across reconnects, epochs,     *)
(* pending buffering and handler exits, never let a duplicate or a         *)
(* message past a gap reach fn.                                            *)
DeliveryContiguous ==
    \A p \in Peers, t \in Topics :
        \A i \in 2..Len(calls[p][t]) : calls[p][t][i] = calls[p][t][i - 1] + 1

(* At-least-once: every sequence up to the last ack a client has seen has *)
(* been passed to the user callback.  An ack makes the client drop the     *)
(* message, so an ack for an undelivered message is silent data loss.      *)
AckedImpliesDelivered ==
    \A p \in Peers, t \in Topics :
        \A n \in 1..ackSeen[p][t] : \E i \in DOMAIN calls[p][t] : calls[p][t][i] = n

(* cdcPeer.abort is never called on a peer that is already invalid (the    *)
(* log.Panic in abort): since only abort clears valid, no peer is aborted  *)
(* twice, whichever of congestion, a cancelled handle or a newer epoch     *)
(* deregisters it.                                                         *)
NoInvalidPeerAbort == IsInjective(aborted)

(* The ack table's last-delivered sequence of a sender and topic never     *)
(* decreases (spec invariant 1), whatever the handler steps interleave.    *)
AckMonotonic ==
    [][\A p \in Peers, t \in Topics : acks'[p][t] >= acks[p][t]]_acks

(* The run loop survives every peer's connection errors (§4.3: errors of  *)
(* taskOnRegisterPeer are not fatal to the server).                        *)
RunSurvivesPeerErrors == srv # "exited"

(* MessageServerConfig's limits are exact (§4.3, §4.4, invariant 5):     *)
(* registerPeer admits a peer only while fewer than MaxPeerCount are       *)
(* registered; the pending buffer of a topic and sender, remote or local,  *)
(* never holds more than MaxPendingMessageCountPerTopic entries; and       *)
(* handleRawMessage drops a local buffer only when it would exceed it.     *)
ConfigLimitsExact ==
    /\ NumPeers <= MaxPeerCount
    /\ \A k \in DOMAIN pendingMessages :
         Len(pendingMessages[k]) <= MaxPendingMessageCountPerTopic
    /\ \A i \in DOMAIN localDrops : localDrops[i] > MaxPendingMessageCountPerTopic

(* §4.4/§4.5: local messages of a topic reach fn in the order the caller  *)
(* sent them on localCh, each at most once, through receiveLocalMessage's *)
(* batches, the task queue, the pending buffer of (topic, serverID) and   *)
(* the handler's event queue, across handler errors and re-adds.          *)
LocalInOrder ==
    \A t \in Topics : \A i \in 2..Len(localCalls[t]) : localCalls[t][i - 1] < localCalls[t][i]

(* Epochs arbitrate a sender's streams (spec §2, §4.3): once m.peers has  *)
(* held a stream of a sender, it never holds one of that sender with a     *)
(* lower epoch, also after the newer peer was deregistered (by tick, a     *)
(* congestion abort or ScheduleDeregisterPeerTask) while the older         *)
(* stream's register task was still on its way.                            *)
NoStaleReregistration ==
    \A p \in Peers : peers[p] # NoPeer =>
        \A s \in DOMAIN streams :
            (Sender(s) = p /\ streams[s].reg) => Epoch(s) <= Epoch(peers[p])

(* Every registered peer whose stream has closed eventually leaves m.peers *)
(* and frees its MaxPeerCount slot, also when nothing was acked to it.     *)
ClosedPeerDeregistered ==
    \A s \in StreamIds :
        (s \in DOMAIN streams /\ peers[Sender(s)] = s /\ streams[s].phase = "closed")
        ~> (s \notin DOMAIN streams \/ peers[Sender(s)] # s \/ ~Running)

(* The peer registry follows each sender's newest live stream (§2, §4.3):  *)
(* it never goes back to a stale epoch, and it lets go of a stream that    *)
(* has gone away.                                                          *)
RegistryFollowsStreams == []NoStaleReregistration /\ ClosedPeerDeregistered

(* §6/§7: a handler that exits (ErrDataLost or a user error) deregisters  *)
(* itself: OnExit's taskOnDeregisterHandler eventually removes it from    *)
(* m.handlers, so later messages of its topic are buffered, not refused.  *)
HandlerExitDeregistered ==
    \A h \in HandleIds : hState[h] = "exited" ~> (handlers[h[1]] # h \/ ~Running)

====
