# TLA+ models of TiCDC's message server, DDL puller and asynchronous DDL wait

This directory holds TLA+ models of three parts of the repository, with the
TLC configurations that check them:
* `src/pkg/p2p/server.go`, the server half of TiCDC's peer-to-peer messaging
  (`MessageServer.tla`);
* `src/cdc/puller/ddl_puller.go`, the owner's DDL puller (`DDLPuller.tla`,
  with the promise it keeps in `DDLQueue.tla`, and handleJob's decision for
  one job in `DDLJobFilter.tla`, checked one call at a time in
  `DDLJobHandler.tla`);
* `src/cdc/sink/ddlsink/mysql/async_ddl.go`, the MySQL DDL sink's wait for
  asynchronous add-index jobs (`AsyncDDL.tla`).

The three do not call each other directly (the owner, which connects the DDL
puller to the DDL sink, is not under `src/`), so each is a module of its own.
PROJECT.json lists the components, the runs, the mutants, the map from each
definition to the source lines it translates, the findings and the hazards.

## The system

The `MessageServer` (server.go) has these parts:

* **Run loop** (`run`, lines 241-331). It is one goroutine, and it is the only
  writer of the handler table, the peer registry and the pending buffers. It
  takes one task at a time from `taskQueue`, a buffered channel of size
  `MaxPendingTaskCount`. The task kinds are a message batch, register or
  deregister a peer, and register or deregister a handler. On each tick it
  sends ack frames (`tick`). A register-peer error other than stale or
  duplicate ends `run()`. So does a failed send of a stale or duplicate answer.
  When `run()` ends, the whole server ends.
* **Streams** (`SendMessage`, `receive`). Each gRPC stream gets two
  goroutines. The receive goroutine enqueues a register-peer task and then
  one batch task per packet, with the *blocking* `scheduleTaskBlocking`. The
  send goroutine drains the stream's `sendCh`. When `Recv` fails, the handle
  is closed and the run loop is not told.
* **Peer registry** (`registerPeer`, `deregisterPeer`, `cdcPeer.abort`).
  Streams are arbitrated by epoch:
  * a newer epoch aborts the old peer with STALE_CONNECTION;
  * an older epoch is answered STALE;
  * an equal epoch is answered DUPLICATE.

  Calling `abort` on an invalid peer is a `log.Panic`.
* **Handlers** (`AddHandler`, `RemoveHandler`, `registerHandler`,
  `handlePendingMessages`). Each handler is a worker-pool handle whose
  wrapper does these steps in order:
  1. reads `lastAck`;
  2. skips a repeated sequence;
  3. fails with ErrDataLost on a gap, unless `lastAck = initAck`;
  4. calls the user's `fn`;
  5. sets the ack.

  When the handle exits, `OnExit` schedules the handler's deregistration with
  the *non-blocking* `scheduleTask`. Deregistration runs
  `GracefulUnregister` with a timeout in a goroutine of its own.
* **Pending buffer**. Messages for a topic that has no handler are buffered
  per (topic, sender). When a handler registers, the buffer is replayed. On
  overflow the sender is kicked with CONGESTED.
* **Local ingress** (`receiveLocalMessage`, `handleRawMessage`). When `Run`
  is given `localCh`, a third goroutine collects the local caller's messages
  into batches. A batch is sent with `scheduleTaskBlocking` when it reaches
  1024 entries or on a 10 ms ticker. The run loop hands each raw entry to
  the topic's handle, or appends it to the pending buffer of
  (topic, serverID). That buffer is deleted, without any error, once its
  length is `>= MaxPendingMessageCountPerTopic`. The wrapper calls
  `fn(serverID, value)` for a local entry, with no sequence check and no
  ack. A closed `localCh` ends `Run`.

These run concurrently with the run loop:
* the stream goroutines;
* the handles;
* the GracefulUnregister goroutines;
* the remote clients;
* the API caller.

Some code is not under `src/`: `streamHandle`, the client, the worker pool
and the ack manager. These are modelled from spec.md, only as far as the
server relies on them. Their definitions are marked `spec_modelled` in the
map.

## Module `MessageServer.tla`

`MessageServer.tla` is one module for the whole server. The parts share
`taskQueue` and the ack table, and every hazard found so far needs several
parts at once.

| state | code |
|---|---|
| `srv` | whether `run()` is still running |
| `loop` | where the run loop is: in its `select`, or blocked in a `Send` of its head task (`"task"`) or of `tick` (`"tick"`) |
| `taskQueue` | `m.taskQueue` |
| `peers` | `m.peers`: sender → stream index of its `cdcPeer` |
| `handlers` | `m.handlers` |
| `pendingMessages` | `m.pendingMessages` |
| `acks` | `m.acks` |
| `streams[s]` | a stream: sender, epoch, receive phase, next seq per topic, `sendCh`, `cdcPeer.valid`, and (history) `reg`, whether registerPeer ever installed it |
| `hState`, `hQueue`, `hCur` | worker-pool handle status, queued events, event whose `fn` returned and whose `acks.Set` is pending |
| `unregistering` | running GracefulUnregister goroutines |
| `cliEpoch`, `ackSeen` | the client's epoch and last acks seen |
| `calls`, `aborted` | history: sequences `fn` accepted; peers `abort` was called on |
| `localNext`, `localBatch` | the next local message (numbered 1..`MaxLocal`); `batchRawMessages` |
| `localCalls`, `localDrops` | history: local messages `fn` got, per topic; lengths at which a local pending buffer was deleted |

The actions, with the code each one models:
* **Run-loop tasks**: `DoMessageBatch` (handleMessage),
  `DoRegisterPeer` (registerPeer, with run's handling of its error in
  `RegisterPeerError`),
  `DoDeregisterPeer`, `DoRegisterHandler` (with the pending drain),
  `DoDeregisterHandler`, and `Tick`.
* **Run loop blocked in `Send`**: `BlockInSend`. The abort in registerPeer
  and in handleMessage's congested and cancelled branches
  (`TopicCongested`, `HandleCancelled`), and tick's ack frame, call the
  blocking `Send`. When its target's `sendCh` is full, `BlockInSend` moves
  `loop` to `"task"` or `"tick"` (`HeadSendTarget` names the stream the
  head task would abort). While `loop` is `"task"`, `Tick` and the other
  task kinds are disabled. The head task's own step stays enabled and fires
  once the client has made room. While `loop` is `"tick"`, no task runs. The
  branch conditions of a blocked task read only loop-owned state, so they
  still hold when it resumes. This is the split of one step at a
  suspension point into two actions.
* **Streams**: `OpenStream`, `ReceiveRegister`, `ReceivePacket`,
  `StreamClose`, and `ClientReceive` (the send goroutine plus the client).
  A closed stream keeps what is left in its `sendCh`, unread: `Abandon`
  keeps only how many responses fill it. `streamHandle.Send` (not under
  `src/`, modelled from spec §5) fails on a closed handle and otherwise
  waits for room (`CanSend`).
* **API**: `AddHandler`, `RemoveHandler`, and `ScheduleDeregisterPeerTask`.
* **Local ingress**: `LocalReceive` (a message from `localCh`, sent with
  the batch once it is full, via `SendLocalBatch`), `LocalTick`,
  `LocalClose`, `DoLocalBatch` (the run loop's raw entries, a `FoldLeft` of
  `HandleRawMessage` over the batch), and `HandleLocalEvent` (the wrapper's
  local branch).
* **Handles**:
  * `HandleEvent`: the wrapper up to and including `fn`, with its repeat,
    data-lost, success and user-error branches;
  * `HandleSetAck`: `acks.Set`, a separate step so that it can race a second
    handle;
  * `UnregisterDone`: GracefulUnregister returning, either drained or
    forced by the timeout.

The ack `Get` and `Set` are separate steps, because two handles of one topic
can interleave between them.

### Constants and their model values

`MCMessageServer.tla` defines the peers `p1`, `p2` and the topics `t1`, `t2`.

Bounds:
* `MaxEpoch`, `MaxSeq` and `MaxStreams` bound the clients.
* `HandlesPerTopic` bounds how many times the user adds a handler to a topic.

Switches enable user and environment behaviour:
* `DuplicateStreams`: a client reopens a stream with its current epoch;
* `UserErrors`: `fn` fails;
* `HandlerTimeout`: GracefulUnregister times out;
* `SyncRemove`: a re-add waits for SyncRemoveHandler;
* `UserRemovesHandlers` and `UserDeregistersPeers`: the user calls these
  APIs.

Local ingress has `ServerID` (a model value, the pending key of local
messages), `MaxLocal` (messages the local caller sends; 0 turns local
ingress off, and with it `LocalClose`) and `LocalBatchSize` (1024 in the
code, 2 in the runs, so that both the full-batch and the ticker send
happen).

The config constants `MaxPeerCount`, `MaxPendingMessageCountPerTopic`,
`MaxPendingTaskCount` and `SendChannelSize` are set small (0-2). That is
enough for each limit to be reached and passed.

## Properties

* `TypeOK`.
* `DeliveryContiguous`: for every sender and topic, `fn` accepts sequences
  with no duplicate and no gap. This is spec §3, and §8 invariants 1 and 3.
* `AckedImpliesDelivered`: every sequence up to the ack the client has seen
  has been passed to `fn`. This is the round-trip property of spec §8. An ack
  for an undelivered message is silent loss, because the client drops what
  is acked.
* `NoInvalidPeerAbort`: no peer is aborted twice, which would hit
  `abort`'s `log.Panic`.
* `AckMonotonic`: an action property. The ack table never decreases
  (spec invariant 1). The code breaks it (run ack_regress).
* `RunSurvivesPeerErrors`: peer errors never end `run()` (spec §4.3).
* `ConfigLimitsExact`: the `MessageServerConfig` limits are exact. There
  are at most `MaxPeerCount` peers (spec §4.3). A pending buffer holds at
  most `MaxPendingMessageCountPerTopic` entries (spec invariant 5). A local
  pending buffer is deleted only when it exceeds that limit (§4.4).
* `LocalInOrder`: local messages of a topic reach `fn` in the order they
  were sent, each at most once, through batches, the task queue, the pending
  buffer and the handles, across handler errors and re-adds (§4.4/§4.5).
* `RegistryFollowsStreams`: `[]NoStaleReregistration /\
  ClosedPeerDeregistered`. The registry follows each sender's newest live
  stream:
  * `NoStaleReregistration`: once `m.peers` has held a stream of a sender,
    it never holds one with a lower epoch, also after the newer peer was
    deregistered (spec §2, §4.3);
  * `ClosedPeerDeregistered`: liveness. Any registered peer whose stream
    closed is eventually deregistered.
* `HandlerExitDeregistered`: liveness. A handle that exited is eventually
  removed from `m.handlers` by the task its OnExit schedules (spec §2, §5).

## Runs

The passing MessageServer runs check for deadlock, and none of them disables that check.
A client always reads its `sendCh` and may close a stream at any time, so
the server never has to stop.

| run | expect | what it shows |
|---|---|---|
| core | pass | One sender, one topic, epochs 1-2, two streams. It covers pending buffering and overflow, user errors, handler timeouts, peer deregistration, and the run loop blocked in `Send`. `fn` sees sequences contiguously, acks cover delivered messages, and no peer is aborted twice whichever path deregisters it (newer epoch, cancelled handle, congestion, tick). About 557k states, 30 s. |
| handlers | pass | A handler that fails and is re-added after SyncRemoveHandler, with sequences up to 3, and three local messages in batches of 2 into the same topic with a pending limit of 2. The data-loss check stops a message past a gap, and local messages reach `fn` in order and at most once. Every branch of `handleRawMessage` is taken: to a running handle, to an exited one, appended to the buffer, and the buffer deleted. About 2.4M states, 61 s. |
| ack_regress | violation | The ack of a topic goes down. TLC's trace (19 states): handle h1 returns from `fn(1)` and has not yet called `acks.Set`. Its GracefulUnregister times out, and the user re-adds the handler. The new handle h2 gets seq 2 from the pending buffer and sets the ack to 2. Then h1's late `acks.Set` (line 495, unconditional) sets it back to 1. Spec invariant 1 says acks never decrease. |
| ack_loss | violation | An acked sequence `fn` never accepted. TLC's trace: a same-epoch stream re-registers after deregistration, and the old stream's seq 2 is accepted at `initAck` and acked over the lost seq 1. With `DuplicateStreams = FALSE` the same cfg gives the second finding: the handler errors on seq 1, is re-added, and accepts and acks seq 2 at `initAck`; the peer never gets an error frame. With `UserErrors = FALSE` as well, and `SyncRemove = FALSE`, a handler is removed and re-added while the old handle still holds seq 1; the new handle accepts and acks seq 2, and the old one later hands seq 1 to `fn` after it. With `UserErrors = FALSE` and `HandlerTimeout = TRUE` instead, a forced unregister timeout drops the queued seq 1 and the re-added handle acks seq 2. |
| stale_exit | violation | A stale register task for an already closed stream ends `run()`. With `Peers <- TwoPeers`, `MaxEpoch = 1` and `MaxPeerCount = 0` the same cfg shows ErrPeerMessageToManyPeers ending `run()`. |
| limits | violation | `peerCount > MaxPeerCount` admits MaxPeerCount+1 peers. With `OnePeer`, `MaxEpoch = 2` and `MaxSeq = 2` the same cfg shows check-before-append letting a pending buffer reach Max+1. With `OnePeer`, `MaxStreams = 1`, a limit of 2, `MaxLocal = 2` and `LocalBatchSize = 2` it shows `handleRawMessage` deleting the local buffer at length 2 (`>=`, line 869), dropping both messages though the buffer never exceeded the limit; the remote path uses `>` (line 908). |
| handler_exit | violation | The handle's `fn` fails while a message batch fills the task queue. OnExit's `scheduleTask` drops the deregistration (line 500). The next batch aborts the peer with HandleCancelled, and the exited handle stays in `m.handlers` for good, although every server goroutine keeps running. |
| peer_registry | violation | A peer registers and its stream closes before any message is acked. `tick` skips peers with no acks (line 355), so the peer is never deregistered and keeps its MaxPeerCount slot. With `MaxEpoch = 2`, `MaxStreams = 2` and `UserDeregistersPeers = TRUE`, the same cfg shows the missing tombstone (line 380): the sender reconnects with epoch 2 before its epoch-1 stream has sent its register task. The epoch-2 peer is deregistered, and the epoch-1 task then finds no peer and installs the stale stream. TLC checks the `[]` part as an invariant during its search, so it reports this first. |

Every property of a passing run has a mutant in PROJECT.json. A mutant is a
plausible fault of one definition that TLC must catch:
* `IsRepeated` with `>` instead of `>=`, with an off-by-one, or with the
  check removed;
* `IsDataLost` removed;
* `DeletePeer` forgetting the delete;
* `QueueHasRoom` off by one;
* `SendLocalBatch` not clearing the batch, so a batch is sent again.

## Module `DDLPuller.tla` (ddl_puller.go)

The owner's DDL puller is a pipeline of three goroutines:
1. the memory sorter, which emits the raw KV events of the DDL spans sorted
   by commit ts, with resolved events;
2. `ddlJobPullerImpl`'s Run goroutine, which sends each event through
   `handleRawKVEntry` to a buffered `outputCh`;
3. `ddlPullerImpl.Run`, which reads `outputCh`.

The owner calls `PopFrontDDL` and `ResolvedTs` under `mu`.

| state | code |
|---|---|
| `srcTs`, `srcResolved`, `emitted`, `kvIn` | the sorter's output and what it has emitted |
| `outcome` | handleJob's decision for each job, one of those `DDLJobFilter`'s `HandleJob` reaches, chosen in `Init` and then fixed |
| `jpResolved`, `outCh` | `ddlJobPullerImpl.resolvedTs`, `outputCh` |
| `dpResolved`, `pending`, `lastDDLJobID` | `ddlPullerImpl.resolvedTS`, `pendingDDLJobs`, `lastDDLJobID` |
| `exited` | Run's errgroup has returned, on an error or after `Close` |
| `popped`, `ownerResolved` | history: jobs the owner received; largest ts it was told while nothing was pending |

The actions:
* **Environment**: `EmitJob`, `EmitRow` and `EmitResolved` are events
  entering through `Input`. The sorter emits them:
  * in commit-ts order;
  * never at or below an emitted resolved ts.

  A job row may arrive again later (`DuplicateKV`), and rows that are not a
  finished job yield a nil job.
* **`HandleRawKVEntry`** has one disjunct for each way `handleRawKVEntry`
  and `handleJob` can end:
  * a resolved event;
  * `unmarshalDDL` failing on a put row (`UnmarshalFails`: reading the
    `tidb_ddl_job` meta or parsing the row), possible when `JobErrors`;
  * a nil job;
  * discarded, either by `FinishedTS <= resolvedTs` or by the outcome;
  * error. A failure up to `HandleDDLJob` (line 471) leaves the resolved
    ts as it was; a failure of `checkIneligibleTableDDL` (line 477) comes
    after `ApplyJob` and `setResolvedTs`, so the model lets either happen;
  * applied, then skipped by `checkIneligibleTableDDL`;
  * applied and sent.

  The send is blocking. The job's outcome comes from `DDLJobFilter`
  (below); the puller only needs which decision each job gets.
* **`RunStep`** is one entry of `ddlPullerImpl.Run`. Either it advances the
  resolved ts, or it calls `addToPending`, which ignores a nil job and a
  repeat of `lastDDLJobID`.
* **`PopFrontDDL`**, **`ResolvedTs`** and **`Close`**. Both calls return
  the head job's FinishedTS while a job is pending, and the stored resolved
  ts otherwise. `readTs` records the greatest value either call has
  returned. The value itself can go down: after the head is popped, the
  stored resolved ts is below that job's FinishedTS (line 780).

In the code, `Run` stores the resolved ts without `mu`, and `PopFrontDDL`
and `ResolvedTs` read it under `mu`. Each read is a single atomic load, and
`Run` writes the resolved ts only after it has appended every job it read
before it. So taking each call as one step loses no interleaving.

`DDLQueue.tla` is the promise of the `DDLPuller` interface. The owner
receives the kept jobs, each once, in increasing FinishedTS, each above every
resolved ts it has been told. `DDLPuller` instantiates it with `delivered <-
popped`, `frontier <- ownerResolved` and `kept <-` the applied jobs, and
checks `DDLQueueRefinement`, which is `DDLQueueAbs!Spec`, as a property.

Properties:
* `PoppedInFinishedTsOrder`: the owner gets jobs in strictly increasing
  FinishedTS, hence never twice, even when the KV client redelivers a row
  after later jobs. Only handleJob's resolved-ts filter, kept current by
  `setResolvedTs` after each apply, stops that; `lastDDLJobID` catches only a
  repeat of the last job.
* `NoDDLBelowResolved`: an action property. A popped job is above every
  resolved ts the owner was told while nothing was pending.
* `NoDDLBelowReadTs`: an action property. A popped job is at or above the
  greatest ts `ResolvedTs` or `PopFrontDDL` has returned. Although the value
  goes down, the maximum the owner has read is a safe frontier.
* `DDLDelivered`: liveness. Every emitted job that handleJob applies reaches
  the owner, unless the puller failed or was closed.
* `DDLQueueRefinement`: the refinement above.

The bounds are two jobs with FinishedTS 2 and 3, timestamps up to 3, at most
4 sorter events, and an output channel of 1. A resolved ts can then fall
before, between and after the jobs, a row can be redelivered after the other
job, and the output channel fills. The model assumes the upstream contract
that a job's first row arrives after every job with a smaller FinishedTS and
before any resolved ts at or above its own. The FinishedTS filter at line 308
relies on that contract.

## Module `DDLJobFilter.tla` (handleJob's decision)

`handleJob` decides a job from the schema snapshot and the table filter.
`DDLJobFilter` is a module of operators only. It keeps every branch and early return of that decision, and it
abstracts TiDB's metadata to the answers the code reads. A job description
records:
* the job type;
* `SchemaVersion = 0`;
* whether `FillSchemaName` succeeds;
* each `ShouldDiscardDDL` answer;
* for each renamed table, whether `PhysicalTableByID` finds the old table
  and `SchemaByID` finds the new schema;
* whether the argument decoding (`GetRenameTablesArgs`, `SplitQueries`, the
  length checks, `GetNewJobWithArgs`) succeeds.

An apply description records `HandleDDLJob`'s result and the two snapshots'
eligibility answers. A created table has no ID before it.

The definitions, with the code each one models:
* `FilterJob`: handleJob up to `if skip`.
* `HandleRenameTables`: a `FoldLeft` of `RenameTablesStep` over the tables,
  with `RenameTableVerdict` for one table (lines 545-618).
* `HandleCreateTables` (lines 381-416).
* `HandleRenameTable`, with its not-found and found branches (lines 417-457).
* `CheckIneligibleTableDDL` (lines 486-540).
* `HandleJob`: the filter, `HandleDDLJob` and the ineligibility check.

`DDLJobHandler` is one call of `handleJob`. `Init` picks the job and
the answers, and `HandleJobStep` sets `decision` to `HandleJob`'s result.
`HandleJobFollowsPrinciples` checks that decision against the principles the
code's comments state, written over the whole job at once:
* a renamed table remains when its old name matches the filter;
* it fails the job when only its new name does;
* it is dropped when neither does (lines 557-560);
* a job with no table left is skipped;
* an applied table DDL is kept when the table is eligible after it;
* it fails when it turns an eligible table ineligible, and is ignored
  otherwise (lines 480-485).

The `filter` run checks every job of up to `MaxTables = 3` tables: 140,000
RenameTables jobs, each with 16 apply answers. It shows that the two rename
paths judge a rename the same way, although they encode "old table not
found" differently. It also shows that the loop's early return agrees with
the rule whatever the order of the tables. `DDLPuller`'s `Outcomes` is the
set of decisions `HandleJob` reaches, with `MaxTables = 2` in the `ddl` run.

## Module `AsyncDDL.tla` (async_ddl.go)

`waitAsynExecDone` runs before the sink executes a DDL. `needWaitAsyncExecDone`
is false for a non-TiDB downstream and for create-schema and create-table.
When a wait is needed, the function collects the DDL's table and its previous
table. It returns when the first `checkAsyncExecDDLDone` says done, and
otherwise polls every 5 s until a check says done or the context ends.
`doCheck` reads "done" from a query error, a scan error or no row.

The state is `pc`, the DDL `cur`, the tables the current check still has to
query (`left`), and the downstream tables with a running add-index job
(`running`).
* Actions translated from the source: `WaitAsynExecDone`, `DoCheck` (one
  iteration of checkAsyncExecDDLDone's loop), `Tick` and `Cancel`.
* Environment actions:
  * `ExecDDL`: the sink runs the DDL, and against TiDB an ADD INDEX may be
    left running;
  * `FinishIndex`: TiDB finishes the add-index job.

  The code for both is not under `src/`.
* `QueryErrors` lets any doCheck query fail. The cause may be the 5 s
  deadline, which one `checkAsyncExecDDLDone` shares across both tables.

Properties:
* `NoDDLOverRunningIndex`: a DDL that must wait never runs while an
  add-index job runs on its table or on the table it renames. The property
  is stated without the code's own definitions, so their mutants can break
  it.
* `WaitTerminates`: liveness. The wait always ends.

| run | expect | what it shows |
|---|---|---|
| ddl | pass | The DDL puller with redelivered rows, every handleJob outcome including errors, and Close. All four DDL properties hold. About 460k states, 55 s. |
| filter | pass | One `handleJob` call on every job of up to three tables, with every answer of the snapshots, the filter and `HandleDDLJob`. Each decision follows the principles. About 4.5M states, 25 s. The run stops after the call, so deadlock is not checked. |
| async | pass | Four DDLs over two TiDB tables, with add-index jobs left running. No DDL that must wait overtakes one, and the wait always ends. About 300 states. |
| async_query_error | violation | A failed doCheck query counts as done. The next DDL (an add-index on the same table) runs while the previous one is still running. The comment at line 51 says the function waits for it to finish. |

The mutants of these modules:
* the job puller's output-room check off by one (TypeOK);
* `setResolvedTs` left out after an apply (order);
* `ResolvedTs` ignoring pending jobs (NoDDLBelowResolved);
* `ResolvedTs` reading the newest pending job instead of the head
  (NoDDLBelowReadTs);
* Run's resolved branch without its OpType check, which swallows a job
  (DDLDelivered);
* the ineligible skip left out (the refinement);
* a renamed table dropped when either name is filtered
  (`RenameTableVerdict`, HandleJobFollowsPrinciples);
* `needWaitAsyncExecDone` always false, or the table set without
  `PreTableInfo` (NoDDLOverRunningIndex);
* the table set keeping a nil table (TypeOK);
* doCheck reading an empty result as running (WaitTerminates).

## Fairness

* `MessageServer` has weak fairness of the server's own goroutines:
  * the run loop's task steps, `Tick` and `LocalTick` (time.Tickers);
  * each stream's receive goroutine enqueueing its register task;
  * each stream's send goroutine, because the client reads;
  * the handle steps (worker-pool goroutines) and `UnregisterDone`;
  * `BlockInSend`: a `Send` into a full `sendCh` does block.

  There is none on the clients' packets and disconnects, on the API user, or
  on the local caller. `ClosedPeerDeregistered` and
  `HandlerExitDeregistered` fail even under this fairness. Their traces end
  in a loop where every fair action is disabled or taken.
* `DDLPuller` has weak fairness of `HandleRawKVEntry` and `RunStep`: both
  goroutines loop on their channel with nothing else to wait for. It also
  has weak fairness of `PopFrontDDL`, because the owner polls it on every
  tick. There is none on the sorter (the upstream) and none on `Close`.
* `AsyncDDL` has weak fairness of:
  * `DoCheck`, a loop without waits;
  * `Tick`, a time.Ticker;
  * `ExecDDL`, the sink going ahead;
  * `FinishIndex`. TiDB finishes an add-index job eventually; this is an
    assumption about the downstream.

  There is none on `Cancel` or on new DDLs.

## Not modelled, and the plan

* **Local ingress** is modelled with one local caller and without the
  context cancellation of `receiveLocalMessage` (which ends `Run` like a
  closed `localCh`, `LocalClose`).
* **An abstract at-least-once channel per sender and topic**, with
  `MessageServer` shown to refine it under `SyncRemove` and without
  duplicate streams. The violation runs above mark exactly where it cannot.
* **DDL puller**:
  * `initJobTableMeta` and `unmarshalDDL` (reading the `tidb_ddl_job` table
    meta and parsing rows) are abstracted to a job ID, or nil, per row, or
    a failure;
  * the rewrite of a filtered job's `MultipleTableInfos`, `Query` and
    `RawArgs` is not modelled, only whether anything remains;
  * the stuck-warning ticker of `ddlPullerImpl.Run` only logs;
  * the owner that consumes `PopFrontDDL` and `ResolvedTs` is not under
    `src/`. `NoDDLBelowReadTs` shows that keeping the maximum of what they
    return is safe; whether the owner does so is not checked.
* **MessageServer clients** always read their stream (weak fairness of the
  send goroutine). A client that stays connected but stops reading would
  block the run loop in `Send` until the transport gives up; keepalive
  timeouts are outside the model.
* **DDL sink**: the code that executes DDLs and starts add-index jobs
  asynchronously is not under `src/`, so it is the environment.
* **Out of scope**: metrics, logging, marshalling, `verifyStreamMeta`'s
  receiver check, `taskDebugDelay` (a test hook), the canal tests appended
  to server.go (lines 991-1148), and the shell test utilities and
  configuration files under `src/`.
