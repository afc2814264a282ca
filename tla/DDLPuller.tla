----------------------------- MODULE DDLPuller -----------------------------
(***************************************************************************)
(* The owner's DDL puller of cdc/puller/ddl_puller.go.                     *)
(*                                                                         *)
(* ddlJobPullerImpl reads the sorted raw KV events of the DDL spans,       *)
(* drops jobs at or below its resolved ts, applies the rest to the schema  *)
(* storage and writes job and resolved entries to its output channel.      *)
(* ddlPullerImpl reads that channel in its Run goroutine, keeps the        *)
(* resolved ts and the pending jobs, and the owner polls PopFrontDDL and   *)
(* ResolvedTs.                                                             *)
(*                                                                         *)
(* The memory sorter in front of the job puller is the environment: it     *)
(* emits events in commit-ts order and a resolved ts only after every      *)
(* event at or below it, and the KV client may deliver a job row again     *)
(* later (DuplicateKV).  What handleJob decides from the schema snapshot   *)
(* and the filter is DDLJobFilter's HandleJob; each job takes one of the    *)
(* decisions it can reach as its fixed outcome.                             *)
(***************************************************************************)
EXTENDS Integers, Sequences, FiniteSets, Functions, DDLJobFilter

CONSTANTS
    NumJobs,         \* DDL jobs 1..NumJobs (job IDs; 0 is the nil job)
    JobTs,           \* job ID -> BinlogInfo.FinishedTS
    MaxTs,           \* bound on commit and resolved timestamps
    MaxEvents,       \* bound on the events the sorter emits
    OutputChanSize,  \* capacity of ddlJobPullerImpl.outputCh
    DuplicateKV,     \* the KV client may deliver a job row again
    JobErrors        \* handleJob may fail (schema, filter or storage error)

Jobs == 1..NumJobs
NoJob == 0

ASSUME /\ NumJobs \in Nat \ {0} /\ MaxTs \in Nat \ {0}
       /\ JobTs \in [Jobs -> 1..MaxTs] /\ IsInjective(JobTs)
       /\ {MaxEvents, OutputChanSize} \subseteq Nat \ {0}
       /\ {DuplicateKV, JobErrors} \subseteq BOOLEAN

(* What handleJob does with a job above the resolved ts: skip it by the    *)
(* filter or an ignored upstream job ("discard"), apply it and skip it as  *)
(* an ineligible table ("ineligible"), apply and emit it ("apply"), or     *)
(* fail ("error"): every decision DDLJobFilter's HandleJob reaches.        *)
Outcomes == UNION {{HandleJob(d, e) : e \in ApplyDescs(d.type)} : d \in JobDescs}
              \ (IF JobErrors THEN {} ELSE {"error"})

Ts == 0..MaxTs
RawKV    == [op : {"put"}, job : Jobs \cup {NoJob}, ts : Ts]
            \cup [op : {"resolved"}, ts : Ts]   \* model.RawKVEntry
JobEntry == RawKV                               \* model.DDLJobEntry

VARIABLES
    srcTs,        \* sorter: commit ts of the last event emitted
    srcResolved,  \* sorter: last resolved ts emitted
    emitted,      \* sorter: jobs whose row has been emitted
    kvIn,         \* sorter output read by the job puller's Run goroutine
    outcome,      \* fixed: handleJob's decision per job
    jpResolved,   \* ddlJobPullerImpl.resolvedTs
    outCh,        \* ddlJobPullerImpl.outputCh
    exited,       \* Run's errgroup returned (an error, or Close)
    dpResolved,   \* ddlPullerImpl.resolvedTS
    pending,      \* ddlPullerImpl.pendingDDLJobs
    lastDDLJobID, \* ddlPullerImpl.lastDDLJobID
    popped,       \* history: jobs PopFrontDDL returned to the owner
    ownerResolved, \* history: greatest ts returned with no job pending
    readTs        \* history: greatest ts PopFrontDDL or ResolvedTs returned

vars == <<srcTs, srcResolved, emitted, kvIn, outcome, jpResolved, outCh,
          exited, dpResolved, pending, lastDDLJobID, popped, ownerResolved,
          readTs>>
srcVars   == <<srcTs, srcResolved, emitted, kvIn>>
ownerVars == <<popped, ownerResolved, readTs>>

MaxOf(a, b) == IF a >= b THEN a ELSE b

-----------------------------------------------------------------------------
(* The sorter's contract: commit ts never decrease, nothing at or below an *)
(* emitted resolved ts follows it.                                         *)
NextTs == {c \in Ts : c >= srcTs /\ c > srcResolved}

EmitJob(j) ==
    /\ ~exited
    /\ j \notin emitted
    /\ JobTs[j] \in NextTs
    /\ Len(kvIn) < MaxEvents
    /\ kvIn' = Append(kvIn, [op |-> "put", job |-> j, ts |-> JobTs[j]])
    /\ emitted' = emitted \cup {j}
    /\ srcTs' = JobTs[j]
    /\ UNCHANGED <<srcResolved, outcome, jpResolved, outCh, exited, dpResolved,
                   pending, lastDDLJobID, ownerVars>>

(* A job row delivered again, or a row that is not a finished job (an     *)
(* unfinished job state, a delete): unmarshalDDL yields the job or nil.    *)
EmitRow(j, c) ==
    /\ ~exited
    /\ \/ DuplicateKV /\ j \in emitted
       \/ j = NoJob
    /\ c \in NextTs
    /\ Len(kvIn) < MaxEvents
    /\ kvIn' = Append(kvIn, [op |-> "put", job |-> j, ts |-> c])
    /\ srcTs' = c
    /\ UNCHANGED <<srcResolved, emitted, outcome, jpResolved, outCh, exited,
                   dpResolved, pending, lastDDLJobID, ownerVars>>

EmitResolved(r) ==
    /\ ~exited
    /\ r \in NextTs
    /\ Len(kvIn) < MaxEvents
    /\ kvIn' = Append(kvIn, [op |-> "resolved", ts |-> r])
    /\ srcTs' = r
    /\ srcResolved' = r
    /\ UNCHANGED <<emitted, outcome, jpResolved, outCh, exited, dpResolved,
                   pending, lastDDLJobID, ownerVars>>

-----------------------------------------------------------------------------
(* ddlJobPullerImpl.                                                       *)

OutputHasRoom_offByOne == Len(outCh) <= OutputChanSize   \* fault
OutputHasRoom == Len(outCh) < OutputChanSize

(* handleRawKVEntry's blocking send of the job entry.                      *)
Output(e) == OutputHasRoom /\ outCh' = Append(outCh, e)

(* handleJob's first check: a job at or below the resolved ts was already *)
(* seen (or is older than the puller's start) and is discarded.           *)
IsStale(j) == JobTs[j] <= jpResolved

(* schemaStorage.HandleDDLJob, then setResolvedTs(FinishedTS).             *)
ApplyJob_noAdvance(j) == UNCHANGED jpResolved   \* fault: the advance is left out
ApplyJob(j) == jpResolved' = JobTs[j]

(* handleJob returns checkIneligibleTableDDL's skip after the apply: a DDL *)
(* on a table ineligible after it (and absent or ineligible before).      *)
IneligibleSkip_never(j) == FALSE   \* fault: the check is left out
IneligibleSkip(j) == outcome[j] = "ineligible"

(* unmarshalDDL on a put row: reading tidb_ddl_job's meta the first time   *)
(* (initJobTableMeta) or parsing the row may fail.                         *)
UnmarshalFails(e) == e.op = "put" /\ JobErrors

(* Run's third goroutine: one sorted event through handleRawKVEntry.       *)
HandleRawKVEntry ==
    /\ ~exited
    /\ kvIn # <<>>
    /\ kvIn' = Tail(kvIn)
    /\ LET e == Head(kvIn)
       IN  \/ /\ e.op = "resolved"
              /\ jpResolved' = MaxOf(jpResolved, e.ts)
              /\ Output(e)
              /\ UNCHANGED exited
           \/ /\ UnmarshalFails(e)
              /\ exited' = TRUE
              /\ UNCHANGED <<jpResolved, outCh>>
           \/ /\ e.op = "put" /\ e.job = NoJob
              /\ Output(e)
              /\ UNCHANGED <<jpResolved, exited>>
           \/ /\ e.op = "put" /\ e.job # NoJob
              /\ IsStale(e.job) \/ outcome[e.job] = "discard"
              /\ UNCHANGED <<jpResolved, outCh, exited>>
           \/ /\ e.op = "put" /\ e.job # NoJob
              /\ ~IsStale(e.job) /\ outcome[e.job] = "error"
              /\ exited' = TRUE
              \* a failure up to HandleDDLJob (line 471) leaves the resolved ts;
              \* checkIneligibleTableDDL fails (line 477) after ApplyJob
              /\ jpResolved' \in {jpResolved, JobTs[e.job]}
              /\ UNCHANGED outCh
           \/ /\ e.op = "put" /\ e.job # NoJob
              /\ ~IsStale(e.job) /\ outcome[e.job] \in {"apply", "ineligible"}
              /\ IneligibleSkip(e.job)
              /\ ApplyJob(e.job)
              /\ UNCHANGED <<outCh, exited>>
           \/ /\ e.op = "put" /\ e.job # NoJob
              /\ ~IsStale(e.job) /\ outcome[e.job] \in {"apply", "ineligible"}
              /\ ~IneligibleSkip(e.job)
              /\ ApplyJob(e.job)
              /\ Output(e)
              /\ UNCHANGED exited
    /\ UNCHANGED <<srcTs, srcResolved, emitted, outcome, dpResolved, pending,
                   lastDDLJobID, ownerVars>>

-----------------------------------------------------------------------------
(* ddlPullerImpl.                                                          *)

(* Run's branch for an entry that advances the resolved ts.                *)
IsResolvedAdvance_anyOp(e) == e.ts > dpResolved   \* fault: OpType not checked
IsResolvedAdvance(e) == e.op = "resolved" /\ e.ts > dpResolved

(* addToPending: nil jobs and a repeat of the last job are ignored.        *)
AddToPending(j) ==
    IF j = NoJob \/ j = lastDDLJobID
    THEN UNCHANGED <<pending, lastDDLJobID>>
    ELSE /\ pending' = Append(pending, j)
         /\ lastDDLJobID' = j

(* Run's second goroutine: one entry of the job puller's output.           *)
RunStep ==
    /\ ~exited
    /\ outCh # <<>>
    /\ outCh' = Tail(outCh)
    /\ LET e == Head(outCh)
       IN  IF IsResolvedAdvance(e)
           THEN dpResolved' = e.ts /\ UNCHANGED <<pending, lastDDLJobID>>
           ELSE AddToPending(IF e.op = "put" THEN e.job ELSE NoJob)
                /\ UNCHANGED dpResolved
    /\ UNCHANGED <<srcVars, outcome, jpResolved, exited, ownerVars>>

(* The owner polls PopFrontDDL: the head job and its FinishedTS, or the   *)
(* resolved ts.                                                            *)
PopFrontDDL ==
    /\ ~exited
    /\ IF pending = <<>>
       THEN /\ ownerResolved' = MaxOf(ownerResolved, dpResolved)
            /\ readTs' = MaxOf(readTs, dpResolved)
            /\ UNCHANGED <<pending, popped>>
       ELSE /\ popped' = Append(popped, Head(pending))
            /\ pending' = Tail(pending)
            /\ readTs' = MaxOf(readTs, JobTs[Head(pending)])
            /\ UNCHANGED ownerResolved
    /\ UNCHANGED <<srcVars, outcome, jpResolved, outCh, exited, dpResolved, lastDDLJobID>>

(* ResolvedTs: the head job's FinishedTS, or the resolved ts.  The value   *)
(* can go down: after the head is popped it is the stored resolved ts,     *)
(* below that job's FinishedTS.                                            *)
ResolvedTs_ignorePending ==   \* fault: the pending jobs are not consulted
    /\ ~exited
    /\ ownerResolved' = MaxOf(ownerResolved, dpResolved)
    /\ readTs' = MaxOf(readTs, dpResolved)
    /\ UNCHANGED <<srcVars, outcome, jpResolved, outCh, exited, dpResolved,
                   pending, lastDDLJobID, popped>>
ResolvedTs_lastPending ==     \* fault: the newest pending job is read, not the head
    /\ ~exited
    /\ IF pending = <<>>
       THEN ownerResolved' = MaxOf(ownerResolved, dpResolved) /\ readTs' = MaxOf(readTs, dpResolved)
       ELSE readTs' = MaxOf(readTs, JobTs[Last(pending)]) /\ UNCHANGED ownerResolved
    /\ UNCHANGED <<srcVars, outcome, jpResolved, outCh, exited, dpResolved,
                   pending, lastDDLJobID, popped>>
ResolvedTs ==
    /\ ~exited
    /\ IF pending = <<>>
       THEN ownerResolved' = MaxOf(ownerResolved, dpResolved) /\ readTs' = MaxOf(readTs, dpResolved)
       ELSE readTs' = MaxOf(readTs, JobTs[Head(pending)]) /\ UNCHANGED ownerResolved
    /\ UNCHANGED <<srcVars, outcome, jpResolved, outCh, exited, dpResolved,
                   pending, lastDDLJobID, popped>>

(* The owner closes the puller: cancel ends both Run goroutines.          *)
Close ==
    /\ ~exited
    /\ exited' = TRUE
    /\ UNCHANGED <<srcVars, outcome, jpResolved, outCh, dpResolved, pending,
                   lastDDLJobID, ownerVars>>

(* The errgroup returned: nothing moves any more.                          *)
Stopped == exited /\ UNCHANGED vars

-----------------------------------------------------------------------------
Init ==
    /\ srcTs = 0 /\ srcResolved = 0 /\ emitted = {} /\ kvIn = <<>>
    /\ outcome \in [Jobs -> Outcomes]
    /\ jpResolved = 0 /\ outCh = <<>> /\ exited = FALSE
    /\ dpResolved = 0 /\ pending = <<>> /\ lastDDLJobID = NoJob
    /\ popped = <<>> /\ ownerResolved = 0 /\ readTs = 0

Next ==
    \/ \E j \in Jobs : EmitJob(j)
    \/ \E j \in Jobs \cup {NoJob}, c \in Ts : EmitRow(j, c)
    \/ \E r \in Ts : EmitResolved(r)
    \/ HandleRawKVEntry
    \/ RunStep
    \/ PopFrontDDL
    \/ ResolvedTs
    \/ Close
    \/ Stopped

(* The job puller's and the puller's Run goroutines take every event they *)
(* are given, and the owner polls PopFrontDDL on every tick.               *)
Fairness == WF_vars(HandleRawKVEntry) /\ WF_vars(RunStep) /\ WF_vars(PopFrontDDL)

Spec == Init /\ [][Next]_vars /\ Fairness

-----------------------------------------------------------------------------
TypeOK ==
    /\ srcTs \in Ts /\ srcResolved \in Ts /\ emitted \subseteq Jobs
    /\ kvIn \in Seq(RawKV) /\ outCh \in Seq(JobEntry)
    /\ Len(outCh) <= OutputChanSize
    /\ outcome \in [Jobs -> Outcomes]
    /\ jpResolved \in Ts /\ dpResolved \in Ts /\ exited \in BOOLEAN
    /\ pending \in Seq(Jobs) /\ lastDDLJobID \in Jobs \cup {NoJob}
    /\ popped \in Seq(Jobs) /\ ownerResolved \in Ts /\ readTs \in Ts

(* The owner receives the DDL jobs in strictly increasing FinishedTS, so  *)
(* never the same job twice, however often the KV client redelivers a job *)
(* row: handleJob's resolved-ts filter and addToPending's last-ID check.   *)
PoppedInFinishedTsOrder ==
    \A i \in 1..(Len(popped) - 1) : JobTs[popped[i]] < JobTs[popped[i + 1]]

(* No job PopFrontDDL hands out is at or below a resolved ts the owner was *)
(* told while nothing was pending: the owner has already moved past it.    *)
NoDDLBelowResolved ==
    [][Len(popped') > Len(popped) => JobTs[popped'[Len(popped')]] > ownerResolved]_vars

(* What ResolvedTs and PopFrontDDL return is not monotonic (the head     *)
(* job's FinishedTS, then the smaller stored resolved ts), but the         *)
(* greatest value the owner has read is a safe frontier: every job it is   *)
(* handed later has a FinishedTS at or above it.                           *)
NoDDLBelowReadTs ==
    [][Len(popped') > Len(popped) => JobTs[popped'[Len(popped')]] >= readTs]_vars

(* Every job the sorter emitted and handleJob applies reaches the owner,   *)
(* unless the puller failed or was closed.                                *)
DDLDelivered ==
    \A j \in Jobs :
        (j \in emitted /\ outcome[j] = "apply") ~> (j \in Range(popped) \/ exited)

(* The puller implements DDLQueue: the owner's pops and resolved ts are a *)
(* behaviour of the promise, with the jobs handleJob applies and keeps.   *)
DDLQueueAbs == INSTANCE DDLQueue
    WITH delivered <- popped, frontier <- ownerResolved,
         kept <- {j \in Jobs : outcome[j] = "apply"}
DDLQueueRefinement == DDLQueueAbs!Spec

====
