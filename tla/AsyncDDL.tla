------------------------------ MODULE AsyncDDL ------------------------------
(***************************************************************************)
(* The MySQL DDL sink's wait for asynchronous DDLs,                        *)
(* cdc/sink/ddlsink/mysql/async_ddl.go.                                    *)
(*                                                                         *)
(* Against TiDB an ADD INDEX may still run downstream after the sink has  *)
(* returned from it.  Before the next DDL, waitAsynExecDone polls          *)
(* information_schema.ddl_jobs, every 5 s, for a running add-index job on *)
(* the DDL's table and its previous table.  The sink's DDL loop that calls *)
(* it and the downstream TiDB are the environment here.                    *)
(***************************************************************************)
EXTENDS Naturals, FiniteSets

CONSTANTS
    Tables,       \* downstream tables
    NoTable,      \* a nil TableInfo or PreTableInfo
    IsTiDB,       \* m.cfg.IsTiDB
    QueryErrors,  \* a doCheck query may fail (or hit the 5 s timeout)
    MaxDDLs       \* bound on the DDLs the sink executes

ASSUME /\ NoTable \notin Tables /\ MaxDDLs \in Nat
       /\ {IsTiDB, QueryErrors} \subseteq BOOLEAN

(* model.DDLEvent, by type, TableInfo and PreTableInfo.                    *)
DDLEvent ==
    [type : {"createSchema", "dropSchema"}, table : {NoTable}, pre : {NoTable}]
    \cup [type : {"createTable", "addIndex"}, table : Tables, pre : {NoTable}]
    \cup {d \in [type : {"renameTable"}, table : Tables, pre : Tables] : d.table # d.pre}

VARIABLES
    pc,       \* "idle", "check" (checkAsyncExecDDLDone), "poll", "exec", "stopped"
    cur,      \* the DDL being written
    left,     \* tables checkAsyncExecDDLDone has still to doCheck
    running,  \* downstream tables with a running or queueing add-index job
    nDDLs     \* DDLs received

vars == <<pc, cur, left, running, nDDLs>>

-----------------------------------------------------------------------------
NeedWaitAsyncExecDone_never(t) == FALSE   \* fault: the wait is left out
NeedWaitAsyncExecDone(t) ==
    IsTiDB /\ t \notin {"createTable", "createTables", "createSchema"}

(* The tables of waitAsynExecDone's set: TableInfo and PreTableInfo.       *)
AsyncTables_tableOnly(d) == {d.table} \ {NoTable}   \* fault: PreTableInfo forgotten
AsyncTables_withNil(d) == {d.table, d.pre}   \* fault: a nil TableInfo kept in the set
AsyncTables(d) == {d.table, d.pre} \ {NoTable}

(* The sink's DDL loop hands waitAsynExecDone the next DDL; it returns at *)
(* once when no wait is needed, when there are no tables, or when the     *)
(* first check finds nothing running.                                     *)
WaitAsynExecDone(d) ==
    /\ pc = "idle"
    /\ nDDLs < MaxDDLs
    /\ cur' = d
    /\ nDDLs' = nDDLs + 1
    /\ IF NeedWaitAsyncExecDone(d.type) /\ AsyncTables(d) # {}
       THEN pc' = "check" /\ left' = AsyncTables(d)
       ELSE pc' = "exec" /\ UNCHANGED left
    /\ UNCHANGED running

(* doCheck of one table: a query or scan error, or no row, is "done".      *)
DoCheckNoRows_notDone(t) == FALSE   \* fault: an empty result read as running
DoCheckNoRows(t) == t \notin running

(* One doCheck of checkAsyncExecDDLDone's loop; a table not done returns  *)
(* false and waitAsynExecDone waits for the ticker, the last done table   *)
(* returns true and the DDL is executed.                                  *)
DoCheck(t) ==
    /\ pc = "check"
    /\ t \in left
    /\ \/ /\ QueryErrors \/ DoCheckNoRows(t)
          /\ left' = left \ {t}
          /\ pc' = IF left' = {} THEN "exec" ELSE "check"
       \/ /\ ~DoCheckNoRows(t)
          /\ left' = {}
          /\ pc' = "poll"
    /\ UNCHANGED <<cur, running, nDDLs>>

(* The 5 s ticker fires: check all the tables again.                      *)
Tick ==
    /\ pc = "poll"
    /\ pc' = "check"
    /\ left' = AsyncTables(cur)
    /\ UNCHANGED <<cur, running, nDDLs>>

(* ctx.Done while polling: waitAsynExecDone returns and the sink stops.   *)
Cancel ==
    /\ pc = "poll"
    /\ pc' = "stopped"
    /\ UNCHANGED <<cur, left, running, nDDLs>>

(* Environment: the sink executes the DDL; against TiDB an ADD INDEX may  *)
(* be left running downstream when the sink returns from it.              *)
ExecDDL ==
    /\ pc = "exec"
    /\ pc' = "idle"
    /\ \E async \in BOOLEAN :
          running' = IF async /\ IsTiDB /\ cur.type = "addIndex"
                     THEN running \cup {cur.table} ELSE running
    /\ UNCHANGED <<cur, left, nDDLs>>

(* Environment: a downstream add-index job finishes.                      *)
FinishIndex(t) ==
    /\ t \in running
    /\ running' = running \ {t}
    /\ UNCHANGED <<pc, cur, left, nDDLs>>

Done == (pc = "stopped" \/ (pc = "idle" /\ nDDLs = MaxDDLs /\ running = {}))
        /\ UNCHANGED vars

Init ==
    /\ pc = "idle"
    /\ cur = [type |-> "createSchema", table |-> NoTable, pre |-> NoTable]
    /\ left = {} /\ running = {} /\ nDDLs = 0

Next ==
    \/ \E d \in DDLEvent : WaitAsynExecDone(d)
    \/ \E t \in Tables : DoCheck(t)
    \/ Tick
    \/ Cancel
    \/ ExecDDL
    \/ \E t \in Tables : FinishIndex(t)
    \/ Done

(* The check loop runs without blocking, the ticker fires, the sink     *)
(* executes the DDL it waited for, and TiDB finishes an add-index job.    *)
Fairness ==
    /\ WF_vars(\E t \in Tables : DoCheck(t)) /\ WF_vars(Tick) /\ WF_vars(ExecDDL)
    /\ \A t \in Tables : WF_vars(FinishIndex(t))

Spec == Init /\ [][Next]_vars /\ Fairness

-----------------------------------------------------------------------------
TypeOK ==
    /\ pc \in {"idle", "check", "poll", "exec", "stopped"}
    /\ cur \in DDLEvent /\ left \subseteq Tables /\ running \subseteq Tables
    /\ nDDLs \in 0..MaxDDLs

(* A DDL that must wait (line 51: "wait for the previous asynchronous DDL *)
(* to finish") is never executed while an add-index job of an earlier DDL *)
(* still runs on its table or on the table it renames.                    *)
NoDDLOverRunningIndex ==
    LET touched == {cur.table, cur.pre} \ {NoTable}
    IN  pc = "exec" /\ cur.type \notin {"createSchema", "createTable"}
           => touched \cap running = {}

(* waitAsynExecDone always returns: once TiDB finishes the add-index job, *)
(* a poll sees no running job and the DDL goes ahead.                     *)
WaitTerminates == (pc \in {"check", "poll"}) ~> (pc \in {"exec", "stopped"})

====
