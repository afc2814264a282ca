--------------------------- MODULE DDLJobHandler ---------------------------
(***************************************************************************)
(* One call of ddlJobPullerImpl.handleJob (cdc/puller/ddl_puller.go) on a   *)
(* job above the puller's resolved ts: the job, and what the schema        *)
(* snapshots, the filter and HandleDDLJob answer for it, are any the       *)
(* description sets of DDLJobFilter allow; the step is the call, and       *)
(* decision is what it returns.  The decision is checked against the      *)
(* principles the code's comments state.                                   *)
(***************************************************************************)
EXTENDS DDLJobFilter

VARIABLES
    job,        \* the job handleJob is given, with the snapshot's and filter's answers
    applied,    \* HandleDDLJob's result and the eligibility answers after it
    decision    \* "none" before the call, then handleJob's result

vars == <<job, applied, decision>>

Init ==
    /\ job \in JobDescs
    /\ applied \in ApplyDescs(job.type)
    /\ decision = "none"

(* handleJob returns; the caller, handleRawKVEntry, acts on the result.    *)
HandleJobStep ==
    /\ decision = "none"
    /\ decision' = HandleJob(job, applied)
    /\ UNCHANGED <<job, applied>>

Spec == Init /\ [][HandleJobStep]_vars

-----------------------------------------------------------------------------
(* The principles the code's comments state, over the whole job at once:   *)
(* a renamed table remains when its old name matches the filter, fails the *)
(* job when only its new name does, and is dropped when neither does       *)
(* (ddl_puller.go:557-560, :584); a job is skipped when the filter drops    *)
(* all its tables; an applied table DDL is kept when the table is eligible *)
(* after it, fails when it turns an eligible table ineligible, and is      *)
(* ignored otherwise; schema DDLs and CreateTables are always kept         *)
(* (:480-485, :501).                                                        *)
OldMatched(t) == t.found /\ ~t.discardOld
NewMatched(t) == t.schemaFound /\ ~t.discardNew

RenamePrinciple(d) ==
    CASE \E i \in DOMAIN d.tables :
            ~OldMatched(d.tables[i]) /\ NewMatched(d.tables[i]) -> "error"
      [] \A i \in DOMAIN d.tables : ~OldMatched(d.tables[i])    -> "discard"
      [] d.type = "renameTables" /\ ~d.newArgsOk                -> "error"
      [] OTHER                                                  -> "keep"

FilterPrinciple(d) ==
    CASE d.ignored                                    -> "discard"
      [] ~d.fillOk                -> IF d.discard THEN "discard" ELSE "error"
      [] d.type \in {"renameTables", "createTables"} /\ ~d.argsOk -> "error"
      [] d.type \in {"renameTable", "renameTables"}   -> RenamePrinciple(d)
      [] d.type = "createTables"
            -> IF \A i \in DOMAIN d.tables : d.tables[i] THEN "discard" ELSE "keep"
      [] OTHER                    -> IF d.discard THEN "discard" ELSE "keep"

ApplyPrinciple(type, e) ==
    CASE ~e.applyOk                                              -> "error"
      [] type \in {"schema", "createTables"} \/ e.eligAfter      -> "apply"
      [] e.existedBefore /\ e.eligBefore                         -> "error"
      [] OTHER                                                   -> "ineligible"

(* handleJob's early returns, the RenameTables loop with its first-error   *)
(* return, the two rename branches and the ordered checks of               *)
(* checkIneligibleTableDDL decide each job the way the principles do: a   *)
(* RenameTables job whose tables mix dropped, kept and refused ones, and a *)
(* RenameTable job, are judged by the same rule.                           *)
HandleJobFollowsPrinciples ==
    decision # "none" =>
        decision = IF FilterPrinciple(job) # "keep"
                   THEN FilterPrinciple(job)
                   ELSE ApplyPrinciple(job.type, applied)

=============================================================================
