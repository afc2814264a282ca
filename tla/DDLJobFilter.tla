---------------------------- MODULE DDLJobFilter ----------------------------
(***************************************************************************)
(* The decision ddlJobPullerImpl.handleJob takes for one finished DDL job   *)
(* (cdc/puller/ddl_puller.go): the upstream-ignored check, FillSchemaName's *)
(* failure, the per-type filtering (handleRenameTables, CreateTables,      *)
(* RenameTable, the default branch), HandleDDLJob and                      *)
(* checkIneligibleTableDDL.  The schema snapshots and the table filter are *)
(* abstracted to what they answer for the job: a job description records   *)
(* each lookup's and each ShouldDiscardDDL call's result.  The decision is *)
(* one of                                                                  *)
(*   "discard"    skip = true before the job is applied,                   *)
(*   "apply"      applied and kept,                                        *)
(*   "ineligible" applied, then skipped by checkIneligibleTableDDL,        *)
(*   "error"      handleJob returns an error,                              *)
(* and "keep" for a job the filter lets through to HandleDDLJob.            *)
(***************************************************************************)
EXTENDS Naturals, Sequences, SequencesExt

CONSTANTS
    MaxTables   \* bound on the tables of a RenameTables or CreateTables job

ASSUME MaxTables \in Nat \ {0}

(* One table of a rename: whether the snapshot holds the old table         *)
(* (PhysicalTableByID) and the new schema (SchemaByID), and the filter's    *)
(* ShouldDiscardDDL answers for the old and the new name.                   *)
RenameTableInfos == [found : BOOLEAN, discardOld : BOOLEAN,
                     schemaFound : BOOLEAN, discardNew : BOOLEAN]

NonEmptySeqs(S) == UNION {[1 .. n -> S] : n \in 1 .. MaxTables}

(* The job as handleJob sees it. ignored: SchemaVersion = 0; fillOk:        *)
(* FillSchemaName succeeds; discard: ShouldDiscardDDL on the job's own      *)
(* schema and table name; tables: per-table facts of the multi-table and    *)
(* rename types (a CreateTables entry is ShouldDiscardDDL of that table);   *)
(* argsOk: GetRenameTablesArgs / SplitQueries succeed and agree in length   *)
(* with MultipleTableInfos; newArgsOk: GetNewJobWithArgs succeeds.          *)
JobDesc(type, tables) ==
    [type : {type}, ignored : BOOLEAN, fillOk : BOOLEAN, discard : BOOLEAN,
     tables : tables, argsOk : BOOLEAN, newArgsOk : BOOLEAN]

(* Job types: "schema" is any type filter.IsSchemaDDL accepts, "other"    *)
(* any other table DDL of the switch's default branch.                      *)
JobDescs ==
    UNION {JobDesc(t, {<<>>}) : t \in {"schema", "createTable", "other"}}
    \cup JobDesc("renameTable",
                 {<<r>> : r \in {x \in RenameTableInfos : x.schemaFound}})
    \cup JobDesc("renameTables", NonEmptySeqs(RenameTableInfos))
    \cup JobDesc("createTables", NonEmptySeqs(BOOLEAN))

(* What HandleDDLJob and the two snapshots answer after the filter: the     *)
(* apply succeeds; the new table is eligible after it; the old table exists *)
(* before it, and is eligible then.  A created table has no ID before it.   *)
ApplyDescs(type) ==
    {e \in [applyOk : BOOLEAN, eligAfter : BOOLEAN,
            existedBefore : BOOLEAN, eligBefore : BOOLEAN] :
        type = "createTable" => ~e.existedBefore}

(* handleRenameTables' verdict on one table: dropped when both names are   *)
(* filtered out, an error when only the old one is, kept otherwise.         *)
RenameTableVerdict_either(t) ==     \* fault: either name filtered drops it
    LET discardOld == ~t.found \/ t.discardOld
        discardNew == ~t.schemaFound \/ t.discardNew
    IN  CASE discardOld /\ discardNew -> "drop"
          [] discardOld \/ discardNew -> "error"
          [] OTHER                    -> "keep"

RenameTableVerdict(t) ==
    LET discardOld == ~t.found \/ t.discardOld
        discardNew == ~t.schemaFound \/ t.discardNew
    IN  CASE discardOld /\ discardNew -> "drop"
          [] discardOld               -> "error"
          [] OTHER                    -> "keep"

(* The loop over MultipleTableInfos: the first table in error returns,     *)
(* a kept table makes the job remain.                                       *)
RenameTablesStep(acc, t) ==
    IF acc = "error" THEN acc
    ELSE CASE RenameTableVerdict(t) = "drop"  -> acc
           [] RenameTableVerdict(t) = "error" -> "error"
           [] OTHER                           -> "keep"

HandleRenameTables(d) ==
    IF ~d.argsOk THEN "error"
    ELSE LET r == FoldLeft(RenameTablesStep, "discard", d.tables)
         IN  IF r = "keep" /\ ~d.newArgsOk THEN "error" ELSE r

(* ActionCreateTables: the tables the filter keeps; none left skips.       *)
HandleCreateTables(d) ==
    CASE ~d.argsOk                               -> "error"
      [] SelectSeq(d.tables, LAMBDA x : ~x) = <<>> -> "discard"
      [] OTHER                                   -> "keep"

(* ActionRenameTable: without the old table the new name decides; with it *)
(* a filtered old name skips, or fails when the new name is not filtered.   *)
HandleRenameTable(d) ==
    LET t == d.tables[1]
    IN  CASE ~t.found      -> IF t.discardNew THEN "discard" ELSE "error"
          [] t.discardOld  -> IF t.discardNew THEN "discard" ELSE "error"
          [] OTHER         -> "keep"

(* handleJob up to the `if skip` return.                                    *)
FilterJob(d) ==
    CASE d.ignored                 -> "discard"
      [] ~d.fillOk                 -> IF d.discard THEN "discard" ELSE "error"
      [] d.type = "renameTables"   -> HandleRenameTables(d)
      [] d.type = "createTables"   -> HandleCreateTables(d)
      [] d.type = "renameTable"    -> HandleRenameTable(d)
      [] OTHER                     -> IF d.discard THEN "discard" ELSE "keep"

(* checkIneligibleTableDDL, after the job is applied.                       *)
CheckIneligibleTableDDL(type, e) ==
    CASE type = "schema"                     -> "apply"
      [] type = "createTable" /\ e.eligAfter -> "apply"
      [] type = "createTables"               -> "apply"
      [] e.eligAfter                         -> "apply"
      [] ~e.existedBefore                    -> "ineligible"
      [] ~e.eligBefore                       -> "ineligible"
      [] OTHER                               -> "error"

HandleJob(d, e) ==
    CASE FilterJob(d) # "keep" -> FilterJob(d)
      [] ~e.applyOk            -> "error"
      [] OTHER                 -> CheckIneligibleTableDDL(d.type, e)

=============================================================================
