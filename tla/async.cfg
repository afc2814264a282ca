\* Four DDLs over two TiDB tables: add index left running, renames, schema DDLs.
CONSTANTS
    ta = ta
    tb = tb
    Tables <- TwoTables
    NoTable = NoTable
    IsTiDB = TRUE
    QueryErrors = FALSE
    MaxDDLs = 4
SPECIFICATION Spec
INVARIANTS TypeOK NoDDLOverRunningIndex
PROPERTIES WaitTerminates
