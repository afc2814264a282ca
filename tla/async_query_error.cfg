\* A doCheck query error (or the shared 5 s timeout) counts as done.
CONSTANTS
    ta = ta
    tb = tb
    Tables <- TwoTables
    NoTable = NoTable
    IsTiDB = TRUE
    QueryErrors = TRUE
    MaxDDLs = 4
SPECIFICATION Spec
INVARIANTS NoDDLOverRunningIndex

