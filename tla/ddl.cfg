\* Two jobs, redelivered rows, every handleJob outcome including errors, Close; liveness.
CONSTANTS
    NumJobs = 2
    JobTs <- TwoJobTs
    MaxTs = 3
    MaxEvents = 4
    OutputChanSize = 1
    DuplicateKV = TRUE
    JobErrors = TRUE
    MaxTables = 2
SPECIFICATION Spec
INVARIANTS TypeOK PoppedInFinishedTsOrder
PROPERTIES NoDDLBelowReadTs NoDDLBelowResolved DDLDelivered DDLQueueRefinement
