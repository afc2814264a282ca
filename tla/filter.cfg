\* One handleJob call on every job of up to three tables, with every answer of
\* the schema snapshots, the filter and HandleDDLJob. handleJob returns once,
\* so the run stops after the call.
CONSTANTS
    MaxTables = 3
SPECIFICATION Spec
INVARIANT HandleJobFollowsPrinciples
CHECK_DEADLOCK FALSE
