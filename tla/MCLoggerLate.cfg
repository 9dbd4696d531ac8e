\* A worker that pushes after logger_end() has drained the queue.
CONSTANTS
    Workers = {w}
    Owner = owner
    Idle = idle
    None = none
    Capacity = 1
    DrainMax = 1
    Subscribers = {h1, h2}
    Sources <- SourcesUsed
    Rules <- RulesUsed
    Extra <- ExtraUsed
    Slots = 1
    MaxLog = 3
    MaxNest = 1
    MaxSession = 2
    MaxNow = 2
    MaxFilters = 3
    Names = {"m", "k"}
    File <- OneFile
    MaxLoads = 2
    Tidy = TRUE
    Scenarios = {"sessions"}
CONSTRAINT Focus
SPECIFICATION Spec
INVARIANTS LateRecordsDiscarded
CHECK_DEADLOCK FALSE
