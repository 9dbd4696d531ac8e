\* One worker and the owner, a queue of one, ticks of one record, two sessions.
CONSTANTS
    Workers = {w}
    Owner = owner
    Idle = idle
    None = none
    Capacity = 1
    DrainMax = 1
    Subscribers = {h1, h2}
    Sources <- SourcesUsed
    Rules <- RulesUsed
    Extra <- ExtraUsed
    Slots = 1
    MaxLog = 3
    MaxNest = 1
    MaxSession = 2
    MaxNow = 2
    MaxFilters = 3
    Names = {"m", "k"}
    File <- OneFile
    MaxLoads = 2
    Tidy = TRUE
    Scenarios = {"sessions", "walks", "rates"}
CONSTRAINT Focus
SPECIFICATION Spec
INVARIANTS EndDrains EachSubscriberOnce RawCountExact SuppressionAccounted ArmedCodeIsMapped
CHECK_DEADLOCK FALSE
