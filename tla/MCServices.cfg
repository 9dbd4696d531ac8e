\* Two spawns; four driver events; two pseudo-terminals on one path; three starts.
CONSTANTS
    MaxSpawn = 2
    ParentFds = {0, 1, 2, 4}
    Mappings <- MappingsUsed
    CloseLists <- CloseListsUsed
    MaxEvents = 4
    QueueLimit = 1
    Scripts <- ScriptsUsed
    Requests <- RequestsUsed
    Ptys = {p1, p2}
    Links = {"gps"}
    MaxSerial = 5
    Instances = {"i1", "i2", "i3"}
SPECIFICATION Spec
INVARIANTS HandleOwnsAll MappingsHonoured EventOrder HandshakeExact BorrowedIsReturned OneInstance
PROPERTIES EndingsComplete DrainReturns
CHECK_DEADLOCK FALSE
