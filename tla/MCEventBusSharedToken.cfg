\* One thread; two registrations may share event, callback and user.
CONSTANTS
    Threads = {t1}
    Events = {nomatch}
    NOMATCH = nomatch
    Kinds = {"text"}
    Cbs = {c}
    Users = {u, null}
    Null = null
    Conn = conn
    Sync = sync
    Dispatchers = {}
    Domains = {}
    None = none
    Absent = absent
    MaxReg = 2
    MaxEmit = 0
    FreshTriples = FALSE
SPECIFICATION Spec
PROPERTY TokenDropsOwn
CHECK_DEADLOCK FALSE
