\* Two threads: one registers in a domain, the other emits.
CONSTANTS
    Threads = {t1, t2}
    Events = {nomatch}
    NOMATCH = nomatch
    Kinds = {"text"}
    Cbs = {c}
    Users = {u, null}
    Null = null
    Conn = conn
    Sync = sync
    Dispatchers = {disp}
    Domains = {d}
    None = none
    Absent = absent
    MaxReg = 1
    MaxEmit = 1
    FreshTriples = TRUE
SYMMETRY ThreadSymmetry
SPECIFICATION Spec
INVARIANT DomainHidesConnection
CHECK_DEADLOCK FALSE
