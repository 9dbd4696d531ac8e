\* Two threads; no registration repeats the pointers of an earlier token.
CONSTANTS
    Threads = {t1, t2}
    Events = {e, nomatch}
    NOMATCH = nomatch
    Kinds = {"text", "binary"}
    Cbs = {c}
    Users = {u, null}
    Null = null
    Conn = conn
    Sync = sync
    Dispatchers = {disp}
    Domains = {d}
    None = none
    Absent = absent
    MaxReg = 2
    MaxEmit = 1
    FreshTriples = TRUE
SYMMETRY ThreadSymmetry
CONSTRAINT OneAtATime
SPECIFICATION Spec
INVARIANTS RetiredIsGone NomatchIsFallback MarksExactly
PROPERTY TokenDropsOwn
CHECK_DEADLOCK FALSE
