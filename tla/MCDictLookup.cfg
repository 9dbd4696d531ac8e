\* One key after another is added and deleted.
CONSTANTS
    Keys = {"a", "b", "c", "d", "e", "f", "g", "h"}
    Values = {"v1", "v2"}
    NoValue = novalue
    MinSize = 8
    BigSize = 16
    Empty = empty
    Dummy = dummy
    Workloads <- OnlyChurning
SPECIFICATION DictSpec
INVARIANT LookupsEnd
CHECK_DEADLOCK FALSE
