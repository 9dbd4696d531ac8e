\* Two starts that race and one that comes after them.
CONSTANTS
    Instances = {"i1", "i2", "i3"}
SPECIFICATION DaemonSpec
INVARIANT OnlyOneRuns
CHECK_DEADLOCK FALSE
