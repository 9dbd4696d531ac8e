\* A loop and two workers, two tokens, callbacks that use the bus again.
CONSTANTS
    Threads = {loop, w1, w2}
    Loops = {loop}
    Inline = inline
    Names = {m}
    Domains = {d}
    None = none
    MaxTokens = 2
    MaxDepth = 3
    MaxEmit = 2
    DrainInCallback = TRUE
SYMMETRY WorkerSymmetry
SPECIFICATION Spec
INVARIANTS TypeOK ExecutingIsExact ListenersAreActive NothingRunsAfterDrain DomainOutlivesListeners
CHECK_DEADLOCK FALSE
