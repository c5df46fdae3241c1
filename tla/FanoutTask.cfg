\* Two sources, one slot, one retry and one event stream: the gate, the
\* ceiling, a late answer and a retry all meet. A finished task stops for good.
SPECIFICATION TaskFairSpec
CONSTANTS
    Sources = {s1, s2}
    Parallel = 1
    MaxRetries = 1
    Readers = {tab}
CHECK_DEADLOCK FALSE
INVARIANTS
    NoAbandonedSource
    NeverOverReports
    CancelIsFinal
PROPERTIES
    ComesToRest
    StreamEnds
