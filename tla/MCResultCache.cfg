\* Close beside the cleanup goroutine.
SPECIFICATION CacheSpec
CONSTANTS
    Key = {k1, k2}
    Value = {v1}
    NoValue = NoValue
INVARIANTS
    CloseStopsCleanup
