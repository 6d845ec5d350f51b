SPECIFICATION Spec
CONSTANTS
    r1 = r1
    r2 = r2
    r3 = r3
    r4 = r4
    r5 = r5
    Runs = {r1, r2, r3, r4, r5}
    Keys = {1, 2, 3, 4}
    SizeOf <- Sizes
    max_cache_bytes = 3
    max_cached_modules = 2
SYMMETRY Executions
CHECK_DEADLOCK FALSE
INVARIANTS
    QueueAccounted
    LeastRecentFirst
