SPECIFICATION SystemSpec
SYMMETRY Symmetry
CONSTANTS
    c1 = c1
    c2 = c2
    c3 = c3
    Calls <- MCCalls
    MaxCalls = 2
    Window = 2
    MaxTime = 3
INVARIANTS SystemTypeOK WindowBound RefusedOnlyWhenFull MetricsExact NeverOvercounted
CHECK_DEADLOCK FALSE
