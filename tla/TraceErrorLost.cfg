CONSTANTS
    Turns = {t1}
    NoTurn = NoTurn
    Requests = {r1}
    NoRequest = NoRequest
    Overlap = FALSE
    MaxSpans = 3
    MaxSignals = 1
    MaxFaults = 1
SPECIFICATION TraceSpec
CHECK_DEADLOCK FALSE
SYMMETRY Symmetry
INVARIANTS
    NoSpanLeftBehind
