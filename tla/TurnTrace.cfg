CONSTANTS
    Turns = {t1, t2}
    NoTurn = NoTurn
    Requests = {r1, r2}
    NoRequest = NoRequest
    Overlap = FALSE
    MaxSpans = 2
    MaxSignals = 2
    MaxFaults = 1
SPECIFICATION TraceSpec
CHECK_DEADLOCK FALSE
SYMMETRY Symmetry
INVARIANTS
    TraceTypeOK
    SeqsRunOn
    TotalsMatchSpans
    CheckpointsAreSafe
