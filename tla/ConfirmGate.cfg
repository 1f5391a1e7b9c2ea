CONSTANTS
    Tokens = {t1, t2}
    NoToken = NoToken
    Writes = {w1, w2}
    Calls = {c1, c2}
    NoCall = NoCall
    NoWrite = NoWrite
    ForeignKeys = TRUE
    TokenTTL = 1
    MaxTime = 2
SPECIFICATION GateSpec
SYMMETRY Symmetry
INVARIANTS
    GateTypeOK
    WritesConfirmed
    OneWritePerToken
    CreatedIsTrue
PROPERTIES
    SpentForGood
    ImplementsLedger
