CONSTANTS
    Tokens = {k1, k2}
    NoToken = NoToken
    Writes = {w1}
    NoWrite = NoWrite
    Calls = {c1}
    NoCall = NoCall
    ForeignKeys = TRUE
    TokenTTL = 1
    MaxTime = 2
    Turns = {t1}
    NoTurn = NoTurn
    CardTTL = 1
    StaleAfter = 1
    MaxFaults = 2
SPECIFICATION FairLifeSpec
INVARIANTS
    LifeTypeOK
    OneWritePerCard
    CancelledMeansNothingFiled
    WriteMeansAnswered
PROPERTIES
    ImplementsGate
    EveryTurnEnds
