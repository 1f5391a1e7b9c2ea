CONSTANTS
    Tokens = {k1, k2}
    NoToken = NoToken
    Writes = {w1}
    NoWrite = NoWrite
    Calls = {c1, c2}
    NoCall = NoCall
    ForeignKeys = TRUE
    TokenTTL = 1
    MaxTime = 1
    Turns = {t1}
    NoTurn = NoTurn
    CardTTL = 1
    StaleAfter = 0
    MaxFaults = 0
SPECIFICATION FairLifeSpec
INVARIANTS
    OpenIsBeingWorkedOn
PROPERTIES
    AnsweredForGood
    EveryCardIsSettled
    NoTurnStaysParked
