CONSTANTS
    Requirements = 2
    LastRulesDay = 8
    People = {a, b, c}
    Nobody = Nobody
SPECIFICATION AnswersSpec
INVARIANTS
    VerdictsAreEarned
    AnswersAreBacked
    EvidenceIsExact
    FiguresAreEarned
CHECK_DEADLOCK FALSE
