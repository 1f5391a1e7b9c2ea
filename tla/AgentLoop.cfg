CONSTANTS
    MaxSteps = 3
    MaxCalls = 2
    MaxBatch = 2
    Disabled = {}
    Intents = {"policy_qa", "employee_data", "action"}
    Workflows = {"none", "expense"}
SPECIFICATION FairLoopSpec
CHECK_DEADLOCK FALSE
INVARIANTS
    LoopTypeOK
    WithinBudgets
    PendingIsParked
    ActionDebtIsTerminal
PROPERTIES
    DealtWithForGood
    EveryPassAnswers
