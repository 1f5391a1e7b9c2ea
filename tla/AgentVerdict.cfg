CONSTANTS
    MaxSteps = 3
    MaxCalls = 2
    MaxBatch = 1
    Disabled = {}
    Intents = {"action"}
    Workflows = {"none"}
SPECIFICATION LoopSpec
CHECK_DEADLOCK FALSE
INVARIANT
    RefusedIsNotProposed
