SPECIFICATION Spec
CONSTANTS
    a = a
    b = b
    Ids = {a, b}
    H1 = {a, b}
    H2 = {}
    Replays = {}
    Timed = {a, b}
    Limits = {1}
    Operations = {}
    OpBudget = 0
INVARIANTS
    PausedCanBeResumed
CHECK_DEADLOCK FALSE
