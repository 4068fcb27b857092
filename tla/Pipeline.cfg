SPECIFICATION Spec
CONSTANTS
    a = a
    b = b
    Ids = {a, b}
    H1 = {a}
    H2 = {b}
    Replays = {}
    Timed = {a, b}
    Limits = {1, 2}
    Operations = {"filters", "remove", "clear", "resize"}
    OpBudget = 1
INVARIANTS
    TypeOK
    RingBounded
    NothingLeavesWhilePaused
    KilledGetsNoBytes
    OriginSparedByRules
    FilterVerdictHolds
    OutcomeAnnounced
PROPERTIES
    ReplyOnlyAdvances
    DecisionStands
CHECK_DEADLOCK FALSE
