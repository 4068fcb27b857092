SPECIFICATION FairSpec
CONSTANTS
    a = a
    r = r
    Ids = {a, r}
    H1 = {a}
    H2 = {}
    Replays = {r}
    Timed = {a, r}
    Limits = {1, 2}
    Operations = {"remove", "clear", "resize", "sessions"}
    OpBudget = 2
INVARIANTS
    ListMatchesMap
PROPERTIES
    EveryExchangeSettles
CHECK_DEADLOCK FALSE
