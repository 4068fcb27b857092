SPECIFICATION Spec
CONSTANTS
    Settings <- Options
    Always <- All
INVARIANTS
    FilterReadsAsWritten
    
    ReplaceAlwaysApplies
    MockIsLayered
CHECK_DEADLOCK FALSE
