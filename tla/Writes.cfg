SPECIFICATION WriteSpec
CONSTANTS
    N = 3
    Paths = {values, helpers}
INVARIANTS
    AllOrNothing
    KilledWriteLosesNothing
CHECK_DEADLOCK FALSE
