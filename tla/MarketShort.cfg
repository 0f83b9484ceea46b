CONSTANTS
    Symbols = {btc, eth}
    TTL = 2
    Counts <- Boundaries
    Faults = {}
    MaxTime = 2
SPECIFICATION Spec
INVARIANT FourteenSuffice
CHECK_DEADLOCK FALSE
