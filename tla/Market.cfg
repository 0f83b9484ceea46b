CONSTANTS
    Symbols = {btc, eth}
    TTL = 2
    Counts <- Boundaries
    Faults = {"fetch"}
    MaxTime = 4
SPECIFICATION FairSpec
INVARIANTS WatchInv WarmedUp ReportsAgree DiesOnlyShort
PROPERTY FetchesSpaced StaleOnlyThroughOthers RoundEnds
CHECK_DEADLOCK FALSE
