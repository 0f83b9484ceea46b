SPECIFICATION Spec
CONSTANTS
    Day = 15
    Slots = 3
    Timeframes = {1, 3, 5, 15}
    TickAt <- MCTickAt
CHECK_DEADLOCK FALSE
INVARIANTS AtMostTwo BoundaryServed ClockInv
PROPERTY AnnouncedKept RunsAgain SignalHeeded
