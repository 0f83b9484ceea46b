CONSTANTS
    UpdateThreshold = 15
    MinStopDistance = 50
    MaxStopDistance = 600
    Prices = {1000, 1020}
    Spikes = {}
    Stops = {1010}
    StopDistances = {20}
    Requests = {2}
    OpenSides = {"long", "short"}
    Faults = {"call", "answer", "record"}
    MaxPositions = 2
    MaxOrders = 2
SPECIFICATION Spec
VIEW View
INVARIANTS UpdatedIsManaged ClosedNotManaged ManagerInv
PROPERTY RatchetStop GuardSpec CallsBounded
