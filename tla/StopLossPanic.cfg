CONSTANTS
    UpdateThreshold = 15
    MinStopDistance = 50
    MaxStopDistance = 600
    Prices = {1000, 1020}
    Spikes = {}
    Stops = {990}
    StopDistances = {20}
    Requests = {1}
    OpenSides = {"long"}
    Faults = {"answer"}
    MaxPositions = 2
    MaxOrders = 2
SPECIFICATION Spec
INVARIANT NoPanic
