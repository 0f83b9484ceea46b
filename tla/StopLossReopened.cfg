CONSTANTS
    UpdateThreshold = 15
    MinStopDistance = 50
    MaxStopDistance = 600
    Prices = {1000, 1020}
    Spikes = {}
    Stops = {0, 990}
    StopDistances = {20}
    Requests = {2}
    OpenSides = {"long"}
    Faults = {}
    MaxPositions = 2
    MaxOrders = 2
SPECIFICATION Spec
PROPERTY ClosedStaysClosed
