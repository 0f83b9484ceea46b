CONSTANTS
    UpdateThreshold = 15
    MinStopDistance = 50
    MaxStopDistance = 600
    Prices = {1000}
    Spikes = {980}
    Stops = {990}
    StopDistances = {20}
    Requests = {2}
    OpenSides = {"long"}
    Faults = {"fill"}
    MaxPositions = 2
    MaxOrders = 1
    MaxStarts = 2
SPECIFICATION FairLifeSpec
INVARIANTS ClosedNotManaged LifeInv
PROPERTY DurableSpec CallsReturn GoneIsReleased SideSettles
