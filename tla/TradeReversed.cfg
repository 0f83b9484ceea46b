CONSTANTS
    Percents = {1, 19, 100, 101}
    Leverages = {0, 5, 10}
    MinLeverage = 5
    Balance = 100
    Price = 480
    StepsPerUnit = 10
    MinSteps = 1
    MaxHeld = 42
    Disturbances = {"stop"}
SPECIFICATION Spec
PROPERTY ClosedLeavesNothing
