CONSTANTS
    Percents = {1, 19, 100, 101}
    Leverages = {0, 5, 10, 20}
    MinLeverage = 5
    Balance = 100
    Price = 480
    StepsPerUnit = 10
    MinSteps = 1
    MaxHeld = 42
    Disturbances = {"read", "call", "answer", "unrecognised", "stop"}
SPECIFICATION Spec
INVARIANTS BoundedExposure TradeInv Affordable
PROPERTY SuccessIsTrue OnlyUnrecognisedHides NoPyramiding OrderSpec
