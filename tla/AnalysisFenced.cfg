SPECIFICATION Spec
CONSTANTS
    btc = btc
    eth = eth
    Symbols = {btc, eth}
    Answers <- MCAnswers
    AutoExecute = TRUE
    MaxRuns = 2
    Faults = {}
CHECK_DEADLOCK FALSE
INVARIANT ActsAsAnswered
