SPECIFICATION Spec
CONSTANTS
    btc = btc
    eth = eth
    Symbols = {btc, eth}
    Answers <- MCAnswers
    AutoExecute = TRUE
    MaxRuns = 2
    Faults = {"fetch", "save", "trade", "crash"}
CHECK_DEADLOCK FALSE
INVARIANTS TraderInformed SessionsAreCurrent TradesWereAsked EverySymbolAnswered ResultOfItsRun AnalysisInv
PROPERTY RunEnds LedgerSpec
