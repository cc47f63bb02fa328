CONSTANTS
    Prices <- MCPrices
    Units <- MCUnits
    Totals <- MCTotals
    Ratios <- MCRatios
    MaxInt64 = 1000000
SPECIFICATION Spec
INVARIANTS
    CoinIsNearest
    CostDriftBounded
    WholePricesAreExact
    FeeLeavesSomething
CHECK_DEADLOCK FALSE
