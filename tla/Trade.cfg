CONSTANTS
    u1 = u1
    u2 = u2
    u3 = u3
    A = A
    B = B
    C = C
    Users <- MCUsers
    Dex = Dex
    Admin = Admin
    Sys = Sys
    Creator <- MCCreator
    Tokens <- MCTokens
    Code <- MCCode
    Unit <- TradeUnit
    Configs = {}
    StartConfig <- LimitTwo
    Requests <- TradeRequests
    MatchCounts = {1}
    Funds <- TradeFunds
    MaxInt64 = 29999
    MaxUint64 = 60000
    MaxPairs = 1
    MaxOrders = 3
SPECIFICATION Spec
INVARIANTS
    TypeOK
    Solvent
    FillsAreDeals
    WithinLimits
    
    Cancellable
    OnlyAmountsFail
    LatestPrice
PROPERTIES
    BestOrdersFirst
    MatchedToTheEnd
    LeavesSettled
    OnlyDealsMoveValue
    LimitPriceKept
    KeepsLedger
CHECK_DEADLOCK FALSE
