CONSTANTS
    u1 = u1
    u2 = u2
    u3 = u3
    A = A
    B = B
    C = C
    Users <- MCUsers
    Dex = Dex
    Admin = Admin
    Sys = Sys
    Creator <- MCCreator
    Tokens <- MCTokens
    Code <- MCCode
    Unit <- MCUnit
    Configs = {}
    StartConfig <- LimitOne
    Requests <- BacklogRequests
    MatchCounts = {1, 2}
    Funds <- MCFunds
    MaxInt64 = 60001
    MaxUint64 = 120000
    MaxPairs = 1
    MaxOrders = 4
SPECIFICATION MatcherSpec
INVARIANTS
    FillsAreDeals
    RoundsPass
PROPERTIES
    MatchedToTheEnd
    LeavesSettled
    CrossedIsMatched
CHECK_DEADLOCK FALSE
