CONSTANTS
    u1 = u1
    u2 = u2
    u3 = u3
    A = A
    B = B
    C = C
    Users <- MCUsers
    Dex = Dex
    Admin = Admin
    Sys = Sys
    Creator <- MCCreator
    Tokens <- MCTokens
    Code <- MCCode
    Unit <- MCUnit
    Configs <- DisabledConfig
    StartConfig <- DefaultConfig
    Requests <- BacklogRequests
    MatchCounts = {1}
    Funds <- MCFunds
    MaxInt64 = 80
    MaxUint64 = 200
    MaxPairs = 1
    MaxOrders = 2
SPECIFICATION Spec
PROPERTIES
    DisabledFreezesUsers
CHECK_DEADLOCK FALSE
