CONSTANTS
    u1 = u1
    u2 = u2
    u3 = u3
    A = A
    B = B
    C = C
    Users = {u1, u2}
    Dex = Dex
    Admin = Admin
    Sys = Sys
    Creator <- MCCreator
    Tokens <- AllTokens
    Code <- MCCode
    Unit <- MCUnit
    Configs <- AdminConfigs
    StartConfig <- CosignedConfig
    Requests <- AdminRequests
    MatchCounts = {1}
    Funds <- MCFunds
    MaxInt64 = 80
    MaxUint64 = 200
    MaxPairs = 2
    MaxOrders = 2
SPECIFICATION Spec
INVARIANTS
    Solvent
    RowsFitListing
PROPERTIES
    OnlyDealsMoveValue
CHECK_DEADLOCK FALSE
