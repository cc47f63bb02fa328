CONSTANTS
    u1 = u1
    u2 = u2
    A = A
    B = B
    E = E
    F = F
    Users = {u1, u2}
    Dex = Dex
    Plain = {A, B}
    Evo = {E, F}
    Fees = {}
    Amounts <- PoolAmounts
    Limits = {0, 9}
    ExtRows <- OldRows
    InitMax = 8
    MaxAmount = 12
    Accounts0 <- OldAccounts
    Deposits0 <- OldDeposits
    Stat0 <- OldStat
    Index0 <- Without
SPECIFICATION Spec
INVARIANTS
    Custody
    SupplyIsHeld
    OnePoolPerPair
PROPERTIES
    KeepsMarket
CHECK_DEADLOCK FALSE
