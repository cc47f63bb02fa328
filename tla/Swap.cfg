CONSTANTS
    u1 = u1
    u2 = u2
    A = A
    B = B
    E = E
    F = F
    Users = {u1}
    Dex = Dex
    Plain = {A, B}
    Evo = {E}
    Fees = {10, 300}
    Amounts <- SwapAmounts
    Limits = {0, 3}
    ExtRows <- PoolRows
    InitMax = 8
    MaxAmount = 12
    Accounts0 <- PoolAccounts
    Deposits0 <- PoolDeposits
    Stat0 <- PoolStat
    Index0 <- PoolIndex
SPECIFICATION Spec
INVARIANTS
    TypeOK
    Custody
    SupplyIsHeld
    Redeemable
PROPERTIES
    PoolValueGrows
    KeepsMarket
CHECK_DEADLOCK FALSE
