CONSTANTS
    u1 = u1
    u2 = u2
    A = A
    B = B
    E = E
    F = F
    Users = {u1, u2}
    Dex = Dex
    Plain = {A, B}
    Evo = {E, F}
    Fees = {1, 2, 3, 5, 7, 10, 15, 20, 30, 50, 75, 100, 150, 200, 300}
    Amounts <- VoteAmounts
    Limits = {0, 9}
    ExtRows <- VoteRows
    InitMax = 8
    MaxAmount = 20
    Accounts0 <- VoteAccounts
    Deposits0 <- VoteDeposits
    Stat0 <- VoteStat
    Index0 <- VoteIndex
    FeesAsked = {7, 12, 100}
    Elections = {E}
    IntSpan = 2
SPECIFICATION VotingSpec
PROPERTIES
    TablesCloseEmpty
CHECK_DEADLOCK FALSE
