------------------------------- MODULE EvoDex --------------------------------
(***************************************************************************)
(* The swap contract, contracts/swapdex (evolutiondex): pools of two       *)
(* tokens, the pool tokens that share them ("evotokens"), and the deposits *)
(* of its users.                                                           *)
(*                                                                         *)
(* A user registers a token (openext) and deposits it by a transfer to the *)
(* contract, from which he exchanges, buys and sells pool tokens, and      *)
(* withdraws.  A transfer may also be exchanged at once, without a deposit *)
(* (memoexchange).  Pool tokens are tokens of the contract itself: they    *)
(* are transferred, deposited, and may be reserves of other pools.         *)
(*                                                                         *)
(* Every action is one transaction, inline transfers included.  The fee of *)
(* a pool is set by its fee contract.                                      *)
(***************************************************************************)
EXTENDS SwapMath, Functions, FiniteSets

CONSTANTS
    Users,              \* accounts that trade
    Dex,                \* the account of the contract, get_self()
    Plain,              \* external: extended symbols of other token contracts
    Evo,                \* symbols of pool tokens
    Fees,               \* the fees the fee contract may set
    Amounts,            \* of each token, the amounts users ask for
    Limits,             \* the limits users set: max_asset, min_asset, min_expected
    ExtRows,            \* a bound: the deposits <<user, token>> that are
                        \* opened and closed
    InitMax,            \* INIT_MAX
    Accounts0, Deposits0, Stat0, Index0     \* the tables to start from

Tokens == Plain \cup Evo
Holders == Users \cup {Dex}

DefaultFee      == 10   \* DEFAULT_FEE
AddLiquidityFee == 1    \* ADD_LIQUIDITY_FEE

Pairs == {pair \in SUBSET Tokens : \E s, t \in pair : s # t /\ pair = {s, t}}

PoolType ==
    [supply : 1 .. MaxAmount,
     pool : UNION {[pair -> 1 .. MaxAmount] : pair \in Pairs},
     fee : Nat]

IsTable(table, keys, rows) ==
    DOMAIN table \subseteq keys /\ \A k \in DOMAIN table : table[k] \in rows

TablesOK(accounts, deposits, stat, index) ==
    /\ IsTable(accounts, Holders \X Tokens, Nat)
    /\ IsTable(deposits, Users \X Tokens, 0 .. MaxAmount)
    /\ IsTable(stat, Evo, PoolType)
    /\ IsTable(index, DOMAIN stat, Pairs)

(* What a row amounts to, whether it is there or not. *)
Row(table, key) == IF key \in DOMAIN table THEN table[key] ELSE 0

Held(accounts, token) ==
    SumFunctionOnSet([a \in Holders |-> Row(accounts, <<a, token>>)], Holders)

Deposited(deposits, token) ==
    SumFunctionOnSet([u \in Users |-> Row(deposits, <<u, token>>)], Users)

Pooled(stat, token) ==
    SumFunctionOnSet([e \in DOMAIN stat |-> Row(stat[e].pool, token)], DOMAIN stat)

SharesAddUp(accounts, stat) ==
    \A e \in Evo :
        Held(accounts, e) = IF e \in DOMAIN stat THEN stat[e].supply ELSE 0

Covered(accounts, deposits, stat) ==
    \A t \in Tokens :
        Row(accounts, <<Dex, t>>) = Deposited(deposits, t) + Pooled(stat, t)

ASSUME NamesAssumption ==
    /\ IsFiniteSet(Users) /\ IsFiniteSet(Evo)
    /\ Dex \notin Users
    /\ Plain \cap Evo = {}

ASSUME InputsAssumption ==
    /\ Fees \subseteq Nat /\ Limits \subseteq Nat
    /\ Amounts \in [Tokens -> SUBSET (Nat \ {0})]
    /\ InitMax \in Nat /\ InitMax <= MaxAmount
    /\ ExtRows \subseteq Users \X Tokens

ASSUME StartAssumption ==
    /\ TablesOK(Accounts0, Deposits0, Stat0, Index0)
    /\ SharesAddUp(Accounts0, Stat0)
    /\ Covered(Accounts0, Deposits0, Stat0)
    /\ \A t \in Plain : Held(Accounts0, t) <= MaxAmount  \* external: max_supply

ASSUME IndexAssumption ==
    \A e, f \in DOMAIN Index0 :
        /\ Index0[e] = DOMAIN Stat0[e].pool
        /\ Index0[e] = Index0[f] => e = f
-----------------------------------------------------------------------------
VARIABLES
    stat,               \* stat table: pool token -> supply, pools, fee
    evodexacnts,        \* evodexacnts table: <<user, token>> -> deposit
    accounts,           \* accounts table: <<owner, pool token>> -> balance;
                        \* external: the same of the other token contracts
    evoindex            \* evoindex table: pool token -> the pair it is on

vars == <<stat, evodexacnts, accounts, evoindex>>

Put(table, key, row) ==
    [k \in DOMAIN table \cup {key} |-> IF k = key THEN row ELSE table[k]]

Delete(table, key) == [k \in DOMAIN table \ {key} |-> table[k]]

(* Fault: what is received replaces the balance. *)
BalanceReplaced(table, owner, token, n) ==
    Put(table, <<owner, token>>,
        IF n > 0 THEN n ELSE Row(table, <<owner, token>>) + n)

(* add_balance, and sub_balance for a negative amount that is covered. *)
AddBalance(table, owner, token, n) ==
    Put(table, <<owner, token>>, Row(table, <<owner, token>>) + n)

(* transfer, of this contract and of any other token contract. *)
CanTransfer(table, from, to, token, n) ==
    from # to /\ n \in 1 .. Row(table, <<from, token>>)

Transferred(table, from, to, token, n) ==
    AddBalance(AddBalance(table, from, token, -n), to, token, n)

(* add_signed_ext_balance: the user is registered, the deposit covers it.  *)
CanAddExt(user, token, n) ==
    /\ <<user, token>> \in DOMAIN evodexacnts
    /\ evodexacnts[<<user, token>>] + n \in 0 .. MaxAmount

AddExt(user, change) ==
    [k \in DOMAIN evodexacnts |->
        IF k[1] = user /\ k[2] \in DOMAIN change
        THEN evodexacnts[k] + change[k[2]] ELSE evodexacnts[k]]
-----------------------------------------------------------------------------
(***************************************************************************)
(* Deposits.                                                               *)
(***************************************************************************)
OpenExt(user, token) ==
    /\ <<user, token>> \notin DOMAIN evodexacnts
    /\ evodexacnts' = Put(evodexacnts, <<user, token>>, 0)
    /\ UNCHANGED <<stat, accounts, evoindex>>

(* Sends what is left of the deposit to any account and erases the row.    *)
CloseExt(user, to, token) ==
    LET rest == evodexacnts[<<user, token>>]
    IN  /\ <<user, token>> \in DOMAIN evodexacnts
        /\ \/ rest = 0 /\ UNCHANGED accounts
           \/ /\ CanTransfer(accounts, Dex, to, token, rest)
              /\ accounts' = Transferred(accounts, Dex, to, token, rest)
        /\ evodexacnts' = Delete(evodexacnts, <<user, token>>)
        /\ UNCHANGED <<stat, evoindex>>

(* ontransfer without "exchange:".  `to' is `from', or the account after   *)
(* "deposit to:".  A transfer of pool tokens to the contract calls it too. *)
Deposit(from, to, token, n) ==
    /\ CanTransfer(accounts, from, Dex, token, n)
    /\ CanAddExt(to, token, n)
    /\ accounts' = Transferred(accounts, from, Dex, token, n)
    /\ evodexacnts' = AddExt(to, [t \in {token} |-> n])
    /\ UNCHANGED <<stat, evoindex>>

Withdraw(user, to, token, n) ==
    /\ CanAddExt(user, token, -n)
    /\ CanTransfer(accounts, Dex, to, token, n)
    /\ evodexacnts' = AddExt(user, [t \in {token} |-> -n])
    /\ accounts' = Transferred(accounts, Dex, to, token, n)
    /\ UNCHANGED <<stat, evoindex>>
-----------------------------------------------------------------------------
(***************************************************************************)
(* Liquidity.                                                              *)
(***************************************************************************)

(* Fault: the pool may be left empty. *)
LeftAnything(supply) == TRUE

NotLeftEmpty(supply) == supply # 0

(* Fault: the supply is what is bought, not the sum. *)
SupplyReplaced(supply, n) == IF n > 0 THEN n ELSE supply + n

NewSupply(supply, n) == supply + n

(* add_signed_liq: n pool tokens are bought, or sold when n is negative.   *)
(* The limits, one for each token of the pair, are on what is paid, which  *)
(* is negative for what is received.                                       *)
AddSignedLiq(user, e, n, fee, limit) ==
    LET row  == stat[e]
        pair == DOMAIN row.pool
        pay(t) == Compute(n, row.pool[t], row.supply, fee)
    IN  /\ e \in DOMAIN stat
        /\ \A t \in pair :
              /\ Computable(n, row.pool[t], row.supply, fee)
              /\ pay(t) <= limit[t]
              /\ CanAddExt(user, t, -pay(t))
              /\ row.pool[t] + pay(t) <= MaxAmount
        /\ Row(accounts, <<user, e>>) + n >= 0
        /\ row.supply + n <= MaxAmount
        /\ NotLeftEmpty(row.supply + n)
        /\ evodexacnts' = AddExt(user, [t \in pair |-> -pay(t)])
        /\ accounts' = AddBalance(accounts, user, e, n)
        /\ stat' = [stat EXCEPT ![e] =
              [supply |-> NewSupply(row.supply, n), fee |-> row.fee,
               pool |-> [t \in pair |-> row.pool[t] + pay(t)]]]
        /\ UNCHANGED evoindex

AddLiquidity(user, e, n, max) ==
    AddSignedLiq(user, e, n, AddLiquidityFee, max)

RemLiquidity(user, e, n, min) ==
    AddSignedLiq(user, e, -n, 0, [t \in DOMAIN min |-> -min[t]])
-----------------------------------------------------------------------------
(***************************************************************************)
(* Exchange.                                                               *)
(***************************************************************************)
Other(e, token) == CHOOSE t \in DOMAIN stat[e].pool : t # token

(* Fault: the rate is that of the pools before the exchange. *)
MarginalOut(e, token, n) ==
    LET pool == stat[e].pool
    IN  -Compute(-n, pool[Other(e, token)], pool[token], stat[e].fee)

(* What n units of `token' are exchanged for; a user may also ask to get   *)
(* -n units, and pays minus the result.                                    *)
Out(e, token, n) ==
    LET pool == stat[e].pool
    IN  -Compute(-n, pool[Other(e, token)], pool[token] + n, stat[e].fee)

(* The checks of process_exch. *)
CanExchange(e, token, n, min) ==
    /\ e \in DOMAIN stat
    /\ token \in DOMAIN stat[e].pool
    /\ LET other == Other(e, token)
           pool  == stat[e].pool
       IN  /\ Computable(-n, pool[other], pool[token] + n, stat[e].fee)
           /\ min <= Out(e, token, n)
           /\ pool[token] + n <= MaxAmount
           /\ pool[other] - Out(e, token, n) <= MaxAmount

(* Fault: the fee does not stay in the pool. *)
PoolWithoutFee(e, token, n) ==
    LET pool  == stat[e].pool
        other == Other(e, token)
    IN  [t \in DOMAIN pool |->
            IF t = token THEN pool[t] + n
                         ELSE pool[t] + Rate(-n, pool[other], pool[token] + n)]

PoolAfter(e, token, n) ==
    LET pool == stat[e].pool
    IN  [t \in DOMAIN pool |->
            IF t = token THEN pool[t] + n ELSE pool[t] - Out(e, token, n)]

Exchange(user, e, token, n, min) ==
    /\ (n > 0 /\ min >= 0) \/ (n < 0 /\ min <= 0)
    /\ CanExchange(e, token, n, min)
    /\ CanAddExt(user, token, -n)
    /\ CanAddExt(user, Other(e, token), Out(e, token, n))
    /\ evodexacnts' = AddExt(user, [t \in DOMAIN stat[e].pool |->
                                      IF t = token THEN -n ELSE Out(e, token, n)])
    /\ stat' = [stat EXCEPT ![e].pool = PoolAfter(e, token, n)]
    /\ UNCHANGED <<accounts, evoindex>>

(* ontransfer with "exchange:", for a transfer of any token, also a pool   *)
(* token: what it is exchanged for is sent back at once.                   *)
MemoExchange(from, e, token, n, min) ==
    LET paid == Transferred(accounts, from, Dex, token, n)
    IN  /\ CanTransfer(accounts, from, Dex, token, n)
        /\ CanExchange(e, token, n, min)
        /\ CanTransfer(paid, Dex, from, Other(e, token), Out(e, token, n))
        /\ accounts' = Transferred(paid, Dex, from, Other(e, token), Out(e, token, n))
        /\ stat' = [stat EXCEPT ![e].pool = PoolAfter(e, token, n)]
        /\ UNCHANGED <<evodexacnts, evoindex>>
-----------------------------------------------------------------------------
(***************************************************************************)
(* Pools and pool tokens.                                                  *)
(***************************************************************************)

(* Fault: the index is searched by the pool token. *)
TokenIndexed(e, pair) == e \in DOMAIN evoindex

(* make256key is the same for both orders of a pair. *)
PairIndexed(e, pair) == \E f \in DOMAIN evoindex : evoindex[f] = pair

(* The integer part of the root, which sqrt returns for the products that  *)
(* a double holds exactly.                                                 *)
Root(n) == CHOOSE r \in 0 .. n : r * r <= n /\ n < (r + 1) * (r + 1)

InitToken(user, e, s, m, t, n) ==
    LET pair == {s, t}
    IN  /\ m \in 1 .. InitMax - 1 /\ n \in 1 .. InitMax - 1
        /\ s # t
        /\ e \notin DOMAIN stat
        /\ ~PairIndexed(e, pair)
        /\ CanAddExt(user, s, -m) /\ CanAddExt(user, t, -n)
        /\ stat' = Put(stat, e, [supply |-> Root(m * n), fee |-> DefaultFee,
                                 pool |-> [x \in pair |-> IF x = s THEN m ELSE n]])
        /\ evoindex' = Put(evoindex, e, pair)
        /\ accounts' = AddBalance(accounts, user, e, Root(m * n))
        /\ evodexacnts' = AddExt(user, [x \in pair |-> IF x = s THEN -m ELSE -n])

(* For pools that are older than the index. *)
IndexPair(e) ==
    /\ e \in DOMAIN stat \ DOMAIN evoindex
    /\ ~PairIndexed(e, DOMAIN stat[e].pool)
    /\ evoindex' = Put(evoindex, e, DOMAIN stat[e].pool)
    /\ UNCHANGED <<stat, evodexacnts, accounts>>

(* By the fee contract of the pool; the value is not checked. *)
ChangeFee(e, fee) ==
    /\ e \in DOMAIN stat
    /\ stat' = [stat EXCEPT ![e].fee = fee]
    /\ UNCHANGED <<evodexacnts, accounts, evoindex>>

(* A transfer of pool tokens that is not one to the contract. *)
Transfer(from, to, e, n) ==
    /\ e \in DOMAIN stat
    /\ to # Dex
    /\ CanTransfer(accounts, from, to, e, n)
    /\ accounts' = Transferred(accounts, from, to, e, n)
    /\ UNCHANGED <<stat, evodexacnts, evoindex>>

Open(owner, e) ==
    /\ e \in DOMAIN stat
    /\ <<owner, e>> \notin DOMAIN accounts
    /\ accounts' = Put(accounts, <<owner, e>>, 0)
    /\ UNCHANGED <<stat, evodexacnts, evoindex>>

Close(owner, e) ==
    /\ <<owner, e>> \in DOMAIN accounts
    /\ accounts[<<owner, e>>] = 0
    /\ accounts' = Delete(accounts, <<owner, e>>)
    /\ UNCHANGED <<stat, evodexacnts, evoindex>>
-----------------------------------------------------------------------------
Init ==
    /\ stat = Stat0
    /\ evodexacnts = Deposits0
    /\ accounts = Accounts0
    /\ evoindex = Index0

Depositing ==
    \/ \E row \in ExtRows :
          \/ OpenExt(row[1], row[2])
          \/ \E to \in Users : CloseExt(row[1], to, row[2])
    \/ \E u, to \in Users, t \in Tokens : \E n \in Amounts[t] :
          Deposit(u, to, t, n) \/ Withdraw(u, to, t, n)

Providing ==
    \E u \in Users, e \in DOMAIN stat :
        \E n \in Amounts[e], l \in [DOMAIN stat[e].pool -> Limits] :
            AddLiquidity(u, e, n, l) \/ RemLiquidity(u, e, n, l)

Trading ==
    \E u \in Users, e \in DOMAIN stat, l \in Limits :
        \E t \in DOMAIN stat[e].pool : \E n \in Amounts[t] :
            \/ Exchange(u, e, t, n, l) \/ Exchange(u, e, t, -n, -l)
            \/ MemoExchange(u, e, t, n, l)

Governing ==
    \/ \E u \in Users, e \in Evo, s, t \in Tokens :
          \E m \in Amounts[s], n \in Amounts[t] : InitToken(u, e, s, m, t, n)
    \/ \E e \in Evo : IndexPair(e)
    \/ \E e \in Evo, fee \in Fees : ChangeFee(e, fee)

Holding ==
    \E u \in Users, e \in Evo :
        \/ \E to \in Users, n \in Amounts[e] : Transfer(u, to, e, n)
        \/ Open(u, e) \/ Close(u, e)

Next == Depositing \/ Providing \/ Trading \/ Governing \/ Holding

Spec == Init /\ [][Next]_vars
-----------------------------------------------------------------------------
(***************************************************************************)
(* The properties.                                                         *)
(***************************************************************************)
TypeOK == TablesOK(accounts, evodexacnts, stat, evoindex)

(* The contract holds of every token exactly the deposits and the reserves *)
(* of its pools: deposits, withdrawals, exchanges of either kind, also of  *)
(* pool tokens that are reserves themselves, and fees leave nothing over   *)
(* and nothing uncovered.                                                  *)
Custody == Covered(accounts, evodexacnts, stat)

(* The supply of a pool token is the sum of its balances, those deposited  *)
(* with the contract included: no share of a pool is lost or counted twice.*)
SupplyIsHeld == SharesAddUp(accounts, stat)

(* The product of the reserves over the square of the supply. *)
ValueKept ==
    \A e \in DOMAIN stat : \A s, t \in DOMAIN stat[e].pool :
        LET p == stat[e].pool
            q == stat'[e].pool
        IN  s # t => (q[s] * q[t]) * (stat[e].supply * stat[e].supply)
                       >= (p[s] * p[t]) * (stat'[e].supply * stat'[e].supply)

(* No step lowers what a pool token is worth: neither an exchange, which   *)
(* rounds and charges a fee, nor liquidity bought, sold, and bought back.  *)
PoolValueGrows == [][ValueKept]_vars

(* Every pair of tokens, in either order, has at most one pool in the      *)
(* index, and the index says what the pool is.                             *)
OnePoolPerPair ==
    \A e, f \in DOMAIN evoindex :
        /\ evoindex[e] = DOMAIN stat[e].pool
        /\ evoindex[e] = evoindex[f] => e = f

(* Nobody is locked in: whoever is registered for the tokens of a pool can *)
(* sell any part of his share in it but the last of the supply, whatever   *)
(* exchanges and liquidity have done to the reserves.                      *)
Redeemable ==
    \A e \in DOMAIN stat, u \in Users :
        LET row == stat[e]
        IN  (\A t \in DOMAIN row.pool : <<u, t>> \in DOMAIN evodexacnts) =>
                \A n \in 1 .. Row(accounts, <<u, e>>), t \in DOMAIN row.pool :
                    n < row.supply =>
                        /\ Computable(-n, row.pool[t], row.supply, 0)
                        /\ Compute(-n, row.pool[t], row.supply, 0) <= 0
                        /\ CanAddExt(u, t, -Compute(-n, row.pool[t], row.supply, 0))
                        /\ row.pool[t] + Compute(-n, row.pool[t], row.supply, 0) > 0

(* The market that the users see: what they own, on their accounts and in  *)
(* deposits together, and the pools.                                       *)
Owned(balances, deposits) ==
    [u \in Users |-> [t \in Tokens |->
        Row(balances, <<u, t>>) + Row(deposits, <<u, t>>)]]

PoolsOf(table) ==
    [e \in DOMAIN table |-> [supply |-> table[e].supply, reserves |-> table[e].pool]]

Market == INSTANCE PoolMarket WITH
    Shares <- Evo,
    wealth <- Owned(accounts, evodexacnts),
    pools  <- PoolsOf(stat)

(* The contract is such a market: every action takes only from who acts,   *)
(* and changes one pool at most, at a price that is fair to its shares.    *)
KeepsMarket == Market!Spec
=============================================================================
