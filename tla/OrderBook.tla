------------------------------ MODULE OrderBook ------------------------------
(***************************************************************************)
(* The order book exchange, contracts/orderbookdex: its tables, its        *)
(* actions and its matching loop.                                          *)
(*                                                                         *)
(* A user queues an order (neworder, buy, sell), pays for it by a token    *)
(* transfer that the contract is notified of (ontransfer), which books the *)
(* order and matches the pair.  Anyone may ask for more matching (match);  *)
(* the owner may cancel; fees accrue as rewards that are withdrawn.        *)
(*                                                                         *)
(* Every action of the contract is one transaction of the chain and is     *)
(* atomic.  Those without a loop are one step here.  The two that run the  *)
(* matching loop begin (OnTransfer, Match), make one step per round        *)
(* (Round), and end by saving the iterators' caches (Finish) or by a check *)
(* that fails, which rolls back the whole transaction (Abort).  No other   *)
(* transaction runs meanwhile.                                             *)
(***************************************************************************)
EXTENDS DexMath, Sequences, FiniteSetsExt

CONSTANTS
    Users,              \* accounts that trade
    Dex,                \* the account of the contract, get_self()
    Admin,              \* "dexadmin", administrator and fee collector after init
    Sys,                \* SYS_ACCOUNT, whose direct children pay no rewards
    Creator,            \* account -> its creator; external: get_account_creator
    Tokens,             \* extended symbols: a symbol with the bank that issues it
    Code,               \* token -> its symbol code
    Unit,               \* token -> ten to its precision
    Configs,            \* the configurations that may be set
    StartConfig,        \* the configuration of the initial state
    Requests,           \* the orders users may ask for
    MatchCounts,        \* the max_count arguments of match
    Funds,              \* user -> token -> what the user holds initially
    MaxUint64,          \* std::numeric_limits<uint64_t>::max()
    MaxPairs,           \* bound: symbol pairs ever listed
    MaxOrders           \* bound: orders ever booked

Accounts == Users \cup {Dex, Admin, Sys}

BUY   == "buy"
SELL  == "sell"
NONE  == "none"         \* order_side::NONE, the empty name
UNKNOWN == "unknown"    \* any other name: order_side::index refuses it
Sides == {BUY, SELL, NONE, UNKNOWN}

(* The absent order_config_ex. *)
NoConfigEx == [taker |-> -1, maker |-> -1]

ConfigType ==
    [enabled : BOOLEAN, admin : Accounts, collector : Accounts,
     maker : Nat, taker : Nat, max_match_count : Nat,
     admin_sign_required : BOOLEAN, parent_reward : Nat, grand_reward : Nat]

RequestType ==
    [user : Users, pair : Nat, side : Sides, total : Int, price : Int,
     ex : [taker : Int, maker : Int]]

(* What init writes, and what the contract uses before any init. *)
InitConfig ==
    [enabled |-> TRUE, admin |-> Admin, collector |-> Admin,
     maker |-> 30, taker |-> 30, max_match_count |-> 50,
     admin_sign_required |-> FALSE, parent_reward |-> 10, grand_reward |-> 5]

DefaultConfig ==
    [enabled |-> TRUE, admin |-> Dex, collector |-> Dex,
     maker |-> 4, taker |-> 8, max_match_count |-> 50,
     admin_sign_required |-> FALSE, parent_reward |-> 0, grand_reward |-> 0]

(* The checks of setconfig.  It does not check the reward ratios.         *)
ValidConfig(c) ==
    /\ c.max_match_count > 0
    /\ ValidFeeRatio(c.maker)
    /\ ValidFeeRatio(c.taker)

(* What it does not ask of them: the rewards of a fee are not above it.    *)
(* The proofs that the contract is solvent take it as a hypothesis.        *)
RewardsFit(c) == c.parent_reward + c.grand_reward <= RatioPrecision

FitSetting ==
    /\ IsFiniteSet(Users)
    /\ \A c \in Configs \cup {StartConfig} : RewardsFit(c)

ASSUME AccountsAssumption ==
    /\ Dex \notin Users /\ Sys \notin Users \cup {Dex, Admin} /\ Admin # Dex
    /\ Creator \in [Accounts \ {Sys} -> Accounts]

ASSUME TokensAssumption ==
    /\ Unit \in [Tokens -> Nat \ {0}]
    /\ DOMAIN Code = Tokens
    /\ Funds \in [Users -> [Tokens -> Nat]]

ASSUME ConfigsAssumption ==
    /\ Configs \subseteq ConfigType
    /\ StartConfig \in ConfigType
    /\ ValidConfig(StartConfig)

ASSUME InputsAssumption ==
    /\ Requests \subseteq RequestType
    /\ \A r \in Requests : r.price <= MaxInt64
    /\ MatchCounts \subseteq Nat \ {0}

ASSUME BoundsAssumption ==
    /\ MaxUint64 \in Nat /\ MaxInt64 <= MaxUint64
    /\ MaxPairs \in Nat /\ MaxPairs < MaxUint64
    /\ MaxOrders \in Nat /\ MaxOrders < MaxUint64
-----------------------------------------------------------------------------
VARIABLES
    config,             \* the config singleton
    sympair,            \* sympair table: id -> row
    sympairId,          \* global.sympair_id
    queue,              \* queue table: owner -> the order that awaits payment
    orders,             \* order tables, all scopes: order id -> row
    orderId,            \* global.order_id
    rewards,            \* rewards table: account -> token -> amount
    deals,              \* deals table: the deal with id n is deals[n]
    wallet,             \* external: what the tokens' banks hold for each account
    phase,              \* "idle", or "matching" inside the matching loop
    txn,                \* the arguments and locals of match_sympair
    buyIt, sellIt,      \* its two iterators with their cached fills
    undo                \* what the transaction rolls back to

admin == <<config, sympair, sympairId>>
books == <<queue, orders, orderId>>
money == <<rewards, deals, wallet>>
loop  == <<phase, txn, buyIt, sellIt, undo>>
vars  == <<admin, books, money, loop>>

EmptyTable == [x \in {} |-> x]

(* An iterator at the end of its index, and locals outside a transaction. *)
NoIt   == [id |-> 0, matched_asset |-> 0, matched_coin |-> 0,
           matched_fee |-> 0, last_deal_id |-> 0]
NoTxn  == [action |-> "none", pair |-> 0, limit |-> 0, count |-> 0, price |-> 0]
NoUndo == [queue |-> EmptyTable, orders |-> EmptyTable, orderId |-> 0,
           rewards |-> EmptyTable, deals |-> <<>>, wallet |-> EmptyTable]

Idle == phase = "idle"

(* Fault: an id is handed out again. *)
SameId(id) == IF id = 0 THEN 1 ELSE id

(* new_auto_inc_id *)
NewId(id) == IF id = 0 \/ id = MaxUint64 THEN 1 ELSE id + 1

Put(table, key, row) ==
    [k \in DOMAIN table \cup {key} |-> IF k = key THEN row ELSE table[k]]

Delete(table, key) == [k \in DOMAIN table \ {key} |-> table[k]]

(* The transfer action of a bank: it refuses what is not a valid positive  *)
(* amount or not covered, and a transfer to oneself.                       *)
CanPay(from, to, token, amount) ==
    from # to /\ amount \in 1 .. MaxAmount /\ wallet[from][token] >= amount

Pay(balances, from, to, token, amount) ==
    [balances EXCEPT ![from][token] = @ - amount, ![to][token] = @ + amount]

Tradable(pair) == pair \in DOMAIN sympair /\ sympair[pair].enabled
-----------------------------------------------------------------------------
(***************************************************************************)
(* The order tables.  The scope of a table is its pair and side; the index *)
(* "orderprice" sorts it by get_price and then by the primary key.         *)
(***************************************************************************)
Book(table, pair, side) ==
    {i \in DOMAIN table : table[i].pair = pair /\ table[i].side = side}

(* Fault: buy orders are sorted like sell orders. *)
RawPriceKey(order) == order.price

(* get_price *)
PriceKey(order) ==
    IF order.side = BUY THEN MaxUint64 - order.price ELSE order.price

Before(table, i, j) ==
    \/ PriceKey(table[i]) < PriceKey(table[j])
    \/ PriceKey(table[i]) = PriceKey(table[j]) /\ i < j

First(table, S) == CHOOSE i \in S : \A j \in S \ {i} : Before(table, i, j)

(* matching_order_iterator::process_data: cache the fill of the row that   *)
(* the iterator is on.                                                     *)
Load(table, S) ==
    IF S = {} THEN NoIt
    ELSE LET i == First(table, S)
         IN [id |-> i,
             matched_asset |-> table[i].matched_asset,
             matched_coin  |-> table[i].matched_coin,
             matched_fee   |-> table[i].matched_fee,
             last_deal_id  |-> table[i].last_deal_id]

(* matching_order_iterator::complete_and_next: erase the row, go to the    *)
(* row that followed it.  `table' is the table before the erasure.         *)
NextOf(table, it) ==
    Load(table, {j \in Book(table, table[it.id].pair, table[it.id].side) :
                    Before(table, it.id, j)})

(* Fault: the fees of the fill are not saved. *)
SaveWithoutFee(table, it) ==
    IF it.id = 0 THEN table
    ELSE Put(table, it.id,
             [table[it.id] EXCEPT !.matched_asset = it.matched_asset,
                                  !.matched_coin  = it.matched_coin,
                                  !.last_deal_id  = it.last_deal_id])

(* matching_order_iterator::save_matching_order *)
Save(table, it) ==
    IF it.id = 0 THEN table
    ELSE Put(table, it.id,
             [table[it.id] EXCEPT !.matched_asset = it.matched_asset,
                                  !.matched_coin  = it.matched_coin,
                                  !.matched_fee   = it.matched_fee,
                                  !.last_deal_id  = it.last_deal_id])
-----------------------------------------------------------------------------
(***************************************************************************)
(* Configuration and symbol pairs.                                         *)
(***************************************************************************)
InitDex ==
    /\ Idle
    /\ InitConfig \in Configs
    /\ config' = InitConfig
    /\ UNCHANGED <<sympair, sympairId, books, money, loop>>

SetConfig(conf) ==
    /\ Idle
    /\ ValidConfig(conf)
    /\ config' = conf
    /\ UNCHANGED <<sympair, sympairId, books, money, loop>>

(* Lists the pair asset/coin, or switches it when it is already listed.    *)
SetSymPair(asset, coin, enabled) ==
    LET listed(a, c) ==
            {p \in DOMAIN sympair : sympair[p].asset = a /\ sympair[p].coin = c}
        id == NewId(sympairId)
    IN  /\ Idle
        /\ Code[asset] # Code[coin]
        /\ listed(coin, asset) = {}
        /\ \/ /\ listed(asset, coin) = {}
              /\ sympairId < MaxPairs
              /\ id \notin DOMAIN sympair
              /\ sympairId' = id
              /\ sympair' = Put(sympair, id,
                                [asset |-> asset, coin |-> coin,
                                 enabled |-> enabled, latest |-> 0])
           \/ \E p \in listed(asset, coin) :
                 /\ sympair' = [sympair EXCEPT ![p].enabled = enabled]
                 /\ UNCHANGED sympairId
        /\ UNCHANGED <<config, books, money, loop>>

OnOffSymPair(pair, on) ==
    /\ Idle
    /\ pair \in DOMAIN sympair
    /\ sympair' = [sympair EXCEPT ![pair].enabled = on]
    /\ UNCHANGED <<config, sympairId, books, money, loop>>

(* Fault: the order tables of the pair are erased with it. *)
DelSymPairWithOrders(pair) ==
    /\ Idle
    /\ pair \in DOMAIN sympair
    /\ sympair' = Delete(sympair, pair)
    /\ orders' = Restrict(orders, {i \in DOMAIN orders : orders[i].pair # pair})
    /\ UNCHANGED <<config, sympairId, queue, orderId, money, loop>>

(* Nothing is checked about the orders that the pair still has. *)
DelSymPair(pair) ==
    /\ Idle
    /\ pair \in DOMAIN sympair
    /\ sympair' = Delete(sympair, pair)
    /\ UNCHANGED <<config, sympairId, books, money, loop>>
-----------------------------------------------------------------------------
(***************************************************************************)
(* Queueing an order.                                                      *)
(***************************************************************************)

(* total_frozen_quant: coins for a buy order, assets for any other.        *)
Frozen(r) ==
    IF r.side = BUY
    THEN CalcCoin(r.total, r.price, Unit[sympair[r.pair].asset])
    ELSE r.total

(* new_order, the body shared by neworder, buy and sell.  The side is not  *)
(* checked and the amount may be zero or negative.                         *)
CreateOrder(r, signers) ==
    /\ Idle
    /\ config.enabled
    /\ r.user \in signers
    /\ config.admin_sign_required \/ r.ex # NoConfigEx => config.admin \in signers
    /\ Tradable(r.pair)
    /\ r.ex # NoConfigEx => ValidFeeRatio(r.ex.taker) /\ ValidFeeRatio(r.ex.maker)
    /\ r.price > 0
    /\ r.side = BUY => Fits(r.total, r.price, Unit[sympair[r.pair].asset])
    /\ r.user \notin DOMAIN queue
    /\ queue' = Put(queue, r.user,
          [owner |-> r.user, pair |-> r.pair, side |-> r.side, price |-> r.price,
           total |-> r.total, frozen |-> Frozen(r),
           token |-> IF r.side = BUY THEN sympair[r.pair].coin
                                     ELSE sympair[r.pair].asset,
           taker |-> IF r.ex = NoConfigEx THEN config.taker ELSE r.ex.taker,
           maker |-> IF r.ex = NoConfigEx THEN config.maker ELSE r.ex.maker,
           matched_asset |-> 0, matched_coin |-> 0, matched_fee |-> 0,
           last_deal_id |-> 0])
    /\ UNCHANGED <<admin, orders, orderId, money, loop>>

NewOrder(r, signers) == CreateOrder(r, signers)

Buy(r, signers)  == r.side = BUY  /\ r.ex = NoConfigEx /\ CreateOrder(r, signers)

Sell(r, signers) == r.side = SELL /\ r.ex = NoConfigEx /\ CreateOrder(r, signers)

(* The one action of a user that does not ask whether the dex is enabled.  *)
DelQueueOrd(user) ==
    /\ Idle
    /\ user \in DOMAIN queue
    /\ queue' = Delete(queue, user)
    /\ UNCHANGED <<admin, orders, orderId, money, loop>>
-----------------------------------------------------------------------------
(***************************************************************************)
(* The matching loop.                                                      *)
(***************************************************************************)

(* The head of match_sympair: iterators at the begin of both indexes.      *)
BeginMatching(action, pair, limit, table) ==
    /\ phase'  = "matching"
    /\ txn'    = [action |-> action, pair |-> pair, limit |-> limit,
                  count |-> 0, price |-> 0]
    /\ buyIt'  = Load(table, Book(table, pair, BUY))
    /\ sellIt' = Load(table, Book(table, pair, SELL))
    /\ undo'   = [queue |-> queue, orders |-> orders, orderId |-> orderId,
                  rewards |-> rewards, deals |-> deals, wallet |-> wallet]

(* The notification of a transfer of `quant' of `token' by `from' to the   *)
(* dex: books the queued order that it pays for, and matches its pair.     *)
OnTransfer(from, token, quant) ==
    LET order == queue[from]
        id    == NewId(orderId)
    IN  /\ Idle
        /\ config.enabled
        /\ orderId < MaxOrders
        /\ CanPay(from, Dex, token, quant)
        /\ from \in DOMAIN queue
        /\ Tradable(order.pair)
        /\ token = order.token
        /\ quant = order.frozen
        /\ order.side # UNKNOWN
        /\ orderId' = id
        /\ orders' = Put(orders, id, order)
        /\ queue' = Delete(queue, from)
        /\ wallet' = Pay(wallet, from, Dex, token, quant)
        /\ BeginMatching("ontransfer", order.pair, config.max_match_count, orders')
        /\ UNCHANGED <<admin, rewards, deals>>

Match(pair, limit) ==
    /\ Idle
    /\ config.enabled
    /\ Tradable(pair)
    /\ BeginMatching("match", pair, limit, orders)
    /\ UNCHANGED <<admin, books, money>>

(* Faults: any two orders match; orders of equal price do not. *)
BothSides == buyIt.id # 0 /\ sellIt.id # 0

StrictlyCrossed ==
    BothSides /\ orders[buyIt.id].price > orders[sellIt.id].price

(* matching_pair_iterator::process_data *)
CanMatch ==
    /\ buyIt.id # 0 /\ sellIt.id # 0
    /\ orders[buyIt.id].price >= orders[sellIt.id].price

(* Fault: one round less than allowed. *)
InShortLoop == txn.count + 1 < txn.limit /\ CanMatch

InLoop == txn.count < txn.limit /\ CanMatch

(* The order that was booked last takes, the other one makes the price.    *)
TakerSide == IF buyIt.id > sellIt.id THEN BUY ELSE SELL
MakerId   == IF buyIt.id > sellIt.id THEN sellIt.id ELSE buyIt.id

(* get_free_total_asset_quant.  Nothing but this subtraction of assets     *)
(* bounds the total of a buy order: RoundPasses has its check.             *)
FreeAsset(it) == orders[it.id].total - it.matched_asset

FeeRatio(order) == IF order.side = TakerSide THEN order.taker ELSE order.maker

(* What the buy order gets back when the deal completes it.  Fault: the    *)
(* fills before this one are forgotten.                                    *)
RefundOfLastFill(asset, coin) ==
    IF asset = FreeAsset(buyIt) THEN orders[buyIt.id].frozen - coin ELSE 0

Refund(asset, coin) ==
    IF asset = FreeAsset(buyIt)
    THEN orders[buyIt.id].frozen - (buyIt.matched_coin + coin) ELSE 0

(* calc_matched_amounts, calc_match_fee and matching_order_iterator::match *)
Deal ==
    LET buy   == orders[buyIt.id]
        sell  == orders[sellIt.id]
        price == orders[MakerId].price
        asset == IF FreeAsset(buyIt) < FreeAsset(sellIt) THEN FreeAsset(buyIt)
                                                         ELSE FreeAsset(sellIt)
        coin  == CalcCoin(asset, price, Unit[sympair[txn.pair].asset])
    IN  [pair |-> txn.pair, buy |-> buyIt.id, sell |-> sellIt.id,
         price |-> price, asset |-> asset, coin |-> coin,
         buy_fee |-> MatchFee(FeeRatio(buy), asset),
         sell_fee |-> MatchFee(FeeRatio(sell), coin),
         refund |-> Refund(asset, coin)]

Filled(it, deal, fee) ==
    [id |-> it.id,
     matched_asset |-> it.matched_asset + deal.asset,
     matched_coin  |-> it.matched_coin + deal.coin,
     matched_fee   |-> it.matched_fee + fee,
     last_deal_id  |-> Len(deals) + 1]

(* The additions of assets that make it. *)
FillFits(fill) ==
    {fill.matched_asset, fill.matched_coin, fill.matched_fee} \subseteq 0 .. MaxAmount

(* Fault: a buy order counts as completed when its coins are used up. *)
FundsUsedUp(it) ==
    IF orders[it.id].side = BUY THEN it.matched_coin >= orders[it.id].frozen
                                ELSE it.matched_asset = orders[it.id].total

Completed(it) == it.matched_asset = orders[it.id].total

(* Fault: the whole fee goes to the collector, on top of the rewards. *)
UnsplitFeeShares(user, fee) ==
    LET parent == Creator[user]
    IN  [a \in Accounts |->
            (IF a = parent /\ parent # Sys
             THEN RewardShare(fee, config.parent_reward) ELSE 0)
          + (IF a = config.collector THEN fee ELSE 0)]

(* _allot_fee: what each account is credited from the fee of `user'.       *)
FeeShares(user, fee) ==
    LET parent == Creator[user]
        pays   == config.parent_reward > 0 /\ parent # Sys
        grand  == Creator[parent]
        toParent == IF pays THEN RewardShare(fee, config.parent_reward) ELSE 0
        toGrand  == IF pays THEN RewardShare(fee, config.grand_reward) ELSE 0
        rest     == fee - toParent - toGrand
    IN  [a \in Accounts |->
            (IF a = parent THEN toParent ELSE 0)
          + (IF pays /\ a = grand THEN toGrand ELSE 0)
          + (IF a = config.collector /\ rest > 0 THEN rest ELSE 0)]

(* Its checks: a reward is computed by a product of assets. *)
AllotPasses(user, fee) ==
    config.parent_reward > 0 /\ Creator[user] # Sys =>
        /\ RewardFits(fee, config.parent_reward)
        /\ RewardFits(fee, config.grand_reward)

(* add_balance of the reward types, for the rewards of one fee. *)
Credit(table, token, shares) ==
    [a \in Accounts |-> [table[a] EXCEPT ![token] = @ + shares[a]]]

(* Fault: the check that the coins stay within the frozen ones is missing. *)
RoundPassesUnfrozen(deal) ==
    /\ FreeAsset(buyIt) > 0 /\ FreeAsset(sellIt) > 0
    /\ deal.coin - deal.sell_fee > 0
    /\ deal.asset - deal.buy_fee > 0

(* Every check of a round, and the conditions under which the transfers it *)
(* sends are accepted.                                                     *)
RoundPasses(deal) ==
    LET buy   == orders[buyIt.id]
        sell  == orders[sellIt.id]
        asset == sympair[txn.pair].asset
        coin  == sympair[txn.pair].coin
    IN  /\ {FreeAsset(buyIt), FreeAsset(sellIt)} \subseteq 1 .. MaxAmount
        /\ deal.asset <= FreeAsset(buyIt) /\ deal.asset <= FreeAsset(sellIt)
        /\ deal.asset \in {FreeAsset(buyIt), FreeAsset(sellIt)}
        /\ Fits(deal.asset, deal.price, Unit[asset])
        /\ Fits(deal.asset, FeeRatio(buy), RatioPrecision)
        /\ Fits(deal.coin, FeeRatio(sell), RatioPrecision)
        /\ deal.buy_fee < deal.asset
        /\ deal.sell_fee < deal.coin \/ deal.coin = 0
        /\ AllotPasses(buy.owner, deal.buy_fee)
        /\ AllotPasses(sell.owner, deal.sell_fee)
        /\ FillFits(Filled(buyIt, deal, deal.buy_fee))
        /\ FillFits(Filled(sellIt, deal, deal.sell_fee))
        /\ buyIt.matched_coin + deal.coin <= buy.frozen
        /\ deal.coin - deal.sell_fee > 0
        /\ deal.asset - deal.buy_fee > 0
        /\ wallet[Dex][coin] >= deal.coin - deal.sell_fee + deal.refund
        /\ wallet[Dex][asset] >= deal.asset - deal.buy_fee

(* One iteration: the fees, the transfers, the deal, and the next orders.  *)
Round ==
    LET deal    == Deal
        buyer   == orders[buyIt.id].owner
        seller  == orders[sellIt.id].owner
        asset   == sympair[txn.pair].asset
        coin    == sympair[txn.pair].coin
        newBuy  == Filled(buyIt, deal, deal.buy_fee)
        newSell == Filled(sellIt, deal, deal.sell_fee)
        gone    == {i \in {buyIt.id, sellIt.id} :
                        Completed(IF i = buyIt.id THEN newBuy ELSE newSell)}
    IN  /\ phase = "matching"
        /\ InLoop
        /\ RoundPasses(deal)
        /\ rewards' = Credit(Credit(rewards, asset, FeeShares(buyer, deal.buy_fee)),
                             coin, FeeShares(seller, deal.sell_fee))
        /\ wallet' = Pay(Pay(Pay(wallet,
                Dex, seller, coin, deal.coin - deal.sell_fee),
                Dex, buyer, asset, deal.asset - deal.buy_fee),
                Dex, buyer, coin, deal.refund)
        /\ deals' = Append(deals, deal)
        /\ orders' = Restrict(orders, DOMAIN orders \ gone)
        /\ buyIt'  = IF Completed(newBuy) THEN NextOf(orders, buyIt) ELSE newBuy
        /\ sellIt' = IF Completed(newSell) THEN NextOf(orders, sellIt) ELSE newSell
        /\ txn' = [txn EXCEPT !.count = @ + 1, !.price = deal.price]
        /\ UNCHANGED <<admin, queue, orderId, phase, undo>>

EndTransaction ==
    /\ phase' = "idle"
    /\ txn' = NoTxn
    /\ buyIt' = NoIt
    /\ sellIt' = NoIt
    /\ undo' = NoUndo

(* Fault: only the first deal of a pair sets its price. *)
KeepFirstPrice(pair, price) ==
    IF price > 0 /\ sympair[pair].latest = 0
    THEN [sympair EXCEPT ![pair].latest = price] ELSE sympair

UpdateLatestDealPrice(pair, price) ==
    IF price > 0 THEN [sympair EXCEPT ![pair].latest = price] ELSE sympair

(* The tail of match_sympair, and the check of match that follows it.      *)
Finish ==
    /\ phase = "matching"
    /\ ~InLoop
    /\ txn.action = "match" => txn.count > 0
    /\ orders' = Save(Save(orders, buyIt), sellIt)
    /\ sympair' = UpdateLatestDealPrice(txn.pair, txn.price)
    /\ EndTransaction
    /\ UNCHANGED <<config, sympairId, queue, orderId, money>>

(* A check fails: the chain drops every effect of the transaction.         *)
Abort ==
    /\ phase = "matching"
    /\ IF InLoop THEN ~RoundPasses(Deal)
                 ELSE txn.action = "match" /\ txn.count = 0
    /\ queue' = undo.queue
    /\ orders' = undo.orders
    /\ orderId' = undo.orderId
    /\ rewards' = undo.rewards
    /\ deals' = undo.deals
    /\ wallet' = undo.wallet
    /\ EndTransaction
    /\ UNCHANGED admin
-----------------------------------------------------------------------------
(***************************************************************************)
(* Leaving the book and taking rewards.                                    *)
(***************************************************************************)

(* Fault: the remainder of a buy order in assets. *)
RemainderInAssets(order) == order.frozen - order.matched_asset

(* What an order still holds: frozen less what its fills have used.        *)
Remainder(order) ==
    order.frozen - (IF order.side = BUY THEN order.matched_coin
                                        ELSE order.matched_asset)

(* A remainder of zero passes the contract's own check, but the bank        *)
(* refuses the transfer of it, and the cancellation is rolled back.        *)
Cancel(user, pair, side, id) ==
    /\ Idle
    /\ config.enabled
    /\ id \in Book(orders, pair, side)
    /\ user = orders[id].owner
    /\ Tradable(pair)
    /\ Remainder(orders[id]) >= 0
    /\ CanPay(Dex, user, orders[id].token, Remainder(orders[id]))
    /\ wallet' = Pay(wallet, Dex, user, orders[id].token, Remainder(orders[id]))
    /\ orders' = Delete(orders, id)
    /\ UNCHANGED <<admin, queue, orderId, rewards, deals, loop>>

Withdraw(user, token, quant) ==
    /\ Idle
    /\ config.enabled
    /\ quant > 0
    /\ rewards[user][token] >= quant
    /\ CanPay(Dex, user, token, quant)
    /\ rewards' = [rewards EXCEPT ![user][token] = @ - quant]
    /\ wallet' = Pay(wallet, Dex, user, token, quant)
    /\ UNCHANGED <<admin, books, deals, loop>>
-----------------------------------------------------------------------------
Init ==
    /\ config = StartConfig
    /\ sympair = EmptyTable /\ sympairId = 0
    /\ queue = EmptyTable
    /\ orders = EmptyTable /\ orderId = 0
    /\ rewards = [a \in Accounts |-> [t \in Tokens |-> 0]]
    /\ deals = <<>>
    /\ wallet = [a \in Accounts |->
                    IF a \in Users THEN Funds[a] ELSE [t \in Tokens |-> 0]]
    /\ phase = "idle" /\ txn = NoTxn
    /\ buyIt = NoIt /\ sellIt = NoIt /\ undo = NoUndo

Administer ==
    \/ InitDex
    \/ \E conf \in Configs : SetConfig(conf)
    \/ \E a, c \in Tokens, on \in BOOLEAN : SetSymPair(a, c, on)
    \/ \E p \in DOMAIN sympair, on \in BOOLEAN : OnOffSymPair(p, on)
    \/ \E p \in DOMAIN sympair : DelSymPair(p)

Place ==
    \/ \E r \in Requests : \E signers \in SUBSET {r.user, config.admin} :
          NewOrder(r, signers) \/ Buy(r, signers) \/ Sell(r, signers)
    \/ \E u \in Users : DelQueueOrd(u)
    \/ \E u \in Users, t \in Tokens : \E q \in 1 .. wallet[u][t] : OnTransfer(u, t, q)

MatchAny == \E p \in DOMAIN sympair, n \in MatchCounts : Match(p, n)

Leave ==
    \/ \E i \in DOMAIN orders, u \in Users :
          Cancel(u, orders[i].pair, orders[i].side, i)
    \/ \E a \in Accounts, t \in Tokens : \E q \in 1 .. rewards[a][t] : Withdraw(a, t, q)

Next == Administer \/ Place \/ MatchAny \/ Leave \/ Round \/ Finish \/ Abort

Spec == Init /\ [][Next]_vars
-----------------------------------------------------------------------------
(***************************************************************************)
(* The types.                                                              *)
(***************************************************************************)
Balances == [Accounts -> [Tokens -> Nat]]

PairType == [asset : Tokens, coin : Tokens, enabled : BOOLEAN, latest : Nat]

QueuedType ==
    [owner : Users, pair : Nat, side : Sides, price : 1 .. MaxInt64, total : Int,
     frozen : Int, token : Tokens, taker : 0 .. FeeRatioMax,
     maker : 0 .. FeeRatioMax, matched_asset : Nat, matched_coin : Nat,
     matched_fee : Nat, last_deal_id : Nat]

OrderType == {o \in QueuedType : o.frozen \in 1 .. MaxAmount}

DealType ==
    [pair : Nat, buy : Nat, sell : Nat, price : Nat, asset : Nat, coin : Nat,
     buy_fee : Nat, sell_fee : Nat, refund : Nat]

ItType ==
    [id : Nat, matched_asset : Nat, matched_coin : Nat, matched_fee : Nat,
     last_deal_id : Nat]

TxnType ==
    [action : {"none", "ontransfer", "match"}, pair : Nat, limit : Nat,
     count : Nat, price : Nat]

IsTable(table, keys, rows) ==
    DOMAIN table \subseteq keys /\ \A k \in DOMAIN table : table[k] \in rows

UndoTypeOK ==
    /\ IsTable(undo.queue, Users, QueuedType)
    /\ IsTable(undo.orders, 1 .. undo.orderId, OrderType)
    /\ undo.orderId \in 0 .. MaxOrders
    /\ undo.rewards \in Balances
    /\ undo.deals \in Seq(DealType)
    /\ undo.wallet \in Balances

OnBook(it, side) == it.id # 0 => it.id \in Book(orders, txn.pair, side)

TypeOK ==
    /\ config \in ConfigType /\ ValidConfig(config)
    /\ IsTable(sympair, 1 .. sympairId, PairType)
    /\ sympairId \in 0 .. MaxPairs
    /\ IsTable(queue, Users, QueuedType)
    /\ IsTable(orders, 1 .. orderId, OrderType)
    /\ orderId \in 0 .. MaxOrders
    /\ rewards \in Balances
    /\ deals \in Seq(DealType)
    /\ wallet \in Balances
    /\ phase \in {"idle", "matching"}
    /\ txn \in TxnType
    /\ buyIt \in ItType /\ sellIt \in ItType
    /\ phase = "matching" =>
          /\ txn.pair \in DOMAIN sympair
          /\ OnBook(buyIt, BUY) /\ OnBook(sellIt, SELL)
          /\ UndoTypeOK
-----------------------------------------------------------------------------
(***************************************************************************)
(* The properties.                                                         *)
(***************************************************************************)

(* The fill of a booked order: the iterator's cache while it is on the     *)
(* order, the row otherwise.                                               *)
Fill(i) ==
    IF phase = "matching" /\ i = buyIt.id THEN buyIt
    ELSE IF phase = "matching" /\ i = sellIt.id THEN sellIt
    ELSE orders[i]

Held(i) ==
    orders[i].frozen - (IF orders[i].side = BUY THEN Fill(i).matched_coin
                                                ELSE Fill(i).matched_asset)

Locked(S, token) ==
    SumFunctionOnSet([i \in S |-> IF orders[i].token = token THEN Held(i) ELSE 0], S)

Owed(token) ==
    SumFunctionOnSet([a \in Accounts |-> rewards[a][token]], Accounts)

DealsOf(table, i) == {n \in DOMAIN table : i \in {table[n].buy, table[n].sell}}

SumOfDeals(table, S, field) == SumFunctionOnSet([n \in S |-> table[n][field]], S)

(* The contract holds of every token exactly what its booked orders have   *)
(* not used of their frozen amount and the rewards it has not paid out,    *)
(* after every transaction and between the rounds of one: fills, fees,     *)
(* their split, refunds and cancellations neither create nor strand money. *)
Solvent ==
    \A t \in Tokens : wallet[Dex][t] = Locked(DOMAIN orders, t) + Owed(t)

(* What an order row says of its fill is what the deals table says: the    *)
(* caches of the iterators lose no deal of a loop, however many orders it  *)
(* completes, and save none on the wrong row.                              *)
FillsAreDeals ==
    \A i \in DOMAIN orders :
        LET mine == DealsOf(deals, i)
            fee  == IF orders[i].side = BUY THEN "buy_fee" ELSE "sell_fee"
        IN  /\ Fill(i).matched_asset = SumOfDeals(deals, mine, "asset")
            /\ Fill(i).matched_coin  = SumOfDeals(deals, mine, "coin")
            /\ Fill(i).matched_fee   = SumOfDeals(deals, mine, fee)
            /\ Fill(i).last_deal_id  = IF mine = {} THEN 0 ELSE Max(mine)

(* A booked order is never filled beyond what it froze, and is never       *)
(* filled completely: the round that completes it erases it.               *)
WithinLimits ==
    \A i \in DOMAIN orders :
        /\ Fill(i).matched_asset < orders[i].total
        /\ orders[i].side = BUY => Fill(i).matched_coin <= orders[i].frozen

(* The coins of a fill never overflow, though a sell order is accepted     *)
(* without the check that a buy order has to pass: the price of a round is *)
(* never above the buyer's, the amount never above the buyer's.            *)
CoinsFit ==
    phase = "matching" /\ InLoop =>
        Fits(Deal.asset, Deal.price, Unit[sympair[txn.pair].asset])

(* Who has an order of a traded pair in the book can take it back, whatever *)
(* its fills were rounded to: what it still holds is not negative, and the  *)
(* contract has it.  Only a buy order of which the fills have used up all   *)
(* coins cannot be cancelled (its transfer would be one of zero).           *)
Cancellable ==
    Idle /\ config.enabled =>
        \A i \in DOMAIN orders :
            LET o == orders[i]
            IN  Tradable(o.pair) =>
                    \/ CanPay(Dex, o.owner, o.token, Remainder(o))
                    \/ o.side = BUY /\ Remainder(o) = 0

(* The latest price of a pair is the price of its last deal.               *)
LatestPrice ==
    Idle => \A p \in DOMAIN sympair :
        LET ds == {n \in DOMAIN deals : deals[n].pair = p}
        IN  sympair[p].latest = IF ds = {} THEN 0 ELSE deals[Max(ds)].price

(* A deal is made between the best buy and the best sell order of the pair *)
(* (price, then time), at the price of the older one, within both limits.  *)
BestOrdersFirst ==
    [][Len(deals') > Len(deals) =>
         LET d == deals'[Len(deals')]
             price(i) == orders[i].price
         IN  /\ \A i \in Book(orders, d.pair, BUY) :
                    /\ price(i) <= price(d.buy)
                    /\ price(i) = price(d.buy) => d.buy <= i
             /\ \A i \in Book(orders, d.pair, SELL) :
                    /\ price(i) >= price(d.sell)
                    /\ price(i) = price(d.sell) => d.sell <= i
             /\ orders[d.buy].price >= d.price /\ d.price >= orders[d.sell].price
             /\ d.price = orders[Min({d.buy, d.sell})].price
      ]_vars

Crossed(pair) ==
    \E b \in Book(orders, pair, BUY), s \in Book(orders, pair, SELL) :
        orders[b].price >= orders[s].price

(* A transaction that is not rolled back makes at most as many deals as it *)
(* may, and when it makes fewer no two orders of the pair still cross.     *)
MatchedToTheEnd ==
    [][Finish =>
         LET made == Len(deals) - Len(undo.deals)
         IN  /\ made <= txn.limit
             /\ made < txn.limit => \A p \in {txn.pair} : ~Crossed(p)'
      ]_vars

(* An order leaves the book, other than by a rollback of its booking, only *)
(* settled: completed, when its deals add up to its total and, for a buy   *)
(* order, with the refund to what it froze; or cancelled, when its owner   *)
(* receives what its deals have left of the frozen amount.                 *)
LeavesSettled ==
    [][~(phase = "matching" /\ phase' = "idle") =>
         \A i \in DOMAIN orders \ DOMAIN orders' :
            LET mine == DealsOf(deals', i)
                o    == orders[i]
                used == SumOfDeals(deals', mine, IF o.side = BUY THEN "coin" ELSE "asset")
            IN  IF phase = "matching"
                THEN /\ SumOfDeals(deals', mine, "asset") = o.total
                     /\ o.side = BUY =>
                           used + deals'[Max(mine)].refund = o.frozen
                ELSE wallet'[o.owner][o.token] = wallet[o.owner][o.token] + o.frozen - used
      ]_vars

(* The rows of the queue and of the books name tokens of the pair whose id *)
(* they carry, as long as that id is listed: an id that was listed once is *)
(* never given to another pair.                                            *)
RowsFitListing ==
    LET fits(o) == o.pair \in DOMAIN sympair =>
            o.token = IF o.side = BUY THEN sympair[o.pair].coin
                                      ELSE sympair[o.pair].asset
    IN  /\ \A i \in DOMAIN orders : fits(orders[i])
        /\ \A u \in DOMAIN queue : fits(queue[u])

Holdings(user, token) ==
    wallet[user][token] + rewards[user][token]
      + Locked({i \in DOMAIN orders : orders[i].owner = user}, token)

(* Nothing but a deal changes what a user owns in the wallet, in booked    *)
(* orders and in rewards together: not a payment, a cancellation, a        *)
(* withdrawal, the end or the rollback of a transaction, nor anything the  *)
(* administrator does.                                                     *)
OnlyDealsMoveValue ==
    [][deals' = deals =>
         \A u \in Users, t \in Tokens : Holdings(u, t)' = Holdings(u, t)]_vars

(* A round fails only because an amount is too small or too large: its     *)
(* coins round to nothing, or those of the buy order's fills round up      *)
(* above what it froze; or a width is exceeded, by the total of the buy    *)
(* order, by the fee of the assets before its last digit is cut, by the    *)
(* coins that the sell order has gathered, or by a reward before its       *)
(* division.  No other check of the loop ever fails, and no transfer is    *)
(* refused.                                                                *)
OnlyAmountsFail ==
    phase = "matching" /\ InLoop /\ ~RoundPasses(Deal) =>
        \/ Deal.coin = 0
        \/ buyIt.matched_coin + Deal.coin > orders[buyIt.id].frozen
        \/ orders[buyIt.id].total > MaxAmount
        \/ Deal.asset > MaxInt64 \div 5
        \/ sellIt.matched_coin + Deal.coin > MaxAmount
        \/ ~AllotPasses(orders[buyIt.id].owner, Deal.buy_fee)
        \/ ~AllotPasses(orders[sellIt.id].owner, Deal.sell_fee)

(* Where all prices are whole coins for the smallest unit of asset, and no *)
(* order is so large that its coins, times a reward ratio, are no amount,  *)
(* no round ever fails: nobody's order is rolled back or in anybody's way. *)
WholePrices == \A r \in Requests, t \in Tokens : r.price % Unit[t] = 0

SmallAmounts ==
    \A r, s \in Requests, t \in Tokens, c \in Configs \cup {StartConfig} :
        \A k \in {1, c.parent_reward, c.grand_reward} :
            r.total * s.price * k <= MaxAmount * Unit[t]

RoundsPass == phase = "matching" /\ InLoop => RoundPasses(Deal)

(* However many deals fill an order, at whatever prices, it pays or gets   *)
(* its limit price or a better one, but for half a unit of coin a deal.    *)
LimitPriceKept ==
    [][\A i \in DOMAIN orders : orders[i].pair \in DOMAIN sympair =>
        LET o     == orders[i]
            mine  == DealsOf(deals', i)
            unit  == Unit[sympair[o.pair].asset]
            coins == 2 * unit * SumOfDeals(deals', mine, "coin")
            limit == 2 * o.price * SumOfDeals(deals', mine, "asset")
            slack == unit * Cardinality(mine)
        IN  /\ o.side = BUY  => coins <= limit + slack
            /\ o.side = SELL => coins + slack >= limit
      ]_vars

(* The ledger that the users see: the tables as they are between the       *)
(* transactions.  Rewards can be withdrawn at any time, so they are at the *)
(* account's disposal.                                                     *)
Free(balances, rws) ==
    [a \in Accounts |-> [t \in Tokens |->
        rws[a][t] + (IF a = Dex THEN 0 ELSE balances[a][t])]]

Open(table) ==
    [i \in DOMAIN table |-> [owner |-> table[i].owner, token |-> table[i].token,
                             amount |-> Remainder(table[i])]]

Ledger == INSTANCE TradeLedger WITH
    Ids    <- 1 .. MaxOrders,
    free   <- IF Idle THEN Free(wallet, rewards) ELSE Free(undo.wallet, undo.rewards),
    open   <- IF Idle THEN Open(orders) ELSE Open(undo.orders),
    trades <- IF Idle THEN deals ELSE undo.deals

(* The contract keeps this ledger: half of a transaction is never seen.    *)
KeepsLedger == Ledger!Spec

(* The matcher: the chain ends the transactions it has begun, and somebody *)
(* keeps calling match for every listed pair.  Strong fairness, because    *)
(* the call is impossible while the chain runs another transaction.        *)
MatcherSpec ==
    /\ Spec
    /\ WF_vars(Round) /\ WF_vars(Finish) /\ WF_vars(Abort)
    /\ \A p \in 1 .. MaxPairs :
          SF_vars(p \in DOMAIN sympair /\ \E n \in MatchCounts : Match(p, n))

(* What a limited match leaves crossed does not stay so while somebody     *)
(* keeps calling match and the pair can be traded.                         *)
CrossedIsMatched ==
    \A p \in 1 .. MaxPairs :
        Crossed(p) ~> (~Crossed(p) \/ ~config.enabled \/ ~Tradable(p))
-----------------------------------------------------------------------------
(***************************************************************************)
(* What the source says of itself, and the runs refute.                    *)
(***************************************************************************)

(* dex_match.hpp:129 asserts of every fill that the coins matched so far   *)
(* stay within the frozen ones.                                            *)
FillsStayFrozen ==
    phase = "matching" /\ InLoop =>
        buyIt.matched_coin + Deal.coin <= orders[buyIt.id].frozen

(* dex_states.hpp:104, if false, disable all operation of common user:     *)
(* while the dex is disabled, the tables that users write do not change.   *)
DisabledFreezesUsers ==
    [][~config.enabled => UNCHANGED <<queue, orders, rewards, deals, wallet>>]_vars
=============================================================================
