-------------------------- MODULE OrderBookPromises --------------------------
(***************************************************************************)
(* What the order book promises of a transaction and of an order: why a    *)
(* transaction may fail, what price an order gets over all of its deals,   *)
(* and that the order book implements the ledger of TradeLedger.           *)
(***************************************************************************)
EXTENDS OrderBookSafety

-----------------------------------------------------------------------------
(***************************************************************************)
(* Failures.  The contract has what its orders hold, and their rows are    *)
(* within their limits: only the checks on the coins of a round and on the *)
(* widths of its amounts can fail.                                         *)
(***************************************************************************)
(* What the contract holds covers what any one order has left. *)
LEMMA PartIsCovered ==
    ASSUME IsFiniteSet(Users), TypeInv, LimitInv, SolventInv, phase = "matching",
           NEW i \in DOMAIN orders
    PROVE  wallet[Dex][orders[i].token] >= Held(i)
  <1> DEFINE t == orders[i].token
             f == LiveParts(t)
  <1>1. /\ IsFiniteSet(DOMAIN orders)
        /\ \A j \in DOMAIN orders : orders[j] \in QueuedType
    BY LivePartsType
  <1>2. /\ \A j \in DOMAIN orders : Within(orders[j], Fill(j))
        /\ 0 \notin DOMAIN orders
    BY DEF TypeInv, TypeOK, IsTable, LimitInv, RowsWithin, Fill
  <1>3. ASSUME NEW j \in DOMAIN orders PROVE Held(j) \in Nat
    <2>1. /\ orders[j].frozen \in Int /\ orders[j].total \in Int
      BY <1>1 DEF QueuedType
    <2>2. buyIt \in ItType /\ sellIt \in ItType
      BY DEF TypeInv, TypeOK
    <2>3. Fill(j).matched_asset \in Nat /\ Fill(j).matched_coin \in Nat
      BY <1>1, <2>2 DEF Fill, QueuedType, ItType
    <2>4. Within(orders[j], Fill(j))
      BY <1>2
    <2> QED BY <2>1, <2>3, <2>4 DEF Within, Whole, Held
  <1>4. \A j \in DOMAIN orders : f[j] = IF orders[j].token = t THEN Held(j) ELSE 0
    BY DEF LiveParts, Part, Held
  <1>5. t \in Tokens
    BY <1>1 DEF QueuedType
  <1>6. wallet[Dex][t] = SumFunctionOnSet(f, DOMAIN orders) + OwedOf(rewards, t)
    BY <1>5 DEF SolventInv
  <1>7. f[i] = Held(i)
    BY <1>4
  <1> HIDE DEF f
  <1>8. \A j \in DOMAIN orders : f[j] \in Nat
    BY <1>3, <1>4
  <1>9. f[i] <= SumFunctionOnSet(f, DOMAIN orders) /\ SumFunctionOnSet(f, DOMAIN orders) \in Nat
    BY <1>1, <1>8, SumAtLeast, SumIsNat
  <1>10. OwedOf(rewards, t) \in Nat
    BY <1>5, OwedIsNat DEF TypeInv, TypeOK
  <1> HIDE DEF t
  <1>11. wallet[Dex][t] >= Held(i)
    BY <1>3, <1>6, <1>7, <1>9, <1>10
  <1> QED BY <1>11 DEF t

LEMMA FillIsFit ==
    ASSUME NEW it \in ItType, NEW deal, NEW fee \in Nat,
           deal.asset \in Nat, it.matched_asset + deal.asset <= MaxAmount,
           deal.coin \in Nat, it.matched_coin + deal.coin <= MaxAmount,
           it.matched_fee + fee <= MaxAmount
    PROVE  FillFits(Filled(it, deal, fee))
  <1>1. /\ it.matched_asset \in Nat /\ it.matched_coin \in Nat /\ it.matched_fee \in Nat
        /\ MaxAmount \in Nat
    BY MaxInt64Assumption DEF ItType, MaxAmount
  <1>2. /\ it.matched_asset + deal.asset \in 0 .. MaxAmount
        /\ it.matched_coin + deal.coin \in 0 .. MaxAmount
        /\ it.matched_fee + fee \in 0 .. MaxAmount
    BY <1>1
  <1> QED BY <1>2 DEF FillFits, Filled

(* A round passes all of its checks, if its coins do not round to nothing, *)
(* stay within the frozen ones, and the few widths that nothing has        *)
(* checked before are not exceeded.                                        *)
LEMMA RoundCanPass ==
    ASSUME IsFiniteSet(Users), TypeInv, LimitInv, ListingInv, SolventInv,
           phase = "matching", InLoop,
           Deal.coin # 0, Fits(Deal.asset, FeeRatio(orders[buyIt.id]), RatioPrecision),
           buyIt.matched_coin + Deal.coin <= orders[buyIt.id].frozen,
           orders[buyIt.id].total <= MaxAmount,
           sellIt.matched_coin + Deal.coin <= MaxAmount,
           AllotPasses(orders[buyIt.id].owner, Deal.buy_fee),
           AllotPasses(orders[sellIt.id].owner, Deal.sell_fee)
    PROVE  RoundPasses(Deal)
  <1> DEFINE buy   == orders[buyIt.id]
             sell  == orders[sellIt.id]
             freeB == FreeAsset(buyIt)
             freeS == FreeAsset(sellIt)
             price == orders[MakerId].price
             asset == IF freeB < freeS THEN freeB ELSE freeS
             unit  == Unit[sympair[txn.pair].asset]
             coin  == CalcCoin(asset, price, unit)
             bfee  == MatchFee(FeeRatio(buy), asset)
             sfee  == MatchFee(FeeRatio(sell), coin)
             refund == Refund(asset, coin)
  <1>1. /\ Deal.price = price /\ Deal.asset = asset /\ Deal.coin = coin
        /\ Deal.buy_fee = bfee /\ Deal.sell_fee = sfee /\ Deal.refund = refund
    BY DEF Deal
  <1>2. /\ buyIt \in ItType /\ sellIt \in ItType
        /\ buyIt.id \in DOMAIN orders /\ buy.pair = txn.pair /\ buy.side = BUY
        /\ sellIt.id \in DOMAIN orders /\ sell.pair = txn.pair /\ sell.side # BUY
        /\ buyIt.id # sellIt.id
        /\ buy \in QueuedType /\ sell \in QueuedType
        /\ txn.pair \in DOMAIN sympair /\ sympair[txn.pair] \in PairType
    BY RoundOrders DEF Book, BUY, SELL
  <1>3. Fits(asset, price, unit)
    BY <1>1, ListingInvFits DEF CoinsFit
  <1>4. /\ buy.total \in Int /\ sell.total \in Int
        /\ buy.frozen \in Int /\ sell.frozen \in Int
        /\ price \in Nat
        /\ buyIt.matched_asset \in Nat /\ sellIt.matched_asset \in Nat
        /\ buyIt.matched_coin \in Nat /\ sellIt.matched_coin \in Nat
        /\ buyIt.matched_fee \in Nat /\ sellIt.matched_fee \in Nat
        /\ FeeRatio(buy) \in 0 .. FeeRatioMax /\ FeeRatio(sell) \in 0 .. FeeRatioMax
    BY <1>2, MaxInt64Assumption DEF QueuedType, ItType, MakerId, FeeRatio
  <1>5. unit \in Nat \ {0}
    BY <1>2, TokensAssumption DEF PairType
  <1>6. freeB \in Nat \ {0} /\ freeS \in Nat \ {0}
    <2>1. Within(buy, buyIt) /\ Within(sell, sellIt)
      BY DEF LimitInv, InLoop, CanMatch
    <2> QED BY <1>4, <2>1 DEF FreeAsset, Within
  <1>7. /\ buy.token = sympair[txn.pair].coin
        /\ sell.token = sympair[txn.pair].asset
    BY <1>2 DEF ListingInv, RowsFit, FitsListing
  <1>8. /\ wallet[Dex][buy.token] >= Held(buyIt.id)
        /\ wallet[Dex][sell.token] >= Held(sellIt.id)
    BY <1>2, PartIsCovered
  <1>9. Held(buyIt.id) = buy.frozen - buyIt.matched_coin
    BY <1>2 DEF Held, Fill
  <1>10. Held(sellIt.id) = freeS
    <2>1. sell.frozen = sell.total
      BY <1>2 DEF LimitInv, RowsWithin, Within, Whole
    <2> QED BY <1>2, <2>1 DEF Held, Fill, FreeAsset
  <1>11. refund = IF asset = freeB THEN buy.frozen - (buyIt.matched_coin + coin) ELSE 0
    BY DEF Refund
  <1>12. /\ wallet[Dex][sympair[txn.pair].coin] \in Int
         /\ wallet[Dex][sympair[txn.pair].asset] \in Int
    BY <1>2 DEF TypeInv, TypeOK, Balances, Accounts, PairType
  <1>13. /\ coin # 0 /\ Fits(asset, FeeRatio(buy), RatioPrecision)
         /\ buyIt.matched_coin + coin <= buy.frozen
         /\ sellIt.matched_coin + coin <= MaxAmount
         /\ AllotPasses(buy.owner, bfee) /\ AllotPasses(sell.owner, sfee)
    BY <1>1
  <1>23. /\ buy.total <= MaxAmount /\ sell.total <= MaxAmount /\ buy.frozen <= MaxAmount
         /\ MaxAmount \in Nat
    <2>1. buy \in OrderType /\ sell \in OrderType
      BY <1>2 DEF TypeInv, TypeOK, IsTable
    <2>2. sell.frozen = sell.total
      BY <1>2 DEF LimitInv, RowsWithin, Within, Whole
    <2>3. MaxAmount \in Nat
      BY MaxInt64Assumption DEF MaxAmount
    <2> QED BY <2>1, <2>2, <2>3 DEF OrderType
  <1>24. freeB = buy.total - buyIt.matched_asset /\ freeS = sell.total - sellIt.matched_asset
    BY DEF FreeAsset
  <1>25. buyIt.matched_fee <= buyIt.matched_asset /\ sellIt.matched_fee <= sellIt.matched_coin
    BY <1>2 DEF LimitInv, InLoop, CanMatch, Within
  <1> HIDE DEF freeB, freeS, price, unit, buy, sell, refund
  <1>14. /\ asset \in Nat \ {0} /\ asset <= freeB /\ asset <= freeS
         /\ asset \in {freeB, freeS}
    BY <1>6
  <1> HIDE DEF asset
  <1>15. coin \in Nat \ {0} /\ 5 * coin <= MaxInt64
    BY <1>3, <1>4, <1>5, <1>13, <1>14, CoinRounds, CoinIsSmall
  <1> HIDE DEF coin
  <1>16. Fits(coin, FeeRatio(sell), RatioPrecision)
    BY <1>4, <1>15, FeeFits
  <1>17. bfee \in Nat /\ bfee < asset /\ sfee \in Nat /\ sfee < coin
    BY <1>4, <1>14, <1>15, FeeBelowQuant
  <1> HIDE DEF bfee, sfee
  <1>18. /\ coin - sfee > 0 /\ asset - bfee > 0
    BY <1>14, <1>15, <1>17
  <1>19. coin - sfee + refund <= buy.frozen - buyIt.matched_coin
    BY <1>4, <1>11, <1>13, <1>15, <1>17
  <1>20. wallet[Dex][sympair[txn.pair].coin] >= coin - sfee + refund
    <2>1. coin - sfee + refund \in Int
      BY <1>4, <1>11, <1>15, <1>17
    <2>2. wallet[Dex][sympair[txn.pair].coin] >= buy.frozen - buyIt.matched_coin
      BY <1>7, <1>8, <1>9
    <2> QED BY <1>4, <1>12, <1>19, <2>1, <2>2
  <1>21. wallet[Dex][sympair[txn.pair].asset] >= asset - bfee
    <2>1. wallet[Dex][sympair[txn.pair].asset] >= freeS
      BY <1>7, <1>8, <1>10
    <2> QED BY <1>6, <1>12, <1>14, <1>17, <2>1
  <1>22. FreeAsset(buyIt) = freeB /\ FreeAsset(sellIt) = freeS
    BY DEF freeB, freeS
  <1>26. {freeB, freeS} \subseteq 1 .. MaxAmount
    BY <1>4, <1>6, <1>23, <1>24
  <1>27. /\ Deal.asset \in Nat /\ Deal.coin \in Nat
         /\ buyIt.matched_asset + Deal.asset <= MaxAmount
         /\ sellIt.matched_asset + Deal.asset <= MaxAmount
         /\ buyIt.matched_coin + Deal.coin <= MaxAmount
         /\ sellIt.matched_coin + Deal.coin <= MaxAmount
         /\ buyIt.matched_fee + bfee <= MaxAmount
         /\ sellIt.matched_fee + sfee <= MaxAmount
    BY <1>1, <1>4, <1>13, <1>14, <1>15, <1>17, <1>23, <1>24, <1>25
  <1>28. /\ FillFits(Filled(buyIt, Deal, Deal.buy_fee))
         /\ FillFits(Filled(sellIt, Deal, Deal.sell_fee))
    BY <1>1, <1>2, <1>17, <1>27, FillIsFit
  <1> QED BY <1>1, <1>3, <1>6, <1>13, <1>14, <1>16, <1>17, <1>18, <1>20, <1>21, <1>22,
             <1>26, <1>28
          DEF RoundPasses, buy, sell, unit

(* The checks of a round and of the operations on assets in it, and the    *)
(* conditions of its transfers, are a dozen and more.  The solvency of the *)
(* contract and the limits of its orders leave seven ways for a round to   *)
(* roll its transaction back: coins of nothing, coins above the frozen     *)
(* ones, and five widths, of the total of the buy order, of the fee on the *)
(* assets, of what the seller has got, and of the rewards of either fee.   *)
THEOREM FailuresAreAmounts ==
    ASSUME FitSetting
    PROVE  Spec => []OnlyAmountsFail
  <1>1. ASSUME TypeInv, LimitInv, ListingInv, SolventInv
        PROVE  OnlyAmountsFail
    <2> SUFFICES ASSUME phase = "matching", InLoop, Deal.coin # 0,
                        ~(buyIt.matched_coin + Deal.coin > orders[buyIt.id].frozen),
                        ~(orders[buyIt.id].total > MaxAmount),
                        ~(Deal.asset > MaxInt64 \div 5),
                        ~(sellIt.matched_coin + Deal.coin > MaxAmount),
                        AllotPasses(orders[buyIt.id].owner, Deal.buy_fee),
                        AllotPasses(orders[sellIt.id].owner, Deal.sell_fee)
                 PROVE  RoundPasses(Deal)
      BY DEF OnlyAmountsFail
    <2>1. /\ buyIt \in ItType /\ sellIt \in ItType
          /\ orders[buyIt.id] \in QueuedType /\ orders[sellIt.id] \in QueuedType
          /\ txn.pair \in DOMAIN sympair /\ sympair[txn.pair] \in PairType
      BY <1>1, RoundOrders
    <2>2. Within(orders[buyIt.id], buyIt) /\ Within(orders[sellIt.id], sellIt)
      BY <1>1 DEF LimitInv, InLoop, CanMatch
    <2>3. Deal.asset \in Nat
      <3>1. FreeAsset(buyIt) \in Nat /\ FreeAsset(sellIt) \in Nat
        BY <2>1, <2>2 DEF FreeAsset, Within, QueuedType, ItType
      <3>2. Deal.asset \in {FreeAsset(buyIt), FreeAsset(sellIt)}
        BY DEF Deal
      <3> QED BY <3>1, <3>2
    <2>4. 5 * Deal.asset <= MaxInt64
      BY <2>3, MaxInt64Assumption
    <2>5. FeeRatio(orders[buyIt.id]) \in 0 .. FeeRatioMax
      BY <2>1 DEF FeeRatio, QueuedType
    <2>6. Fits(Deal.asset, FeeRatio(orders[buyIt.id]), RatioPrecision)
      BY <2>3, <2>4, <2>5, FeeFits
    <2>7. /\ buyIt.matched_coin + Deal.coin <= orders[buyIt.id].frozen
          /\ orders[buyIt.id].total <= MaxAmount
          /\ sellIt.matched_coin + Deal.coin <= MaxAmount
      <3>1. Deal.coin \in Int
        <4> DEFINE a == Deal.asset
                   p == orders[MakerId].price
                   u == Unit[sympair[txn.pair].asset]
        <4>1. a \in Int /\ p \in Int /\ u \in Nat \ {0}
          BY <2>1, <2>3, TokensAssumption, MaxInt64Assumption
             DEF MakerId, QueuedType, PairType
        <4>2. Deal.coin = CalcCoin(a, p, u)
          BY DEF Deal
        <4> HIDE DEF a, p, u
        <4>3. CalcCoin(a, p, u) \in Int
          BY <4>1, CoinIsInteger
        <4> QED BY <4>2, <4>3
      <3>2. /\ buyIt.matched_coin \in Int /\ orders[buyIt.id].frozen \in Int
            /\ sellIt.matched_coin \in Int /\ orders[buyIt.id].total \in Int
            /\ MaxAmount \in Int
        BY <2>1, MaxInt64Assumption DEF ItType, QueuedType, MaxAmount
      <3> QED BY <3>1, <3>2
    <2> QED BY <1>1, <2>6, <2>7, RoundCanPass DEF FitSetting
  <1> QED BY <1>1, TypeInvInvariant, LimitInvInvariant, ListingInvInvariant,
             SolventInvInvariant, PTL

-----------------------------------------------------------------------------
(***************************************************************************)
(* Whole prices.  If every price is a whole number of coins for the        *)
(* smallest unit of asset, a buy order has frozen exactly what its total   *)
(* costs at its price, and its fills have used at most what they cost at   *)
(* it.  If the amounts are small as well, the fills of a sell order have   *)
(* brought an amount, and no reward overflows.  So no round fails.         *)
(***************************************************************************)
WholeRow(o) ==
    /\ \A t \in Tokens : o.price % Unit[t] = 0
    /\ \E r \in Requests : r.price = o.price /\ r.total = o.total

ExactAt(o, f, unit) ==
    IF o.side = BUY
    THEN /\ o.frozen = CalcCoin(o.total, o.price, unit)
         /\ unit * f.matched_coin <= f.matched_asset * o.price
    ELSE \E s \in Requests : unit * f.matched_coin <= f.matched_asset * s.price

Exact(o, f) ==
    o.pair \in DOMAIN sympair => ExactAt(o, f, Unit[sympair[o.pair].asset])

RowsWhole(q, os) ==
    /\ \A u \in DOMAIN q : WholeRow(q[u]) /\ Exact(q[u], q[u])
    /\ \A i \in DOMAIN os : WholeRow(os[i]) /\ Exact(os[i], os[i])

WholeInv ==
    /\ \A u \in DOMAIN queue : WholeRow(queue[u]) /\ Exact(queue[u], queue[u])
    /\ \A i \in DOMAIN orders : WholeRow(orders[i]) /\ Exact(orders[i], Fill(i))
    /\ phase = "matching" => RowsWhole(undo.queue, undo.orders)

LEMMA IdleRowsWhole ==
    ASSUME Idle, WholeInv
    PROVE  RowsWhole(queue, orders)
  BY DEF WholeInv, RowsWhole, Fill, Idle

(* After the step. *)
ExactNext(o, f) ==
    o.pair \in DOMAIN sympair' => ExactAt(o, f, Unit[sympair'[o.pair].asset])

WholeNext(o, f) == WholeRow(o) /\ ExactNext(o, f)

LEMMA WholeStays ==
    ASSUME TypeInv, [Next]_vars, NEW o, NEW f, NEW n, NEW g,
           FitsListing(o), WholeRow(o), Exact(o, f),
           n.pair = o.pair, n.side = o.side, n.price = o.price, n.total = o.total,
           n.frozen = o.frozen,
           g.matched_coin = f.matched_coin, g.matched_asset = f.matched_asset
    PROVE  WholeNext(n, g)
  <1>1. /\ sympairId \in Nat
        /\ \A p \in DOMAIN sympair' :
             \/ p > sympairId
             \/ p \in DOMAIN sympair /\ sympair'[p].asset = sympair[p].asset
    BY ListingStep, BoundsAssumption DEF TypeInv, TypeOK
  <1>2. WholeRow(n)
    BY DEF WholeRow
  <1>3. ASSUME n.pair \in DOMAIN sympair'
        PROVE  o.pair \in DOMAIN sympair /\ sympair'[o.pair].asset = sympair[o.pair].asset
    BY <1>1, <1>3 DEF FitsListing
  <1>4. ExactNext(n, g)
    BY <1>3 DEF Exact, ExactNext, ExactAt
  <1> QED BY <1>2, <1>4 DEF WholeNext

(* The configuration is one of those that may be set, or the first one.    *)
KnownConfig == config \in Configs \cup {StartConfig}

LEMMA ConfigIsKnown == Spec => []KnownConfig
  <1>1. Init => KnownConfig
    BY DEF Init, KnownConfig
  <1>2. KnownConfig /\ [Next]_vars => KnownConfig'
    <2> SUFFICES ASSUME KnownConfig, [Next]_vars PROVE KnownConfig'
      OBVIOUS
    <2>1. ASSUME UNCHANGED config PROVE KnownConfig'
      BY <2>1 DEF KnownConfig
    <2>2. CASE Administer
      BY <2>1, <2>2 DEF Administer, InitDex, SetConfig, SetSymPair, OnOffSymPair, DelSymPair,
                        KnownConfig
    <2>3. CASE Place
      <3>1. ASSUME NEW r, NEW signers, CreateOrder(r, signers) PROVE KnownConfig'
        BY <2>1, <3>1 DEF CreateOrder, admin
      <3>2. ASSUME NEW u, DelQueueOrd(u) PROVE KnownConfig'
        BY <2>1, <3>2 DEF DelQueueOrd, admin
      <3>3. ASSUME NEW u, NEW t, NEW q, OnTransfer(u, t, q) PROVE KnownConfig'
        BY <2>1, <3>3 DEF OnTransfer, admin
      <3> QED BY <2>3, <3>1, <3>2, <3>3 DEF Place, NewOrder, Buy, Sell
    <2>4. CASE MatchAny \/ Leave
      BY <2>1, <2>4 DEF MatchAny, Match, Leave, Cancel, Withdraw, admin
    <2>5. CASE Round \/ Finish \/ Abort
      BY <2>1, <2>5 DEF Round, Finish, Abort, admin
    <2>6. CASE UNCHANGED vars
      BY <2>1, <2>6 DEF vars, admin
    <2> QED BY <2>2, <2>3, <2>4, <2>5, <2>6 DEF Next
  <1> QED BY <1>1, <1>2, PTL DEF Spec

LEMMA IdleWholeInv ==
    ASSUME phase' = "idle",
           \A u \in DOMAIN queue' : WholeNext(queue'[u], queue'[u]),
           \A i \in DOMAIN orders' : WholeNext(orders'[i], orders'[i])
    PROVE  WholeInv'
  <1>1. \A i : Fill(i)' = orders'[i]
    BY DEF Fill
  <1> QED BY <1>1 DEF WholeInv, WholeNext, Exact, ExactNext

LEMMA LoopWholeInv ==
    ASSUME \A u \in DOMAIN queue' : WholeNext(queue'[u], queue'[u]),
           \A i \in DOMAIN orders' : WholeNext(orders'[i], Fill(i)'),
           \A u \in DOMAIN undo'.queue : WholeNext(undo'.queue[u], undo'.queue[u]),
           \A i \in DOMAIN undo'.orders : WholeNext(undo'.orders[i], undo'.orders[i])
    PROVE  WholeInv'
  BY DEF WholeInv, RowsWhole, WholeNext, Exact, ExactNext

LEMMA BeginWholeInv ==
    ASSUME TypeInv', NEW action, NEW pair, NEW limit,
           BeginMatching(action, pair, limit, orders'),
           \A u \in DOMAIN queue : WholeNext(queue[u], queue[u]),
           \A i \in DOMAIN orders : WholeNext(orders[i], orders[i]),
           \A u \in DOMAIN queue' : WholeNext(queue'[u], queue'[u]),
           \A i \in DOMAIN orders' : WholeNext(orders'[i], orders'[i])
    PROVE  WholeInv'
  <1>1. \A i \in DOMAIN orders' : SameFill(Fill(i)', orders'[i])
    BY BeginFills
  <1>2. undo'.queue = queue /\ undo'.orders = orders
    BY DEF BeginMatching
  <1>3. \A i \in DOMAIN orders' : WholeNext(orders'[i], Fill(i)')
    BY <1>1 DEF WholeNext, ExactNext, ExactAt, SameFill
  <1> QED BY <1>2, <1>3, LoopWholeInv

LEMMA CreateOrderWhole ==
    ASSUME WholePrices, NEW r \in Requests, NEW signers, CreateOrder(r, signers),
           TypeInv, \A u \in DOMAIN queue : WholeNext(queue[u], queue[u])
    PROVE  \A u \in DOMAIN queue' : WholeNext(queue'[u], queue'[u])
  <1>1. PICK row : /\ queue' = Put(queue, r.user, row)
                   /\ row.pair = r.pair /\ row.side = r.side /\ row.price = r.price
                   /\ row.total = r.total /\ row.frozen = Frozen(r)
                   /\ row.matched_asset = 0 /\ row.matched_coin = 0
    BY DEF CreateOrder
  <1>2. sympair' = sympair
    BY DEF CreateOrder, admin
  <1>3. WholeRow(row)
    BY <1>1 DEF WholeRow, WholePrices
  <1>4. ExactNext(row, row)
    <2> DEFINE unit == Unit[sympair[row.pair].asset]
    <2> SUFFICES ASSUME row.pair \in DOMAIN sympair
                 PROVE  ExactAt(row, row, unit)
      BY <1>2 DEF ExactNext
    <2>1. unit \in Nat
      BY TokensAssumption DEF TypeInv, TypeOK, IsTable, PairType
    <2>2. r.price \in Int
      BY InputsAssumption DEF RequestType
    <2>3. unit * row.matched_coin <= row.matched_asset * r.price
      <3> HIDE DEF unit
      <3>1. unit * 0 = 0 /\ 0 * r.price = 0
        BY <2>1, <2>2
      <3> QED BY <1>1, <3>1
    <2>4. row.side = BUY => row.frozen = CalcCoin(row.total, row.price, unit)
      BY <1>1 DEF Frozen
    <2> HIDE DEF unit
    <2> QED BY <1>1, <2>3, <2>4 DEF ExactAt
  <1> QED BY <1>1, <1>3, <1>4 DEF Put, WholeNext

(* A round costs the buy order at most what its price says. *)
LEMMA RoundExact ==
    ASSUME TypeInv, WholeInv, LimitInv, phase = "matching", InLoop
    PROVE  LET buy  == orders[buyIt.id]
               unit == Unit[sympair[txn.pair].asset]
           IN  /\ Deal.coin \in Nat /\ Deal.asset \in Nat \ {0}
               /\ Deal.asset <= FreeAsset(buyIt)
               /\ unit * Deal.coin = Deal.asset * Deal.price
               /\ unit * (buyIt.matched_coin + Deal.coin)
                    <= (buyIt.matched_asset + Deal.asset) * buy.price
               /\ Deal.price \in Nat \ {0} /\ unit \in Nat \ {0}
  <1> DEFINE buy   == orders[buyIt.id]
             freeB == FreeAsset(buyIt)
             freeS == FreeAsset(sellIt)
             price == orders[MakerId].price
             asset == IF freeB < freeS THEN freeB ELSE freeS
             unit  == Unit[sympair[txn.pair].asset]
             coin  == CalcCoin(asset, price, unit)
  <1>1. Deal.price = price /\ Deal.asset = asset /\ Deal.coin = coin
    BY DEF Deal
  <1>2. /\ buyIt \in ItType /\ sellIt \in ItType
        /\ buyIt.id \in DOMAIN orders /\ buy.pair = txn.pair /\ buy.side = BUY
        /\ sellIt.id \in DOMAIN orders
        /\ buy \in QueuedType /\ orders[sellIt.id] \in QueuedType
        /\ txn.pair \in DOMAIN sympair /\ sympair[txn.pair] \in PairType
    BY RoundOrders DEF Book
  <1>3. unit \in Nat \ {0} /\ sympair[txn.pair].asset \in Tokens
    BY <1>2, TokensAssumption DEF PairType
  <1>4. MakerId \in {buyIt.id, sellIt.id} /\ MakerId \in DOMAIN orders
    BY <1>2 DEF MakerId
  <1>5. /\ price \in Nat \ {0} /\ buy.price \in Nat /\ price <= buy.price
    <2>1. orders[MakerId] \in QueuedType
      BY <1>2, <1>4
    <2>2. price \in Nat \ {0} /\ buy.price \in Nat /\ orders[sellIt.id].price \in Nat
      BY <1>2, <2>1, MaxInt64Assumption DEF QueuedType
    <2>3. orders[buyIt.id].price >= orders[sellIt.id].price
      BY DEF InLoop, CanMatch
    <2> QED BY <1>4, <2>2, <2>3
  <1>6. price % unit = 0
    BY <1>3, <1>4 DEF WholeInv, WholeRow
  <1>7. /\ freeB \in Nat \ {0} /\ freeS \in Nat \ {0}
        /\ buyIt.matched_asset \in Nat /\ buyIt.matched_coin \in Nat
    <2>1. Within(buy, buyIt) /\ Within(orders[sellIt.id], sellIt)
      BY DEF LimitInv, InLoop, CanMatch
    <2> QED BY <1>2, <2>1 DEF FreeAsset, Within, QueuedType, ItType
  <1>8. unit * buyIt.matched_coin <= buyIt.matched_asset * buy.price
    <2>1. Exact(buy, buyIt)
      BY <1>2 DEF WholeInv, Fill
    <2> QED BY <1>2, <2>1 DEF Exact, ExactAt
  <1> HIDE DEF buy, freeB, freeS, price, unit
  <1>9. asset \in Nat \ {0} /\ asset <= freeB
    BY <1>7
  <1> HIDE DEF asset
  <1>10. coin \in Nat /\ unit * coin = asset * price
    <2> DEFINE w == price \div unit
    <2>1. asset \in Nat /\ price \in Nat
      BY <1>5, <1>9
    <2>2. w \in Nat /\ price = unit * w /\ coin = asset * w
      BY <1>3, <1>6, <2>1, CoinIsExact, ZenonT(40)
    <2> HIDE DEF w, coin
    <2> QED BY <1>3, <1>9, <2>2
  <1> HIDE DEF coin
  <1>11. unit * (buyIt.matched_coin + coin) <= (buyIt.matched_asset + asset) * buy.price
    <2>1. asset * price \in Nat /\ unit \in Nat /\ buy.price <= buy.price
      BY <1>3, <1>5, <1>9
    <2> QED BY <1>5, <1>7, <1>8, <1>9, <1>10, <2>1, CostsAdd
  <1>12. FreeAsset(buyIt) = freeB
    BY DEF freeB
  <1> QED BY <1>1, <1>3, <1>5, <1>9, <1>10, <1>11, <1>12 DEF buy, unit, price

(* The fills of the sell order have brought at most what they cost at the  *)
(* highest of the prices that there are.                                   *)
LEMMA RoundSold ==
    ASSUME TypeInv, WholeInv, LimitInv, phase = "matching", InLoop
    PROVE  /\ \E r \in Requests : r.price = Deal.price
           /\ \E s \in Requests :
                 Unit[sympair[txn.pair].asset] * (sellIt.matched_coin + Deal.coin)
                    <= (sellIt.matched_asset + Deal.asset) * s.price
  <1> DEFINE unit == Unit[sympair[txn.pair].asset]
             sell == orders[sellIt.id]
             mc   == sellIt.matched_coin
             ma   == sellIt.matched_asset
             cost(s) == unit * (mc + Deal.coin) <= (ma + Deal.asset) * s.price
  <1>1. /\ buyIt \in ItType /\ sellIt \in ItType
        /\ buyIt.id \in DOMAIN orders /\ sellIt.id \in DOMAIN orders
        /\ sell.pair = txn.pair /\ sell.side = SELL /\ txn.pair \in DOMAIN sympair
        /\ sellIt.id # buyIt.id
    BY RoundOrders DEF Book
  <1>2. /\ Deal.coin \in Nat /\ Deal.asset \in Nat /\ unit \in Nat
        /\ unit * Deal.coin = Deal.asset * Deal.price
        /\ Deal.price \in Nat
    BY RoundExact
  <1>3. mc \in Nat /\ ma \in Nat
    BY <1>1 DEF ItType
  <1>4. PICK r \in Requests : r.price = Deal.price
    <2>1. MakerId \in DOMAIN orders /\ Deal.price = orders[MakerId].price
      BY <1>1 DEF MakerId, Deal
    <2> QED BY <2>1 DEF WholeInv, WholeRow
  <1>5. PICK s \in Requests : unit * mc <= ma * s.price
    <2>1. Exact(sell, sellIt)
      BY <1>1 DEF WholeInv, Fill
    <2> QED BY <1>1, <2>1 DEF Exact, ExactAt, BUY, SELL
  <1>6. s.price \in Int
    BY InputsAssumption DEF RequestType
  <1> HIDE DEF unit, mc, ma, sell
  <1>7. CASE s.price <= r.price
    <2>1. unit * mc <= ma * r.price
      <3>1. ma * s.price <= ma * r.price /\ ma * s.price \in Int /\ ma * r.price \in Int
        BY <1>2, <1>3, <1>4, <1>6, <1>7
      <3> QED BY <1>2, <1>3, <1>5, <3>1
    <2>2. /\ r.price \in Nat /\ r.price <= r.price
          /\ unit * Deal.coin <= Deal.asset * r.price
      BY <1>2, <1>4
    <2>3. cost(r)
      BY <1>2, <1>3, <2>1, <2>2, CostsAdd
    <2> QED BY <1>4, <2>3 DEF unit, mc, ma
  <1>8. CASE s.price > r.price
    <2>1. /\ s.price \in Nat /\ Deal.price <= s.price /\ s.price <= s.price
          /\ unit * Deal.coin <= Deal.asset * Deal.price
      BY <1>2, <1>4, <1>6, <1>8
    <2>2. cost(s)
      BY <1>2, <1>3, <1>5, <2>1, CostsAdd
    <2> QED BY <1>4, <2>2 DEF unit, mc, ma
  <1> QED BY <1>2, <1>4, <1>6, <1>7, <1>8

LEMMA RoundWholeInv ==
    ASSUME TypeInv, LimitInv, ListingInv, WholeInv, phase = "matching", Round, [Next]_vars
    PROVE  WholeInv'
  <1>1. /\ InLoop /\ RoundPasses(Deal) /\ queue' = queue /\ undo' = undo /\ sympair' = sympair
    BY DEF Round, admin
  <1>2. /\ buyIt \in ItType /\ sellIt \in ItType /\ buyIt.id # sellIt.id
        /\ buyIt.id \in DOMAIN orders /\ orders[buyIt.id].pair = txn.pair
        /\ orders[buyIt.id].side = BUY
        /\ sellIt.id \in DOMAIN orders /\ orders[sellIt.id].pair = txn.pair
        /\ orders[sellIt.id].side = SELL
    BY <1>1, RoundOrders DEF Book
  <1>3. /\ Deal \in DealType /\ Deal.buy_fee \in Nat /\ Deal.sell_fee \in Nat
    BY <1>1, RoundAmounts DEF DealType
  <1>4. deals \in Seq(DealType)
    BY DEF TypeInv, TypeOK
  <1>5. LET new == Filled(buyIt, Deal, Deal.buy_fee)
        IN  /\ new.matched_asset = buyIt.matched_asset + Deal.asset
            /\ new.matched_coin = buyIt.matched_coin + Deal.coin
    BY <1>2, <1>3, <1>4, FilledType
  <1>8. LET new == Filled(sellIt, Deal, Deal.sell_fee)
        IN  /\ new.matched_asset = sellIt.matched_asset + Deal.asset
            /\ new.matched_coin = sellIt.matched_coin + Deal.coin
    BY <1>2, <1>3, <1>4, FilledType
  <1>6. /\ \A u \in DOMAIN queue : WholeNext(queue[u], queue[u])
        /\ \A u \in DOMAIN undo.queue : WholeNext(undo.queue[u], undo.queue[u])
        /\ \A i \in DOMAIN undo.orders : WholeNext(undo.orders[i], undo.orders[i])
    BY <1>1 DEF WholeInv, RowsWhole, WholeNext, Exact, ExactNext
  <1>7. ASSUME NEW i \in DOMAIN orders' PROVE WholeNext(orders'[i], Fill(i)')
    <2>1. /\ i \in DOMAIN orders /\ orders'[i] = orders[i]
          /\ i = buyIt.id => Fill(i)' = Filled(buyIt, Deal, Deal.buy_fee)
          /\ i = sellIt.id => Fill(i)' = Filled(sellIt, Deal, Deal.sell_fee)
          /\ i \notin {buyIt.id, sellIt.id} => SameFill(Fill(i)', orders[i])
      BY RoundFill
    <2>2. WholeRow(orders[i]) /\ Exact(orders[i], Fill(i))
      BY <2>1 DEF WholeInv
    <2>3. CASE i = buyIt.id
      <3>1. /\ Fill(i)'.matched_asset = buyIt.matched_asset + Deal.asset
            /\ Fill(i)'.matched_coin = buyIt.matched_coin + Deal.coin
        BY <1>5, <2>1, <2>3
      <3>2. Unit[sympair[txn.pair].asset] * (buyIt.matched_coin + Deal.coin)
                <= (buyIt.matched_asset + Deal.asset) * orders[i].price
        BY <1>1, <2>3, RoundExact
      <3>3. ExactNext(orders[i], Fill(i)')
        BY <1>1, <1>2, <2>2, <2>3, <3>1, <3>2 DEF Exact, ExactNext, ExactAt
      <3> QED BY <2>1, <2>2, <3>3 DEF WholeNext
    <2>4. CASE i = sellIt.id
      <3>1. /\ Fill(i)'.matched_asset = sellIt.matched_asset + Deal.asset
            /\ Fill(i)'.matched_coin = sellIt.matched_coin + Deal.coin
        BY <1>8, <2>1, <2>4
      <3>2. ExactNext(orders[i], Fill(i)')
        <4>1. orders[i].side # BUY /\ orders[i].pair = txn.pair
          BY <1>2, <2>4 DEF BUY, SELL
        <4>2. \E s \in Requests :
                 Unit[sympair[txn.pair].asset] * (sellIt.matched_coin + Deal.coin)
                    <= (sellIt.matched_asset + Deal.asset) * s.price
          BY <1>1, RoundSold
        <4> QED BY <1>1, <3>1, <4>1, <4>2 DEF ExactNext, ExactAt
      <3> QED BY <2>1, <2>2, <3>2 DEF WholeNext
    <2>5. CASE i \notin {buyIt.id, sellIt.id}
      <3>1. Fill(i) = orders[i]
        BY <2>5 DEF Fill
      <3>2. ExactNext(orders[i], Fill(i)')
        BY <1>1, <2>1, <2>2, <2>5, <3>1 DEF Exact, ExactNext, ExactAt, SameFill
      <3> QED BY <2>1, <2>2, <3>2 DEF WholeNext
    <2> QED BY <2>3, <2>4, <2>5
  <1> QED BY <1>1, <1>6, <1>7, LoopWholeInv

LEMMA NextWholeInv ==
    ASSUME WholePrices, TypeInv, TypeInv', LimitInv, ListingInv, WholeInv, [Next]_vars
    PROVE  WholeInv'
  <1>1. /\ \A u \in DOMAIN queue : WholeNext(queue[u], queue[u])
        /\ \A i \in DOMAIN orders : WholeNext(orders[i], Fill(i))
    BY WholeStays DEF WholeInv, ListingInv, RowsFit
  <1>2. phase = "matching" =>
          /\ \A u \in DOMAIN undo.queue : WholeNext(undo.queue[u], undo.queue[u])
          /\ \A i \in DOMAIN undo.orders : WholeNext(undo.orders[i], undo.orders[i])
    BY WholeStays DEF WholeInv, RowsWhole, ListingInv, RowsFit
  <1>3. Idle => \A i \in DOMAIN orders : WholeNext(orders[i], orders[i])
    BY <1>1 DEF Idle, Fill
  <1>4. ASSUME Idle, UNCHANGED <<queue, orders, loop>> PROVE WholeInv'
    BY <1>1, <1>3, <1>4, IdleWholeInv DEF Idle, loop
  <1>5. CASE Administer
    BY <1>4, <1>5 DEF Administer, InitDex, SetConfig, SetSymPair, OnOffSymPair,
                      DelSymPair, books
  <1>6. CASE Place
    <2>1. ASSUME NEW u \in Users, DelQueueOrd(u) PROVE WholeInv'
      <3>1. Idle /\ phase' = "idle" /\ orders' = orders /\ queue' = Delete(queue, u)
        BY <2>1 DEF DelQueueOrd, Idle, loop
      <3>2. \A v \in DOMAIN queue' : WholeNext(queue'[v], queue'[v])
        BY <1>1, <3>1 DEF Delete
      <3> QED BY <1>3, <3>1, <3>2, IdleWholeInv
    <2>2. ASSUME NEW r \in Requests, NEW signers, CreateOrder(r, signers) PROVE WholeInv'
      <3>1. Idle /\ phase' = "idle" /\ orders' = orders
        BY <2>2 DEF CreateOrder, Idle, loop
      <3>2. \A v \in DOMAIN queue' : WholeNext(queue'[v], queue'[v])
        BY <1>1, <2>2, CreateOrderWhole
      <3> QED BY <1>3, <3>1, <3>2, IdleWholeInv
    <2>3. ASSUME NEW u \in Users, NEW t \in Tokens, NEW q \in 1 .. wallet[u][t],
                 OnTransfer(u, t, q)
          PROVE  WholeInv'
      <3>1. /\ Idle /\ u \in DOMAIN queue /\ queue' = Delete(queue, u)
            /\ orders' = Put(orders, NewId(orderId), queue[u])
            /\ BeginMatching("ontransfer", queue[u].pair, config.max_match_count, orders')
        BY <2>3 DEF OnTransfer
      <3>2. \A v \in DOMAIN queue' : WholeNext(queue'[v], queue'[v])
        BY <1>1, <3>1 DEF Delete
      <3>3. \A i \in DOMAIN orders' : WholeNext(orders'[i], orders'[i])
        BY <1>1, <1>3, <3>1 DEF Put
      <3> QED BY <1>1, <1>3, <3>1, <3>2, <3>3, BeginWholeInv
    <2> QED BY <1>6, <2>1, <2>2, <2>3 DEF Place, NewOrder, Buy, Sell
  <1>7. CASE MatchAny
    <2>1. PICK p \in DOMAIN sympair, n \in MatchCounts : Match(p, n)
      BY <1>7 DEF MatchAny
    <2>2. /\ Idle /\ queue' = queue /\ orders' = orders
          /\ BeginMatching("match", p, n, orders')
      BY <2>1 DEF Match, books
    <2> QED BY <1>1, <1>3, <2>2, BeginWholeInv
  <1>8. CASE Leave
    <2>1. ASSUME NEW i \in DOMAIN orders, NEW u \in Users,
                 Cancel(u, orders[i].pair, orders[i].side, i)
          PROVE  WholeInv'
      <3>1. Idle /\ phase' = "idle" /\ queue' = queue /\ orders' = Delete(orders, i)
        BY <2>1 DEF Cancel, Idle, loop
      <3>2. \A j \in DOMAIN orders' : WholeNext(orders'[j], orders'[j])
        BY <1>3, <3>1 DEF Delete
      <3> QED BY <1>1, <3>1, <3>2, IdleWholeInv
    <2>2. ASSUME NEW a \in Accounts, NEW t \in Tokens, NEW q \in 1 .. rewards[a][t],
                 Withdraw(a, t, q)
          PROVE  WholeInv'
      BY <1>4, <2>2 DEF Withdraw, books
    <2> QED BY <1>8, <2>1, <2>2 DEF Leave
  <1>9. CASE Round
    BY <1>9, RoundWholeInv DEF Round
  <1>10. CASE Finish
    <2>1. phase = "matching" /\ phase' = "idle" /\ queue' = queue
      BY <1>10 DEF Finish, EndTransaction
    <2>2. /\ DOMAIN orders' = DOMAIN orders
          /\ \A i \in DOMAIN orders :
               /\ orders'[i].pair = orders[i].pair /\ orders'[i].side = orders[i].side
               /\ orders'[i].price = orders[i].price /\ orders'[i].total = orders[i].total
               /\ orders'[i].frozen = orders[i].frozen
               /\ orders'[i].matched_asset = Fill(i).matched_asset
               /\ orders'[i].matched_coin = Fill(i).matched_coin
      BY <1>10, <2>1, FinishOrders
    <2>3. \A i \in DOMAIN orders' : WholeNext(orders'[i], orders'[i])
      BY <2>2, WholeStays DEF WholeInv, ListingInv, RowsFit
    <2> QED BY <1>1, <2>1, <2>3, IdleWholeInv
  <1>11. CASE Abort
    <2>1. /\ phase = "matching" /\ phase' = "idle"
          /\ queue' = undo.queue /\ orders' = undo.orders
      BY <1>11 DEF Abort, EndTransaction
    <2> QED BY <1>2, <2>1, IdleWholeInv
  <1>12. CASE UNCHANGED vars
    <2>1. UNCHANGED <<queue, orders, undo, phase, buyIt, sellIt, sympair>>
      BY <1>12 DEF vars, admin, books, money, loop
    <2>2. \A i : Fill(i)' = Fill(i)
      BY <2>1 DEF Fill
    <2>3. ASSUME NEW o, NEW f PROVE Exact(o, f)' <=> Exact(o, f)
      BY <2>1 DEF Exact
    <2>4. RowsWhole(undo.queue, undo.orders)' <=> RowsWhole(undo.queue, undo.orders)
      BY <2>1, <2>3 DEF RowsWhole
    <2> QED BY <2>1, <2>2, <2>3, <2>4 DEF WholeInv
  <1> QED BY <1>5, <1>6, <1>7, <1>8, <1>9, <1>10, <1>11, <1>12 DEF Next

(* What small amounts say of one product of them. *)
LEMMA SmallCost ==
    ASSUME SmallAmounts, NEW r \in Requests, NEW s \in Requests, NEW t \in Tokens,
           NEW c \in Configs \cup {StartConfig},
           NEW k \in {1, c.parent_reward, c.grand_reward}
    PROVE  r.total * s.price * k <= MaxAmount * Unit[t]
  BY DEF SmallAmounts

(* What a round adds up to, and takes as a fee and shares, are amounts. *)
LEMMA RoundIsSmall ==
    ASSUME SmallAmounts, KnownConfig, TypeInv, WholeInv, LimitInv,
           phase = "matching", InLoop
    PROVE  /\ orders[buyIt.id].total <= MaxAmount
           /\ sellIt.matched_coin + Deal.coin <= MaxAmount
           /\ AllotPasses(orders[buyIt.id].owner, Deal.buy_fee)
           /\ AllotPasses(orders[sellIt.id].owner, Deal.sell_fee)
  <1> DEFINE buy   == orders[buyIt.id]
             sell  == orders[sellIt.id]
             token == sympair[txn.pair].asset
             unit  == Unit[token]
             asset == Deal.asset
             coin  == Deal.coin
             got   == sellIt.matched_coin
             sold  == sellIt.matched_asset
             bfee  == Deal.buy_fee
             sfee  == Deal.sell_fee
  <1>1. /\ coin \in Nat /\ asset \in Nat \ {0} /\ asset <= FreeAsset(buyIt)
        /\ unit * coin = asset * Deal.price
        /\ Deal.price \in Nat \ {0} /\ unit \in Nat \ {0}
    BY RoundExact
  <1>2. /\ buyIt \in ItType /\ sellIt \in ItType
        /\ buy \in QueuedType /\ sell \in QueuedType
        /\ buyIt.id \in DOMAIN orders /\ sellIt.id \in DOMAIN orders
        /\ token \in Tokens
    BY RoundOrders DEF Book, PairType
  <1>3. /\ buy.total \in Int /\ sell.total \in Int /\ buy.price \in Nat \ {0}
        /\ got \in Nat /\ sold \in Nat /\ buyIt.matched_asset \in Nat
        /\ FeeRatio(buy) \in 0 .. FeeRatioMax /\ FeeRatio(sell) \in 0 .. FeeRatioMax
    BY <1>2, MaxInt64Assumption DEF QueuedType, ItType, FeeRatio
  <1>4. /\ bfee = MatchFee(FeeRatio(buy), asset) /\ sfee = MatchFee(FeeRatio(sell), coin)
        /\ asset \in {FreeAsset(buyIt), FreeAsset(sellIt)}
        /\ ~(FreeAsset(buyIt) < FreeAsset(sellIt)) => asset = FreeAsset(sellIt)
        /\ FreeAsset(buyIt) < FreeAsset(sellIt) => asset = FreeAsset(buyIt)
    BY DEF Deal
  <1>5. /\ FreeAsset(buyIt) = buy.total - buyIt.matched_asset
        /\ FreeAsset(sellIt) = sell.total - sold
    BY DEF FreeAsset
  <1>6. /\ WholeRow(buy) /\ WholeRow(sell)
    BY <1>2 DEF WholeInv
  <1>7. PICK r \in Requests : r.price = buy.price /\ r.total = buy.total
    BY <1>6 DEF WholeRow
  <1>8. PICK v \in Requests : v.total = sell.total
    BY <1>6 DEF WholeRow
  <1>9. /\ \E s \in Requests : s.price = Deal.price
        /\ \E s \in Requests : unit * (got + coin) <= (sold + asset) * s.price
    BY RoundSold
  <1>10. PICK q \in Requests : q.price = Deal.price
    BY <1>9
  <1>11. PICK s \in Requests : unit * (got + coin) <= (sold + asset) * s.price
    BY <1>9
  <1>12. buy.price % unit = 0
    BY <1>2, <1>6 DEF WholeRow
  <1>13. /\ config \in Configs \cup {StartConfig}
         /\ config.parent_reward \in Nat /\ config.grand_reward \in Nat
         /\ s.price \in Int
    BY InputsAssumption DEF KnownConfig, TypeInv, TypeOK, ConfigType, RequestType
  <1>14. \A k \in {1, config.parent_reward, config.grand_reward} :
            /\ buy.total * buy.price * k <= MaxAmount * unit
            /\ buy.total * Deal.price * k <= MaxAmount * unit
            /\ sell.total * s.price * k <= MaxAmount * unit
    BY <1>2, <1>7, <1>8, <1>10, <1>13, SmallCost
  <1>15. MaxAmount \in Nat
    BY MaxInt64Assumption DEF MaxAmount
  <1>16. bfee \in Nat /\ bfee <= asset
    BY <1>1, <1>3, <1>4, FeeBelowQuant
  <1>17. sfee \in Nat /\ sfee <= coin
    <2>1. CASE coin = 0
      BY <1>4, <2>1 DEF MatchFee
    <2>2. CASE coin # 0
      BY <1>1, <1>3, <1>4, <2>2, FeeBelowQuant
    <2> QED BY <2>1, <2>2
  <1> HIDE DEF buy, sell, unit, asset, coin, got, sold, bfee, sfee
  <1>18. asset <= buy.total /\ sold + asset <= sell.total /\ buy.total \in Nat
         /\ sell.total \in Nat
    BY <1>1, <1>3, <1>4, <1>5
  <1>19. unit <= buy.price
    <2> DEFINE w == buy.price \div unit
    <2>1. w \in Nat /\ buy.price = unit * w
      BY <1>1, <1>3, <1>12, ExactQuotient
    <2> HIDE DEF w
    <2>2. w # 0
      BY <1>1, <1>3, <2>1
    <2>3. unit * w >= unit * 1
      BY <1>1, <2>1, <2>2
    <2> QED BY <1>1, <2>1, <2>3
  <1>20. \A x \in Nat : unit * x <= x * buy.price
    <2> TAKE x \in Nat
    <2>1. x * unit <= x * buy.price
      BY <1>1, <1>3, <1>19
    <2> QED BY <1>1, <1>3, <2>1
  <1>21. buy.total <= MaxAmount
    <2>1. 1 \in Nat /\ unit * buy.total <= buy.total * buy.price
          /\ buy.total <= buy.total /\ buy.total * buy.price * 1 <= MaxAmount * unit
      BY <1>14, <1>18, <1>20
    <2>2. buy.total * 1 <= MaxAmount
      BY <1>1, <1>3, <1>18, <2>1, SmallProduct
    <2> QED BY <1>18, <2>2
  <1>22. got + coin <= MaxAmount
    <2>1. CASE s.price \in Nat
      <3>1. /\ got + coin \in Nat /\ sold + asset \in Nat /\ 1 \in Nat
            /\ sell.total * s.price * 1 <= MaxAmount * unit
        BY <1>1, <1>3, <1>14
      <3>2. (got + coin) * 1 <= MaxAmount
        BY <1>1, <1>11, <1>18, <2>1, <3>1, SmallProduct
      <3> QED BY <3>1, <3>2
    <2>2. CASE s.price \notin Nat
      <3>1. s.price < 0
        BY <1>13, <2>2
      <3>2. (sold + asset) * s.price <= 0
        BY <1>1, <1>3, <1>13, <3>1
      <3>3. (sold + asset) * s.price \in Int /\ unit * (got + coin) \in Int
        BY <1>1, <1>3, <1>13
      <3>4. unit * (got + coin) <= 0
        BY <1>11, <3>2, <3>3
      <3>5. got + coin <= 0
        BY <1>1, <1>3, <3>4
      <3> QED BY <1>1, <1>3, <1>15, <3>5
    <2> QED BY <2>1, <2>2
  <1>23. \A k \in {config.parent_reward, config.grand_reward} :
            asset * k <= MaxAmount /\ coin * k <= MaxAmount
    <2> TAKE k \in {config.parent_reward, config.grand_reward}
    <2>1. /\ k \in Nat /\ asset \in Nat /\ coin \in Nat /\ buy.price \in Nat
          /\ Deal.price \in Nat
          /\ buy.total * buy.price * k <= MaxAmount * unit
          /\ buy.total * Deal.price * k <= MaxAmount * unit
          /\ unit * asset <= asset * buy.price /\ unit * coin <= asset * Deal.price
      BY <1>1, <1>3, <1>13, <1>14, <1>20
    <2>2. asset * k <= MaxAmount
      BY <1>1, <1>18, <2>1, SmallProduct
    <2>3. coin * k <= MaxAmount
      BY <1>1, <1>18, <2>1, SmallProduct
    <2> QED BY <2>2, <2>3
  <1>24. \A k \in {config.parent_reward, config.grand_reward} :
            RewardFits(bfee, k) /\ RewardFits(sfee, k)
    <2> TAKE k \in {config.parent_reward, config.grand_reward}
    <2>1. k \in Nat /\ asset * k <= MaxAmount /\ coin * k <= MaxAmount
      BY <1>13, <1>23
    <2>2. bfee * k <= asset * k /\ sfee * k <= coin * k
      BY <1>1, <1>16, <1>17, <2>1
    <2>3. bfee * k \in Int /\ sfee * k \in Int /\ asset * k \in Int /\ coin * k \in Int
      BY <1>1, <1>16, <1>17, <2>1
    <2> QED BY <1>15, <2>1, <2>2, <2>3 DEF RewardFits
  <1> QED BY <1>21, <1>22, <1>24 DEF AllotPasses, buy, sell, got, coin, bfee, sfee

LEMMA WholeRoundPasses ==
    ASSUME SmallAmounts, KnownConfig, IsFiniteSet(Users), TypeInv, LimitInv, ListingInv,
           SolventInv, WholeInv, phase = "matching", InLoop
    PROVE  RoundPasses(Deal)
  <1> DEFINE buy  == orders[buyIt.id]
             unit == Unit[sympair[txn.pair].asset]
             mc   == buyIt.matched_coin
             ma   == buyIt.matched_asset
             n    == buy.total
             p    == buy.price
             asset == Deal.asset
             coin  == Deal.coin
  <1>1. /\ coin \in Nat /\ asset \in Nat \ {0} /\ asset <= FreeAsset(buyIt)
        /\ unit * coin = asset * Deal.price
        /\ unit * (mc + coin) <= (ma + asset) * p
        /\ Deal.price \in Nat \ {0} /\ unit \in Nat \ {0}
    BY RoundExact
  <1>2. /\ buyIt \in ItType /\ buy \in QueuedType
        /\ buyIt.id \in DOMAIN orders /\ buy.pair = txn.pair /\ buy.side = BUY
        /\ txn.pair \in DOMAIN sympair /\ sympair[txn.pair].asset \in Tokens
    BY RoundOrders DEF Book, PairType
  <1>3. /\ mc \in Nat /\ ma \in Nat /\ n \in Int /\ p \in Nat \ {0} /\ buy.frozen \in Int
        /\ ma + asset <= n
    <2>1. /\ mc \in Nat /\ ma \in Nat /\ n \in Int /\ p \in Nat \ {0} /\ buy.frozen \in Int
      BY <1>2, MaxInt64Assumption DEF ItType, QueuedType
    <2>2. FreeAsset(buyIt) = n - ma
      BY DEF FreeAsset
    <2> HIDE DEF n, ma
    <2> QED BY <1>1, <2>1, <2>2
  <1>4. /\ p % unit = 0 /\ buy.frozen = CalcCoin(n, p, unit) /\ Fits(n, p, unit)
    <2>1. WholeRow(buy) /\ Exact(buy, Fill(buyIt.id))
      BY <1>2 DEF WholeInv
    <2>2. Fits(n, p, unit)
      BY <1>2 DEF ListingInv, RowsFit, FitsListing
    <2> QED BY <1>2, <2>1, <2>2 DEF WholeRow, Exact, ExactAt
  <1>5. FeeRatio(buy) \in 0 .. FeeRatioMax
    BY <1>2 DEF FeeRatio, QueuedType
  <1>6. buyIt.matched_coin = mc
    OBVIOUS
  <1> HIDE DEF unit, mc, ma, n, p, asset, coin
  <1>7. n \in Nat
    BY <1>1, <1>3
  <1> DEFINE w == p \div unit
  <1>8. w \in Nat /\ p = unit * w /\ buy.frozen = n * w
    <2>1. p \in Nat
      BY <1>3
    <2>2. w \in Nat /\ p = unit * w /\ CalcCoin(n, p, unit) = n * w
      BY <1>1, <1>4, <1>7, <2>1, CoinIsExact, ZenonT(40)
    <2> QED BY <1>4, <2>2
  <1> HIDE DEF w
  <1>9. mc + coin <= n * w
    <2> SUFFICES ASSUME mc + coin >= n * w + 1 PROVE FALSE
      BY <1>1, <1>3, <1>7, <1>8
    <2> DEFINE d == n * w
               e == mc + coin
    <2>1. d \in Nat /\ e \in Nat /\ e >= d + 1
      BY <1>1, <1>3, <1>7, <1>8
    <2>2. (ma + asset) * p <= n * p /\ n * p = unit * d
      BY <1>1, <1>3, <1>7, <1>8
    <2>3. (ma + asset) * p \in Nat /\ unit * e <= (ma + asset) * p
      BY <1>1, <1>3
    <2> HIDE DEF d, e
    <2>4. unit * e >= unit * (d + 1) /\ unit * (d + 1) = unit * d + unit
      BY <1>1, <2>1
    <2>5. unit * e \in Nat /\ unit * d \in Nat
      BY <1>1, <2>1
    <2> QED BY <1>1, <2>2, <2>3, <2>4, <2>5
  <1>10. coin # 0
    <2> SUFFICES ASSUME coin = 0 PROVE FALSE
      OBVIOUS
    <2>1. asset * Deal.price = 0
      BY <1>1
    <2> QED BY <1>1, <2>1
  <1>11. Fits(asset, FeeRatio(buy), RatioPrecision)
    <2>1. 10 * n <= MaxInt64
      BY <1>1, <1>3, <1>4, <1>7, WholeAmountFits
    <2>2. 5 * asset <= MaxInt64
      BY <1>1, <1>3, <1>7, <2>1, MaxInt64Assumption
    <2> QED BY <1>1, <1>5, <2>2, FeeFits
  <1>12. /\ Deal.coin # 0 /\ Fits(Deal.asset, FeeRatio(orders[buyIt.id]), RatioPrecision)
         /\ buyIt.matched_coin + Deal.coin <= orders[buyIt.id].frozen
    BY <1>6, <1>8, <1>9, <1>10, <1>11 DEF asset, coin, mc
  <1> QED BY <1>12, RoundIsSmall, RoundCanPass

(* Where the prices are whole coins for the smallest unit of asset, and no *)
(* product of an order's total, a price and a reward ratio is beyond the   *)
(* range of an amount, every round passes every check of the loop and      *)
(* every transfer it sends is covered: no payment is rolled back for       *)
(* somebody else's order, and no order at the top blocks its pair.         *)
THEOREM WholePricesPass ==
    ASSUME FitSetting, WholePrices, SmallAmounts
    PROVE  Spec => []RoundsPass
  <1>1. Init => WholeInv
    BY DEF Init, EmptyTable, WholeInv
  <1>2. TypeInv /\ TypeInv' /\ LimitInv /\ ListingInv /\ WholeInv /\ [Next]_vars => WholeInv'
    BY NextWholeInv
  <1>3. Spec => []WholeInv
    BY <1>1, <1>2, TypeInvInvariant, LimitInvInvariant, ListingInvInvariant, PTL DEF Spec
  <1>4. KnownConfig /\ TypeInv /\ LimitInv /\ ListingInv /\ SolventInv /\ WholeInv
            => RoundsPass
    BY WholeRoundPasses DEF RoundsPass, FitSetting
  <1> QED BY <1>3, <1>4, ConfigIsKnown, TypeInvInvariant, LimitInvInvariant, ListingInvInvariant,
             SolventInvInvariant, PTL

-----------------------------------------------------------------------------
(***************************************************************************)
(* Limit prices.  A deal is made at a price within the limits of both      *)
(* orders, and its coins are within half a unit of what that price says;   *)
(* so an order keeps its limit, but for that half unit, over all of its    *)
(* deals together.  What an abort goes back to keeps them as well.         *)
(***************************************************************************)
KeptAt(unit, ds, i, o) ==
    LET mine  == DealsOf(ds, i)
        coins == 2 * unit * SumOfDeals(ds, mine, "coin")
        limit == 2 * o.price * SumOfDeals(ds, mine, "asset")
        slack == unit * Cardinality(mine)
    IN  /\ o.side = BUY  => coins <= limit + slack
        /\ o.side = SELL => coins + slack >= limit

Kept(ds, i, o) == o.pair \in DOMAIN sympair => KeptAt(Unit[sympair[o.pair].asset], ds, i, o)

RowsKept(ds, os) == \A i \in DOMAIN os : Kept(ds, i, os[i])

LimitPriceInv ==
    /\ RowsKept(deals, orders)
    /\ phase = "matching" => RowsKept(undo.deals, undo.orders) /\ RowsKept(undo.deals, orders)

(* An order without deals keeps its limit. *)
LEMMA KeptWithoutDeals ==
    ASSUME NEW unit \in Nat, NEW ds, NEW i, DealsOf(ds, i) = {}, NEW o, o.price \in Nat
    PROVE  KeptAt(unit, ds, i, o)
  <1>1. SumOfDeals(ds, {}, "coin") = 0 /\ SumOfDeals(ds, {}, "asset") = 0
    BY SumEmpty DEF SumOfDeals
  <1>2. Cardinality({}) = 0
    BY FS_EmptySet
  <1> QED BY <1>1, <1>2 DEF KeptAt

(* A deal of two other orders takes nothing from what an order has kept. *)
LEMMA KeptByOthers ==
    ASSUME NEW unit, NEW ds \in Seq(DealType), NEW d \in DealType, NEW i, NEW o,
           KeptAt(unit, ds, i, o), i \notin {d.buy, d.sell}
    PROVE  KeptAt(unit, Append(ds, d), i, o)
  <1>1. DealsOf(Append(ds, d), i) = DealsOf(ds, i)
    BY DealsOfNext
  <1>2. DealsOf(ds, i) \in SUBSET DOMAIN ds
    BY DEF DealsOf
  <1>3. \A field \in AmountFields :
           SumOfDeals(Append(ds, d), DealsOf(ds, i), field) = SumOfDeals(ds, DealsOf(ds, i), field)
    BY <1>2, SumOfDealsAdded
  <1> QED BY <1>1, <1>3 DEF KeptAt, AmountFields

(* One more deal, with a coin amount that is off by half a unit at most.   *)
LEMMA KeptArithmetic ==
    ASSUME NEW u \in Nat, NEW limit \in Nat, NEW price \in Nat,
           NEW coins \in Int, NEW assets \in Int, NEW n \in Nat,
           NEW coin \in Nat, NEW asset \in Nat,
           2 * (u * coin) <= 2 * (asset * price) + u,
           2 * (asset * price) <= 2 * (u * coin) + u
    PROVE  /\ price <= limit /\ 2 * u * coins <= 2 * limit * assets + u * n =>
                2 * u * (coins + coin) <= 2 * limit * (assets + asset) + u * (n + 1)
           /\ price >= limit /\ 2 * u * coins + u * n >= 2 * limit * assets =>
                2 * u * (coins + coin) + u * (n + 1) >= 2 * limit * (assets + asset)
  <1> DEFINE uc == u * coin
             ap == asset * price
             al == asset * limit
             ucs == u * coins
             las == limit * assets
             un == u * n
  <1>1. uc \in Int /\ ap \in Int /\ al \in Int /\ ucs \in Int /\ las \in Int /\ un \in Int
    OBVIOUS
  <1>2. /\ 2 * u * coins = 2 * ucs /\ 2 * limit * assets = 2 * las
        /\ 2 * u * (coins + coin) = 2 * ucs + 2 * uc
        /\ 2 * limit * (assets + asset) = 2 * las + 2 * al
        /\ u * (n + 1) = un + u
    OBVIOUS
  <1>3. price <= limit => ap <= al
    OBVIOUS
  <1>4. price >= limit => ap >= al
    OBVIOUS
  <1> QED BY <1>1, <1>2, <1>3, <1>4

(* So a deal of its own, at a price within its limit, lets an order keep   *)
(* it.                                                                     *)
LEMMA KeptByDeal ==
    ASSUME NEW u \in Nat \ {0}, NEW ds \in Seq(DealType), NEW d \in DealType,
           NEW i \in {d.buy, d.sell}, NEW o, o.price \in Nat,
           KeptAt(u, ds, i, o), d.coin = CalcCoin(d.asset, d.price, u),
           o.side = BUY => d.price <= o.price,
           o.side = SELL => d.price >= o.price
    PROVE  KeptAt(u, Append(ds, d), i, o)
  <1> DEFINE mine == DealsOf(ds, i)
             ds1 == Append(ds, d)
             coins == SumOfDeals(ds, mine, "coin")
             assets == SumOfDeals(ds, mine, "asset")
             n == Cardinality(mine)
  <1>1. DealsOf(ds1, i) = mine \cup {Len(ds) + 1}
    BY DealsOfNext
  <1>2. mine \in SUBSET DOMAIN ds
    BY DEF DealsOf
  <1>3. /\ coins \in Int /\ assets \in Int
        /\ SumOfDeals(ds1, DealsOf(ds1, i), "coin") = coins + d.coin
        /\ SumOfDeals(ds1, DealsOf(ds1, i), "asset") = assets + d.asset
    BY <1>1, <1>2, SumOfDealsAdded DEF AmountFields
  <1>4. n \in Nat /\ Cardinality(DealsOf(ds1, i)) = n + 1
    <2>1. IsFiniteSet(mine)
      BY <1>2, DealsAreFinite
    <2>2. Len(ds) + 1 \notin mine
      BY <1>2, AppendDeal
    <2> QED BY <1>1, <2>1, <2>2, FS_AddElement, FS_CardinalityType
  <1>5. d.asset \in Nat /\ d.coin \in Nat /\ d.price \in Nat
    BY DEF DealType
  <1>6. /\ 2 * (u * d.coin) <= 2 * (d.asset * d.price) + u
        /\ 2 * (d.asset * d.price) + u < 2 * (u * d.coin) + 2 * u
    BY <1>5, CoinRounds
  <1>7. 2 * (d.asset * d.price) <= 2 * (u * d.coin) + u
    <2> DEFINE x == 2 * (d.asset * d.price)
               y == 2 * (u * d.coin)
    <2>1. x \in Int /\ y \in Int /\ x + u < y + 2 * u
      BY <1>5, <1>6, SMTT(30)
    <2> HIDE DEF x, y
    <2>2. x <= y + u
      BY <2>1
    <2> QED BY <2>2 DEF x, y
  <1>8. /\ o.side = BUY => 2 * u * coins <= 2 * o.price * assets + u * n
        /\ o.side = SELL => 2 * u * coins + u * n >= 2 * o.price * assets
    BY DEF KeptAt
  <1> HIDE DEF coins, assets, n
  <1>9. /\ o.side = BUY =>
              2 * u * (coins + d.coin) <= 2 * o.price * (assets + d.asset) + u * (n + 1)
        /\ o.side = SELL =>
              2 * u * (coins + d.coin) + u * (n + 1) >= 2 * o.price * (assets + d.asset)
    BY <1>3, <1>4, <1>5, <1>6, <1>7, <1>8, KeptArithmetic
  <1> QED BY <1>3, <1>4, <1>9 DEF KeptAt

(* A round leaves every order within its limit price. *)
LEMMA RoundKeeps ==
    ASSUME TypeInv, phase = "matching", Round, RowsKept(deals, orders)
    PROVE  RowsKept(deals', orders)
  <1> DEFINE price(i) == orders[i].price
  <1>1. InLoop /\ RoundPasses(Deal) /\ deals' = Append(deals, Deal)
    BY DEF Round
  <1>2. Deal \in DealType /\ Deal.buy = buyIt.id /\ Deal.sell = sellIt.id
    BY <1>1, RoundAmounts
  <1>3. /\ buyIt.id \in DOMAIN orders /\ orders[buyIt.id].pair = txn.pair
        /\ orders[buyIt.id].side = BUY /\ orders[buyIt.id] \in QueuedType
        /\ sellIt.id \in DOMAIN orders /\ orders[sellIt.id].pair = txn.pair
        /\ orders[sellIt.id].side = SELL /\ orders[sellIt.id] \in QueuedType
        /\ txn.pair \in DOMAIN sympair /\ sympair[txn.pair] \in PairType
    BY <1>1, RoundOrders DEF Book
  <1>4. deals \in Seq(DealType)
    BY DEF TypeInv, TypeOK
  <1> DEFINE u == Unit[sympair[txn.pair].asset]
  <1>5. u \in Nat \ {0}
    BY <1>3, TokensAssumption DEF PairType
  <1>6. price(buyIt.id) \in Nat /\ price(sellIt.id) \in Nat
    BY <1>3, MaxInt64Assumption DEF QueuedType
  <1>7. Deal.price <= price(buyIt.id) /\ Deal.price >= price(sellIt.id)
    <2>1. Deal.price = price(MakerId) /\ price(buyIt.id) >= price(sellIt.id)
      BY <1>1 DEF Deal, InLoop, CanMatch
    <2>2. MakerId \in {buyIt.id, sellIt.id}
      BY DEF MakerId
    <2> QED BY <1>6, <2>1, <2>2
  <1>8. Deal.coin = CalcCoin(Deal.asset, Deal.price, u)
    BY DEF Deal
  <1> SUFFICES ASSUME NEW i \in DOMAIN orders, orders[i].pair \in DOMAIN sympair
               PROVE  KeptAt(Unit[sympair[orders[i].pair].asset], deals', i, orders[i])
    BY DEF RowsKept, Kept
  <1>9. KeptAt(Unit[sympair[orders[i].pair].asset], deals, i, orders[i])
    BY DEF RowsKept, Kept
  <1>10. CASE i \notin {Deal.buy, Deal.sell}
    BY <1>1, <1>2, <1>4, <1>9, <1>10, KeptByOthers
  <1>11. CASE i = buyIt.id
    <2>1. KeptAt(u, deals, i, orders[i])
      BY <1>3, <1>9, <1>11
    <2>2. KeptAt(u, Append(deals, Deal), i, orders[i])
      BY <1>2, <1>3, <1>4, <1>5, <1>6, <1>7, <1>8, <1>11, <2>1, KeptByDeal DEF BUY, SELL
    <2> QED BY <1>1, <1>3, <1>11, <2>2
  <1>12. CASE i = sellIt.id
    <2>1. KeptAt(u, deals, i, orders[i])
      BY <1>3, <1>9, <1>12
    <2>2. KeptAt(u, Append(deals, Deal), i, orders[i])
      BY <1>2, <1>3, <1>4, <1>5, <1>6, <1>7, <1>8, <1>12, <2>1, KeptByDeal DEF BUY, SELL
    <2> QED BY <1>1, <1>3, <1>12, <2>2
  <1> QED BY <1>2, <1>10, <1>11, <1>12

(* After the step, for a row as it was or with another fill. *)
KeptNext(ds, i, n) ==
    n.pair \in DOMAIN sympair' => KeptAt(Unit[sympair'[n.pair].asset], ds, i, n)

(* A step that leaves the deals and the price of an order leaves it kept. *)
LEMMA KeptStays ==
    ASSUME TypeInv, [Next]_vars, NEW ds, NEW i, NEW o, NEW n, FitsListing(o), Kept(ds, i, o),
           n.pair = o.pair, n.side = o.side, n.price = o.price
    PROVE  KeptNext(ds, i, n)
  <1>1. /\ sympairId \in Nat
        /\ \A p \in DOMAIN sympair' :
             \/ p > sympairId
             \/ p \in DOMAIN sympair /\ sympair'[p].asset = sympair[p].asset
    BY ListingStep, BoundsAssumption DEF TypeInv, TypeOK
  <1> SUFFICES ASSUME n.pair \in DOMAIN sympair'
               PROVE  KeptAt(Unit[sympair'[n.pair].asset], ds, i, n)
    BY DEF KeptNext
  <1>2. o.pair \in DOMAIN sympair /\ sympair'[o.pair].asset = sympair[o.pair].asset
    BY <1>1 DEF FitsListing
  <1>3. KeptAt(Unit[sympair'[n.pair].asset], ds, i, o)
    BY <1>2 DEF Kept
  <1> QED BY <1>3 DEF KeptAt

LEMMA IdleLimitPriceInv ==
    ASSUME phase' = "idle", \A i \in DOMAIN orders' : KeptNext(deals', i, orders'[i])
    PROVE  LimitPriceInv'
  BY DEF LimitPriceInv, RowsKept, Kept, KeptNext

LEMMA LoopLimitPriceInv ==
    ASSUME \A i \in DOMAIN orders' : KeptNext(deals', i, orders'[i]),
           \A i \in DOMAIN undo'.orders : KeptNext(undo'.deals, i, undo'.orders[i]),
           \A i \in DOMAIN orders' : KeptNext(undo'.deals, i, orders'[i])
    PROVE  LimitPriceInv'
  BY DEF LimitPriceInv, RowsKept, Kept, KeptNext

LEMMA OnTransferLimitPriceInv ==
    ASSUME TypeInv, ListingInv, DealsInv, LimitPriceInv, [Next]_vars, NEW u \in Users,
           NEW t, NEW q, OnTransfer(u, t, q)
    PROVE  LimitPriceInv'
  <1> DEFINE order == queue[u]
             id    == NewId(orderId)
  <1>1. /\ Idle /\ u \in DOMAIN queue /\ orderId < MaxOrders
        /\ orders' = Put(orders, id, order) /\ deals' = deals /\ sympair' = sympair
        /\ undo'.orders = orders /\ undo'.deals = deals
    BY DEF OnTransfer, BeginMatching, admin
  <1>2. orderId \in Nat /\ id = orderId + 1
    BY <1>1, BoundsAssumption DEF TypeInv, TypeOK, NewId
  <1>3. order \in QueuedType
    BY <1>1 DEF TypeInv, TypeOK, IsTable
  <1>4. \A i \in DOMAIN orders : KeptNext(deals, i, orders[i])
    BY KeptStays DEF LimitPriceInv, RowsKept, ListingInv, RowsFit
  <1>5. DealsOf(deals, id) = {}
    <2>1. \A n \in DOMAIN deals : deals[n].buy \in 1 .. orderId /\ deals[n].sell \in 1 .. orderId
      BY DEF DealsInv
    <2> QED BY <1>2, <2>1 DEF DealsOf
  <1> HIDE DEF order, id
  <1>6. KeptNext(deals, id, order)
    <2> SUFFICES ASSUME order.pair \in DOMAIN sympair
                 PROVE  KeptAt(Unit[sympair[order.pair].asset], deals, id, order)
      BY <1>1 DEF KeptNext
    <2>1. Unit[sympair[order.pair].asset] \in Nat
      BY TokensAssumption DEF TypeInv, TypeOK, IsTable, PairType
    <2>2. order.price \in Nat
      BY <1>3, MaxInt64Assumption DEF QueuedType
    <2> QED BY <1>5, <2>1, <2>2, KeptWithoutDeals
  <1>7. \A i \in DOMAIN orders' : KeptNext(deals, i, orders'[i])
    BY <1>1, <1>4, <1>6 DEF Put
  <1> QED BY <1>1, <1>4, <1>7, LoopLimitPriceInv

LEMMA NextLimitPriceInv ==
    ASSUME TypeInv, ListingInv, DealsInv, LimitPriceInv, [Next]_vars
    PROVE  LimitPriceInv'
  <1>1. \A i \in DOMAIN orders : KeptNext(deals, i, orders[i])
    BY KeptStays DEF LimitPriceInv, RowsKept, ListingInv, RowsFit
  <1>2. ASSUME phase = "matching"
        PROVE  /\ \A i \in DOMAIN undo.orders : KeptNext(undo.deals, i, undo.orders[i])
               /\ \A i \in DOMAIN orders : KeptNext(undo.deals, i, orders[i])
    BY <1>2, KeptStays DEF LimitPriceInv, RowsKept, ListingInv, RowsFit
  <1>3. ASSUME phase' = "idle", orders' = orders, deals' = deals PROVE LimitPriceInv'
    BY <1>1, <1>3, IdleLimitPriceInv
  <1>4. CASE Administer
    BY <1>3, <1>4 DEF Administer, InitDex, SetConfig, SetSymPair, OnOffSymPair,
                      DelSymPair, books, money, loop, Idle
  <1>5. CASE Place
    <2>1. ASSUME NEW r \in Requests, NEW signers, CreateOrder(r, signers) PROVE LimitPriceInv'
      BY <1>3, <2>1 DEF CreateOrder, money, loop, Idle
    <2>2. ASSUME NEW u \in Users, DelQueueOrd(u) PROVE LimitPriceInv'
      BY <1>3, <2>2 DEF DelQueueOrd, money, loop, Idle
    <2> QED BY <1>5, <2>1, <2>2, OnTransferLimitPriceInv DEF Place, NewOrder, Buy, Sell
  <1>6. CASE MatchAny
    <2>1. orders' = orders /\ deals' = deals /\ undo'.orders = orders /\ undo'.deals = deals
      BY <1>6 DEF MatchAny, Match, BeginMatching, books, money
    <2> QED BY <1>1, <2>1, LoopLimitPriceInv
  <1>7. CASE Leave
    <2>1. ASSUME NEW i \in DOMAIN orders, NEW u \in Users,
                 Cancel(u, orders[i].pair, orders[i].side, i)
          PROVE  LimitPriceInv'
      <3>1. phase' = "idle" /\ orders' = Delete(orders, i) /\ deals' = deals
        BY <2>1 DEF Cancel, Idle, loop
      <3>2. \A j \in DOMAIN orders' : KeptNext(deals', j, orders'[j])
        BY <1>1, <3>1 DEF Delete
      <3> QED BY <3>1, <3>2, IdleLimitPriceInv
    <2> QED BY <1>3, <1>7, <2>1 DEF Leave, Withdraw, books, loop, Idle
  <1>8. CASE Round
    <2>1. /\ phase = "matching" /\ undo' = undo /\ sympair' = sympair
          /\ \E gone : orders' = Restrict(orders, DOMAIN orders \ gone)
      BY <1>8, RoundIterators DEF Round, admin
    <2>2. RowsKept(deals', orders)
      BY <1>8, <2>1, RoundKeeps DEF LimitPriceInv
    <2>3. \A i \in DOMAIN orders : KeptNext(deals', i, orders[i])
      BY <2>1, <2>2 DEF RowsKept, Kept, KeptNext
    <2>4. /\ \A i \in DOMAIN orders' : KeptNext(deals', i, orders'[i])
          /\ \A i \in DOMAIN orders' : KeptNext(undo.deals, i, orders'[i])
      BY <1>2, <2>1, <2>3 DEF Restrict
    <2> QED BY <1>2, <2>1, <2>4, LoopLimitPriceInv
  <1>9. CASE Finish
    <2>1. phase = "matching" /\ phase' = "idle" /\ deals' = deals
      BY <1>9 DEF Finish, EndTransaction, money
    <2>2. /\ DOMAIN orders' = DOMAIN orders
          /\ \A i \in DOMAIN orders :
               /\ orders'[i].pair = orders[i].pair /\ orders'[i].side = orders[i].side
               /\ orders'[i].price = orders[i].price
      BY <1>9, <2>1, FinishOrders
    <2>3. \A i \in DOMAIN orders' : KeptNext(deals, i, orders'[i])
      BY <2>2, KeptStays DEF LimitPriceInv, RowsKept, ListingInv, RowsFit
    <2> QED BY <2>1, <2>3, IdleLimitPriceInv
  <1>10. CASE Abort
    <2>1. /\ phase = "matching" /\ phase' = "idle"
          /\ orders' = undo.orders /\ deals' = undo.deals
      BY <1>10 DEF Abort, EndTransaction
    <2> QED BY <1>2, <2>1, IdleLimitPriceInv
  <1>11. CASE UNCHANGED vars
    <2>1. UNCHANGED <<orders, deals, undo, phase>>
      BY <1>11 DEF vars, books, money, loop
    <2>2. CASE phase = "matching"
      BY <1>1, <1>2, <2>1, <2>2, LoopLimitPriceInv
    <2>3. CASE phase # "matching"
      <3>1. phase' = "idle"
        BY <2>1, <2>3 DEF TypeInv, TypeOK
      <3> QED BY <1>3, <2>1, <3>1
    <2> QED BY <2>2, <2>3
  <1> QED BY <1>4, <1>5, <1>6, <1>7, <1>8, <1>9, <1>10, <1>11 DEF Next

(* The deals after a step, with the orders before it. *)
LEMMA NextKeeps ==
    ASSUME TypeInv, LimitPriceInv, [Next]_vars
    PROVE  RowsKept(deals', orders)
  <1>1. CASE Round
    BY <1>1, RoundKeeps DEF LimitPriceInv, Round
  <1>2. CASE Abort
    BY <1>2 DEF Abort, LimitPriceInv
  <1>3. CASE ~Round /\ ~Abort
    <2>1. deals' = deals
      <3>1. Administer => deals' = deals
        <4>1. InitDex => deals' = deals
          BY DEF InitDex, money
        <4>2. \A conf : SetConfig(conf) => deals' = deals
          BY DEF SetConfig, money
        <4>3. \A a, c, on : SetSymPair(a, c, on) => deals' = deals
          BY DEF SetSymPair, money
        <4>4. \A p, on : OnOffSymPair(p, on) => deals' = deals
          BY DEF OnOffSymPair, money
        <4>5. \A p : DelSymPair(p) => deals' = deals
          BY DEF DelSymPair, money
        <4> QED BY <4>1, <4>2, <4>3, <4>4, <4>5 DEF Administer
      <3>2. Place => deals' = deals
        <4>1. \A r, signers : NewOrder(r, signers) \/ Buy(r, signers) \/ Sell(r, signers)
                => deals' = deals
          BY DEF NewOrder, Buy, Sell, CreateOrder, money
        <4>2. \A u : DelQueueOrd(u) => deals' = deals
          BY DEF DelQueueOrd, money
        <4>3. \A u, t, q : OnTransfer(u, t, q) => deals' = deals
          BY DEF OnTransfer, money
        <4> QED BY <4>1, <4>2, <4>3 DEF Place
      <3>3. MatchAny \/ Leave => deals' = deals
        BY DEF MatchAny, Match, Leave, Cancel, Withdraw, money
      <3>4. Finish \/ UNCHANGED vars => deals' = deals
        BY DEF Finish, vars, money
      <3> QED BY <1>3, <3>1, <3>2, <3>3, <3>4 DEF Next
    <2> QED BY <2>1 DEF LimitPriceInv
  <1> QED BY <1>1, <1>2, <1>3

(* However many deals fill an order, whatever their prices and however     *)
(* their coins are rounded, the order pays or gets its limit price or a    *)
(* better one over all of them, but for half a unit of coin a deal.        *)
THEOREM LimitPricesKept == Spec => LimitPriceKept
  <1>1. Init => LimitPriceInv
    BY DEF Init, EmptyTable, LimitPriceInv, RowsKept
  <1>2. TypeInv /\ ListingInv /\ DealsInv /\ LimitPriceInv /\ [Next]_vars => LimitPriceInv'
    BY NextLimitPriceInv
  <1>3. Spec => []LimitPriceInv
    BY <1>1, <1>2, TypeInvInvariant, ListingInvInvariant, DealsInvInvariant, PTL DEF Spec
  <1>4. TypeInv /\ LimitPriceInv /\ [Next]_vars =>
           [\A i \in DOMAIN orders : orders[i].pair \in DOMAIN sympair =>
              LET o     == orders[i]
                  mine  == DealsOf(deals', i)
                  unit  == Unit[sympair[o.pair].asset]
                  coins == 2 * unit * SumOfDeals(deals', mine, "coin")
                  limit == 2 * o.price * SumOfDeals(deals', mine, "asset")
                  slack == unit * Cardinality(mine)
              IN  /\ o.side = BUY  => coins <= limit + slack
                  /\ o.side = SELL => coins + slack >= limit]_vars
    <2> SUFFICES ASSUME TypeInv, LimitPriceInv, [Next]_vars, NEW i \in DOMAIN orders,
                        orders[i].pair \in DOMAIN sympair
                 PROVE  KeptAt(Unit[sympair[orders[i].pair].asset], deals', i, orders[i])
      BY DEF KeptAt
    <2>1. RowsKept(deals', orders)
      BY NextKeeps
    <2> QED BY <2>1 DEF RowsKept, Kept
  <1> QED BY <1>3, <1>4, TypeInvInvariant, PTL DEF Spec, LimitPriceKept

-----------------------------------------------------------------------------
(***************************************************************************)
(* The ledger.  What the deals of a transaction have taken from an order,  *)
(* and the orders that they name.                                          *)
(***************************************************************************)
Gives(d, i) == (IF d.buy = i THEN d.coin ELSE 0) + (IF d.sell = i THEN d.asset ELSE 0)

Gave(ds, last, i) ==
    SumFunctionOnSet([n \in last + 1 .. Len(ds) |-> Gives(ds[n], i)], last + 1 .. Len(ds))

Dealt(ds, last) == UNION {{ds[n].buy, ds[n].sell} : n \in last + 1 .. Len(ds)}

LEMMA GivesIsNat ==
    ASSUME NEW d \in DealType, NEW i
    PROVE  Gives(d, i) \in Nat
  BY DEF Gives, DealType

(* Before the first deal nothing is given. *)
LEMMA GaveNothing ==
    ASSUME NEW ds \in Seq(DealType), NEW i
    PROVE  Gave(ds, Len(ds), i) = 0 /\ Dealt(ds, Len(ds)) = {}
  <1>1. Len(ds) + 1 .. Len(ds) = {}
    BY DEF DealType
  <1>2. Gave(ds, Len(ds), i) = 0
    BY <1>1, SumEmpty DEF Gave
  <1> QED BY <1>1, <1>2 DEF Dealt

(* What a deal adds to what an order has given. *)
LEMMA GaveMore ==
    ASSUME NEW ds \in Seq(DealType), NEW d \in DealType, NEW last \in Nat, last <= Len(ds),
           NEW i
    PROVE  /\ Gave(ds, last, i) \in Nat
           /\ Gave(Append(ds, d), last, i) = Gave(ds, last, i) + Gives(d, i)
           /\ Dealt(Append(ds, d), last) = Dealt(ds, last) \cup {d.buy, d.sell}
  <1> DEFINE n == Len(ds)
             ds1 == Append(ds, d)
             S == last + 1 .. n
             S1 == last + 1 .. Len(ds1)
             f == [m \in S |-> Gives(ds[m], i)]
             g == [m \in S1 |-> Gives(ds1[m], i)]
  <1>1. /\ n \in Nat /\ Len(ds1) = n + 1 /\ ds1[n + 1] = d
        /\ \A m \in 1 .. n : ds1[m] = ds[m] /\ ds[m] \in DealType
    BY AppendDeal
  <1>2. S1 = S \cup {n + 1} /\ n + 1 \notin S /\ S \subseteq 1 .. n
    BY <1>1
  <1>3. IsFiniteSet(S) /\ IsFiniteSet(S1)
    <2>1. last + 1 \in Int /\ n \in Int /\ Len(ds1) \in Int
      BY <1>1
    <2> QED BY <2>1, FS_Interval
  <1>4. /\ \A m \in S : f[m] \in Nat /\ g[m] \in Int /\ g[m] = f[m]
        /\ \A m \in S1 : g[m] \in Int
        /\ g[n + 1] = Gives(d, i) /\ n + 1 \in S1 /\ g[n + 1] \in Nat
    BY <1>1, <1>2, GivesIsNat
  <1>5. Dealt(ds1, last) = Dealt(ds, last) \cup {d.buy, d.sell}
    <2>1. \A x : x \in Dealt(ds1, last) <=> \E m \in S1 : x \in {ds1[m].buy, ds1[m].sell}
      BY DEF Dealt
    <2>2. \A x : x \in Dealt(ds, last) <=> \E m \in S : x \in {ds[m].buy, ds[m].sell}
      BY DEF Dealt
    <2>3. \A m \in S : ds1[m] = ds[m]
      BY <1>1, <1>2
    <2> HIDE DEF S, S1, ds1, n
    <2> QED BY <1>1, <1>2, <2>1, <2>2, <2>3
  <1>6. /\ Gave(ds, last, i) = SumFunctionOnSet(f, S)
        /\ Gave(ds1, last, i) = SumFunctionOnSet(g, S1)
    BY DEF Gave
  <1> HIDE DEF f, g, S, S1, n, ds1
  <1>7. SumFunctionOnSet(f, S) \in Nat
    BY <1>3, <1>4, SumIsNat
  <1>8. SumFunctionOnSet(g, S) = SumFunctionOnSet(f, S)
    BY <1>2, <1>3, <1>4, SumSame
  <1>9. SumFunctionOnSet(g, S1) = g[n + 1] + SumFunctionOnSet(g, S1 \ {n + 1})
    BY <1>2, <1>3, <1>4, SumRemove, ZenonT(40)
  <1>10. S1 \ {n + 1} = S
    BY <1>2
  <1>11. SumFunctionOnSet(g, S1) = SumFunctionOnSet(f, S) + Gives(d, i)
    <2>1. SumFunctionOnSet(g, S1) = Gives(d, i) + SumFunctionOnSet(f, S)
      BY <1>4, <1>8, <1>9, <1>10
    <2> QED BY <1>4, <1>7, <2>1
  <1> QED BY <1>5, <1>6, <1>7, <1>11 DEF ds1
-----------------------------------------------------------------------------
(* A payment keeps the sum of what all accounts have. *)
LEMMA PayKeepsSum ==
    ASSUME IsFiniteSet(Accounts), NEW w \in Balances, NEW from \in Accounts, NEW to \in Accounts,
           from # to, NEW token \in Tokens, NEW amount \in Int, NEW t \in Tokens
    PROVE  OwedOf(Pay(w, from, to, token, amount), t) = OwedOf(w, t)
  <1> DEFINE f == [a \in Accounts |-> w[a][t]]
             h == [a \in Accounts |-> Pay(w, from, to, token, amount)[a][t]]
             b == IF t = token THEN amount ELSE 0
  <1>1. \A a \in Accounts : f[a] \in Int
    BY DEF Balances
  <1>2. \A a \in Accounts :
          h[a] = IF t # token THEN f[a]
                 ELSE IF a = from THEN f[a] - amount
                 ELSE IF a = to THEN f[a] + amount ELSE f[a]
    BY PayMoves
  <1>3. OwedOf(w, t) = SumFunctionOnSet(f, Accounts)
    BY DEF OwedOf
  <1>4. OwedOf(Pay(w, from, to, token, amount), t) = SumFunctionOnSet(h, Accounts)
    BY DEF OwedOf
  <1> HIDE DEF f, h
  <1>5. b \in Int /\ -b \in Int
    OBVIOUS
  <1>6. /\ \A a \in Accounts \ {from, to} : h[a] = f[a]
        /\ h[from] = f[from] - b
        /\ h[to] = f[to] - (-b)
    BY <1>1, <1>2
  <1> HIDE DEF b
  <1> DEFINE c == -b
             X == {}
  <1>7. /\ X \in SUBSET {from, to} /\ Accounts \ X = Accounts
        /\ IF from \in X THEN f[from] = b ELSE h[from] = f[from] - b
        /\ IF to \in X THEN f[to] = c ELSE h[to] = f[to] - c
    BY <1>6
  <1>8. c \in Int
    BY <1>5
  <1> HIDE DEF c, X
  <1>9. SumFunctionOnSet(h, Accounts \ X) = SumFunctionOnSet(f, Accounts) - b - c
    BY <1>1, <1>5, <1>6, <1>7, <1>8, TwoParts
  <1>10. SumFunctionOnSet(f, Accounts) \in Int
    BY <1>1, SumIsInt
  <1>11. SumFunctionOnSet(f, Accounts) - b - c = SumFunctionOnSet(f, Accounts)
    BY <1>5, <1>10 DEF c
  <1> QED BY <1>3, <1>4, <1>7, <1>9, <1>11

(* A round pays out and credits: nobody but the contract has less after    *)
(* it, and there is as much of every token as before.                      *)
LEMMA RoundPaysOut ==
    ASSUME IsFiniteSet(Users), TypeInv, phase = "matching", Round, NEW t \in Tokens
    PROVE  /\ OwedOf(wallet', t) = OwedOf(wallet, t)
           /\ \A a \in Accounts \ {Dex} : wallet'[a][t] >= wallet[a][t]
           /\ \A a \in Accounts : rewards'[a][t] >= rewards[a][t]
  <1> DEFINE buyer  == orders[buyIt.id].owner
             seller == orders[sellIt.id].owner
             asset  == sympair[txn.pair].asset
             coin   == sympair[txn.pair].coin
             x == Deal.coin - Deal.sell_fee
             y == Deal.asset - Deal.buy_fee
             z == Deal.refund
             w1 == Pay(wallet, Dex, seller, coin, x)
             w2 == Pay(w1, Dex, buyer, asset, y)
             w3 == Pay(w2, Dex, buyer, coin, z)
             s1 == FeeShares(buyer, Deal.buy_fee)
             s2 == FeeShares(seller, Deal.sell_fee)
             r1 == Credit(rewards, asset, s1)
             r2 == Credit(r1, coin, s2)
  <1>1. InLoop /\ RoundPasses(Deal) /\ wallet' = w3 /\ rewards' = r2
    BY DEF Round
  <1>2. /\ asset \in Tokens /\ coin \in Tokens /\ asset # coin
        /\ buyer \in Accounts /\ seller \in Accounts /\ Dex \in Accounts
        /\ buyer # Dex /\ seller # Dex /\ buyer \in Users /\ seller \in Users
    BY <1>1, RoundOrders, AccountsAssumption
    DEF PairType, QueuedType, Accounts, TypeInv, PairsDiffer
  <1>3. x \in Nat /\ y \in Nat /\ z \in Nat /\ Deal.buy_fee \in Nat /\ Deal.sell_fee \in Nat
    BY <1>1, RoundAmounts DEF DealType
  <1>4. wallet[Dex][coin] >= x + z /\ wallet[Dex][asset] >= y
    BY <1>1 DEF RoundPasses
  <1>5. wallet \in Balances /\ rewards \in Balances /\ config \in ConfigType
    BY DEF TypeInv, TypeOK
  <1>6. s1 \in [Accounts -> Nat] /\ s2 \in [Accounts -> Nat]
    BY <1>2, <1>3, <1>5, FeeSharesType
  <1>7. IsFiniteSet(Accounts)
    BY AccountsAreFinite
  <1> HIDE DEF buyer, seller, asset, coin, x, y, z, s1, s2
  <1>8. ASSUME NEW a \in Accounts PROVE rewards'[a][t] >= rewards[a][t]
    <2>1. r1 \in Balances /\ r2 \in Balances
      BY <1>2, <1>5, <1>6, CreditType
    <2>2. \A rw \in Balances : \A k \in Tokens : \A s \in [Accounts -> Nat] :
             Credit(rw, k, s)[a][t] >= rw[a][t]
      BY DEF Credit, Balances
    <2>3. r2[a][t] >= r1[a][t] /\ r1[a][t] >= rewards[a][t]
      BY <1>2, <1>5, <1>6, <2>1, <2>2
    <2>4. r2[a][t] \in Int /\ r1[a][t] \in Int /\ rewards[a][t] \in Int
      BY <1>5, <2>1 DEF Balances
    <2> HIDE DEF r1, r2
    <2> QED BY <1>1, <2>3, <2>4
  <1>9. wallet[Dex] \in [Tokens -> Nat]
    BY <1>2, <1>5 DEF Balances
  <1>10. wallet[Dex][coin] >= x
    BY <1>2, <1>3, <1>4, <1>9
  <1>11. w1 \in Balances /\ w1[Dex][asset] = wallet[Dex][asset]
         /\ w1[Dex][coin] = wallet[Dex][coin] - x
    BY <1>2, <1>3, <1>5, <1>10, PayType
  <1>12. /\ OwedOf(w1, t) = OwedOf(wallet, t)
         /\ \A a \in Accounts \ {Dex} : w1[a][t] >= wallet[a][t]
    <2>1. OwedOf(w1, t) = OwedOf(wallet, t)
      BY <1>2, <1>3, <1>5, <1>7, PayKeepsSum
    <2>2. \A a \in Accounts \ {Dex} : wallet[a][t] \in Int
      BY <1>5 DEF Balances
    <2> QED BY <1>2, <1>3, <1>5, <2>1, <2>2, PayMoves
  <1> HIDE DEF w1
  <1>13. w2 \in Balances /\ w2[Dex][coin] = w1[Dex][coin]
    BY <1>2, <1>3, <1>4, <1>11, PayType
  <1>14. /\ OwedOf(w2, t) = OwedOf(w1, t)
         /\ \A a \in Accounts \ {Dex} : w2[a][t] >= w1[a][t]
    <2>1. OwedOf(w2, t) = OwedOf(w1, t)
      BY <1>2, <1>3, <1>7, <1>11, PayKeepsSum
    <2>2. \A a \in Accounts \ {Dex} : w1[a][t] \in Int
      BY <1>11 DEF Balances
    <2> QED BY <1>2, <1>3, <1>11, <2>1, <2>2, PayMoves
  <1> HIDE DEF w2
  <1>15. w3 \in Balances
    <2>1. w2[Dex][coin] >= z
      BY <1>2, <1>3, <1>4, <1>9, <1>11, <1>13
    <2> QED BY <1>2, <1>3, <1>13, <2>1, PayType
  <1>16. /\ OwedOf(w3, t) = OwedOf(w2, t)
         /\ \A a \in Accounts \ {Dex} : w3[a][t] >= w2[a][t]
    <2>1. OwedOf(w3, t) = OwedOf(w2, t)
      BY <1>2, <1>3, <1>7, <1>13, PayKeepsSum
    <2>2. \A a \in Accounts \ {Dex} : w2[a][t] \in Int
      BY <1>13 DEF Balances
    <2> QED BY <1>2, <1>3, <1>13, <2>1, <2>2, PayMoves
  <1> HIDE DEF w3
  <1>17. \A a \in Accounts : /\ wallet[a][t] \in Int /\ w1[a][t] \in Int
                             /\ w2[a][t] \in Int /\ w3[a][t] \in Int
    BY <1>5, <1>11, <1>13, <1>15 DEF Balances
  <1>18. \A a \in Accounts \ {Dex} : w3[a][t] >= wallet[a][t]
    BY <1>12, <1>14, <1>16, <1>17
  <1> QED BY <1>1, <1>8, <1>12, <1>14, <1>16, <1>18

(* The round takes from an order that stays what its deal says. *)
LEMMA RoundTakes ==
    ASSUME TypeInv, phase = "matching", Round, NEW i \in DOMAIN orders'
    PROVE  Held(i) \in Int /\ Held(i)' = Held(i) - Gives(Deal, i)
  <1>1. InLoop /\ RoundPasses(Deal)
    BY DEF Round
  <1>2. /\ buyIt \in ItType /\ sellIt \in ItType /\ buyIt.id # sellIt.id
        /\ orders[buyIt.id].side = BUY /\ orders[sellIt.id].side # BUY
    BY <1>1, RoundOrders DEF Book, BUY, SELL
  <1>3. /\ Deal \in DealType /\ Deal.buy = buyIt.id /\ Deal.sell = sellIt.id
        /\ Deal.asset \in Nat /\ Deal.coin \in Nat
        /\ Deal.buy_fee \in Nat /\ Deal.sell_fee \in Nat
    BY <1>1, RoundAmounts DEF DealType
  <1>4. deals \in Seq(DealType)
    BY DEF TypeInv, TypeOK
  <1>5. /\ i \in DOMAIN orders /\ orders'[i] = orders[i]
        /\ i = buyIt.id => Fill(i)' = Filled(buyIt, Deal, Deal.buy_fee)
        /\ i = sellIt.id => Fill(i)' = Filled(sellIt, Deal, Deal.sell_fee)
        /\ i \notin {buyIt.id, sellIt.id} => SameFill(Fill(i)', orders[i])
    BY RoundFill
  <1>6. orders[i] \in QueuedType
    BY <1>5 DEF TypeInv, TypeOK, IsTable, OrderType
  <1>7. /\ orders[i].frozen \in Int /\ orders[i].matched_coin \in Nat
        /\ orders[i].matched_asset \in Nat
    BY <1>6 DEF QueuedType
  <1>8. CASE i = buyIt.id
    <2>1. Fill(i)'.matched_coin = buyIt.matched_coin + Deal.coin
      <3>1. Filled(buyIt, Deal, Deal.buy_fee).matched_coin = buyIt.matched_coin + Deal.coin
        BY <1>2, <1>3, <1>4, FilledType
      <3> QED BY <1>5, <1>8, <3>1
    <2>2. Gives(Deal, i) = Deal.coin
      BY <1>2, <1>3, <1>8 DEF Gives
    <2>3. buyIt.matched_coin \in Nat /\ Fill(i) = buyIt
      BY <1>2, <1>8 DEF ItType, Fill
    <2>4. /\ Held(i) = orders[i].frozen - buyIt.matched_coin
          /\ Held(i)' = orders[i].frozen - (buyIt.matched_coin + Deal.coin)
      BY <1>2, <1>5, <1>8, <2>1, <2>3 DEF Held
    <2> QED BY <1>3, <1>7, <2>2, <2>3, <2>4
  <1>9. CASE i = sellIt.id
    <2>1. Fill(i)'.matched_asset = sellIt.matched_asset + Deal.asset
      <3>1. Filled(sellIt, Deal, Deal.sell_fee).matched_asset = sellIt.matched_asset + Deal.asset
        BY <1>2, <1>3, <1>4, FilledType
      <3> QED BY <1>5, <1>9, <3>1
    <2>2. Gives(Deal, i) = Deal.asset
      BY <1>2, <1>3, <1>9 DEF Gives
    <2>3. sellIt.matched_asset \in Nat /\ Fill(i) = sellIt
      BY <1>2, <1>9 DEF ItType, Fill
    <2>4. /\ Held(i) = orders[i].frozen - sellIt.matched_asset
          /\ Held(i)' = orders[i].frozen - (sellIt.matched_asset + Deal.asset)
      BY <1>2, <1>5, <1>9, <2>1, <2>3 DEF Held
    <2> QED BY <1>3, <1>7, <2>2, <2>3, <2>4
  <1>10. CASE i \notin {buyIt.id, sellIt.id}
    <2>1. Fill(i) = orders[i] /\ Gives(Deal, i) = 0
      BY <1>3, <1>10 DEF Fill, Gives
    <2>2. Held(i)' = Held(i)
      BY <1>5, <1>10, <2>1 DEF Held, SameFill
    <2>3. Held(i) \in Int
      BY <1>7, <2>1 DEF Held
    <2> QED BY <2>1, <2>2, <2>3
  <1> QED BY <1>8, <1>9, <1>10

(* The transaction follows from accounts `w' and orders `os' by what its   *)
(* deals say: the orders that are left have given it, nobody has less, and *)
(* there is as much of every token.                                        *)
Follows(w, os) ==
    LET last == Len(undo.deals)
    IN  /\ w \in Balances /\ IsTable(os, 1 .. orderId, OrderType)
        /\ Backed(os, undo.rewards, w)
        /\ last <= Len(deals)
        /\ \A n \in 1 .. last : deals[n] = undo.deals[n]
        /\ DOMAIN orders \cup Dealt(deals, last) \subseteq DOMAIN os
        /\ DOMAIN os \subseteq DOMAIN orders \cup Dealt(deals, last)
        /\ \A i \in DOMAIN orders :
              /\ orders[i].owner = os[i].owner /\ orders[i].token = os[i].token
              /\ Remainder(os[i]) = Held(i) + Gave(deals, last, i)
        /\ \A t \in Tokens :
              /\ OwedOf(wallet, t) = OwedOf(w, t)
              /\ \A a \in Accounts \ {Dex} : wallet[a][t] >= w[a][t]
              /\ \A a \in Accounts : rewards[a][t] >= undo.rewards[a][t]

(* It begins with the tables as they were, or with an order paid and       *)
(* booked.                                                                 *)
LedgerInv ==
    phase = "matching" =>
        \/ txn.action = "match" /\ Follows(undo.wallet, undo.orders)
        \/ /\ orderId = undo.orderId + 1
           /\ \E u \in DOMAIN undo.queue :
                 LET o == undo.queue[u]
                 IN  /\ o.frozen \in 1 .. undo.wallet[u][o.token]
                     /\ Follows(Pay(undo.wallet, u, Dex, o.token, o.frozen),
                                Put(undo.orders, orderId, o))

(* Outside of the loop an order holds what its row says. *)
LEMMA HeldOfSame ==
    ASSUME NEW i, SameFill(Fill(i)', orders'[i])
    PROVE  Held(i)' = Remainder(orders'[i])
  BY DEF Held, SameFill, Remainder

LEMMA RemainderIsInt ==
    ASSUME NEW o \in QueuedType
    PROVE  Remainder(o) \in Int
  BY DEF Remainder, QueuedType

(* Nothing has happened yet when the loop begins. *)
LEMMA BeginFollows ==
    ASSUME TypeInv, TypeInv', SolventInv', NEW action, NEW pair, NEW limit,
           BeginMatching(action, pair, limit, orders'),
           deals' = deals, rewards' = rewards,
           NEW w, w = wallet', NEW os, os = orders'
    PROVE  Follows(w, os)'
  <1>1. undo'.deals = deals' /\ undo'.rewards = rewards'
    BY DEF BeginMatching
  <1>2. /\ wallet' \in Balances /\ rewards' \in Balances /\ deals' \in Seq(DealType)
        /\ IsTable(orders', 1 .. orderId', OrderType)
    BY DEF TypeInv, TypeOK
  <1>3. Len(deals') \in Nat
    BY <1>2
  <1>4. /\ \A i : Gave(deals', Len(deals'), i) = 0
        /\ Dealt(deals', Len(deals')) = {}
    BY <1>2, GaveNothing
  <1>5. ASSUME NEW i \in DOMAIN orders'
        PROVE  Remainder(orders'[i]) = Held(i)' + Gave(deals', Len(deals'), i)
    <2>1. Held(i)' = Remainder(orders'[i])
      BY BeginFills, HeldOfSame
    <2>2. Remainder(orders'[i]) \in Int
      BY <1>2, RemainderIsInt DEF IsTable, OrderType
    <2> QED BY <1>4, <2>1, <2>2
  <1>6. \A t \in Tokens, a \in Accounts :
           wallet'[a][t] >= wallet'[a][t] /\ rewards'[a][t] >= rewards'[a][t]
    BY <1>2 DEF Balances
  <1>7. \A n \in 1 .. Len(undo'.deals) : deals'[n] = undo'.deals[n]
    BY <1>1
  <1>0. Backed(orders', rewards', wallet')
    <2>1. \A t : LiveParts(t)' = RowParts(orders', t)
      BY BeginFills DEF LiveParts, RowParts, Part, SameFill
    <2> QED BY <2>1 DEF SolventInv, Backed, OwedOf
  <1>8. Backed(orders', undo'.rewards, wallet') /\ Len(undo'.deals) <= Len(deals')
    BY <1>0, <1>1, <1>3
  <1>9. /\ DOMAIN orders' \cup Dealt(deals', Len(undo'.deals)) \subseteq DOMAIN orders'
        /\ DOMAIN orders' \subseteq DOMAIN orders' \cup Dealt(deals', Len(undo'.deals))
    BY <1>1, <1>4
  <1> QED BY <1>1, <1>2, <1>5, <1>6, <1>7, <1>8, <1>9 DEF Follows

(* A round goes on from where the transaction was. *)
LEMMA RoundFollows ==
    ASSUME IsFiniteSet(Users), TypeInv, TypeInv', phase = "matching", Round,
           NEW w, NEW os, Follows(w, os)
    PROVE  Follows(w, os)'
  <1> DEFINE last == Len(undo.deals)
  <1>1. /\ InLoop /\ RoundPasses(Deal) /\ deals' = Append(deals, Deal)
        /\ undo' = undo /\ orderId' = orderId
    BY DEF Round
  <1>2. /\ Deal \in DealType /\ Deal.buy = buyIt.id /\ Deal.sell = sellIt.id
    BY <1>1, RoundAmounts
  <1>3. /\ deals \in Seq(DealType) /\ wallet \in Balances /\ rewards \in Balances
        /\ undo.deals \in Seq(DealType) /\ undo.rewards \in Balances
        /\ wallet' \in Balances /\ rewards' \in Balances
    BY DEF TypeInv, TypeOK, UndoTypeOK
  <1>4. last \in Nat /\ Len(deals) \in Nat /\ last <= Len(deals)
    BY <1>3 DEF Follows
  <1>5. /\ Len(deals') = Len(deals) + 1
        /\ \A n \in 1 .. Len(deals) : deals'[n] = deals[n]
    BY <1>1, <1>2, <1>3, AppendDeal
  <1>6. /\ Dealt(deals', last) = Dealt(deals, last) \cup {buyIt.id, sellIt.id}
        /\ \A i : /\ Gave(deals, last, i) \in Nat
                  /\ Gave(deals', last, i) = Gave(deals, last, i) + Gives(Deal, i)
    BY <1>1, <1>2, <1>3, <1>4, GaveMore, ZenonT(40)
  <1>7. /\ w \in Balances /\ IsTable(os, 1 .. orderId', OrderType)
        /\ Backed(os, undo'.rewards, w)
    BY <1>1 DEF Follows
  <1>8. Len(undo'.deals) <= Len(deals') /\ \A n \in 1 .. last : deals'[n] = undo'.deals[n]
    BY <1>1, <1>4, <1>5 DEF Follows
  <1>9. /\ DOMAIN orders' \subseteq DOMAIN orders
        /\ DOMAIN orders \ {buyIt.id, sellIt.id} \subseteq DOMAIN orders'
        /\ buyIt.id \in DOMAIN orders /\ sellIt.id \in DOMAIN orders
    <2>1. buyIt.id \in DOMAIN orders /\ sellIt.id \in DOMAIN orders
      BY <1>1, RoundOrders DEF Book
    <2>2. \E gone \in SUBSET {buyIt.id, sellIt.id} :
             orders' = Restrict(orders, DOMAIN orders \ gone)
      BY DEF Round
    <2>3. \E gone \in SUBSET {buyIt.id, sellIt.id} : DOMAIN orders' = DOMAIN orders \ gone
      BY <2>2 DEF Restrict
    <2> QED BY <2>1, <2>3
  <1>10. /\ DOMAIN orders' \cup Dealt(deals', last) \subseteq DOMAIN os
         /\ DOMAIN os \subseteq DOMAIN orders' \cup Dealt(deals', last)
    BY <1>6, <1>9 DEF Follows
  <1>11. ASSUME NEW i \in DOMAIN orders'
         PROVE  /\ orders'[i].owner = os[i].owner /\ orders'[i].token = os[i].token
                /\ Remainder(os[i]) = Held(i)' + Gave(deals', last, i)
    <2>1. i \in DOMAIN orders /\ orders'[i] = orders[i]
      BY RoundFill
    <2>2. Held(i) \in Int /\ Held(i)' = Held(i) - Gives(Deal, i)
      BY RoundTakes
    <2>3. Gives(Deal, i) \in Nat
      BY <1>2, GivesIsNat
    <2>4. /\ orders[i].owner = os[i].owner /\ orders[i].token = os[i].token
          /\ Remainder(os[i]) = Held(i) + Gave(deals, last, i)
      BY <2>1 DEF Follows
    <2> QED BY <1>6, <2>1, <2>2, <2>3, <2>4
  <1>12. ASSUME NEW t \in Tokens
         PROVE  /\ OwedOf(wallet', t) = OwedOf(w, t)
                /\ \A a \in Accounts \ {Dex} : wallet'[a][t] >= w[a][t]
                /\ \A a \in Accounts : rewards'[a][t] >= undo.rewards[a][t]
    <2>1. /\ OwedOf(wallet', t) = OwedOf(wallet, t)
          /\ \A a \in Accounts \ {Dex} : wallet'[a][t] >= wallet[a][t]
          /\ \A a \in Accounts : rewards'[a][t] >= rewards[a][t]
      BY RoundPaysOut
    <2>2. /\ OwedOf(wallet, t) = OwedOf(w, t)
          /\ \A a \in Accounts \ {Dex} : wallet[a][t] >= w[a][t]
          /\ \A a \in Accounts : rewards[a][t] >= undo.rewards[a][t]
      BY DEF Follows
    <2>3. \A a \in Accounts : /\ wallet'[a][t] \in Int /\ wallet[a][t] \in Int
                              /\ w[a][t] \in Int /\ rewards'[a][t] \in Int
                              /\ rewards[a][t] \in Int /\ undo.rewards[a][t] \in Int
      BY <1>3, <1>7 DEF Balances
    <2> QED BY <2>1, <2>2, <2>3
  <1> QED BY <1>1, <1>7, <1>8, <1>10, <1>11, <1>12 DEF Follows

-----------------------------------------------------------------------------
(***************************************************************************)
(* The refinement.  The ledger moves when a transaction ends: while the    *)
(* loop runs, it has what an abort would go back to.                       *)
(***************************************************************************)
LEMMA SameLedgerSums ==
    ASSUME NEW f, NEW S
    PROVE  Ledger!SumFunctionOnSet(f, S) = SumFunctionOnSet(f, S)
  BY DEF SumFunctionOnSet, FoldFunctionOnSet, MapThenFoldSet, Ledger!SumFunctionOnSet,
         Ledger!FoldFunctionOnSet, Ledger!MapThenFoldSet

(* Where the contract has what it owes, the ledger has all that there is:  *)
(* what the contract holds belongs to the orders and the rewards.          *)
LEMMA LedgerTotal ==
    ASSUME IsFiniteSet(Users), NEW w \in Balances, NEW rw \in Balances,
           NEW os, NEW n \in Nat, IsTable(os, 1 .. n, OrderType),
           Backed(os, rw, w), NEW t \in Tokens
    PROVE  Ledger!Total(Free(w, rw), Open(os), t) = OwedOf(w, t)
  <1> DEFINE f == [a \in Accounts |-> Free(w, rw)[a][t]]
             g == [a \in Accounts |-> w[a][t]]
             z == [a \in Accounts |-> IF a = Dex THEN 0 ELSE w[a][t]]
             r == [a \in Accounts |-> rw[a][t]]
             b == [i \in DOMAIN Open(os) |->
                      IF Open(os)[i].token = t THEN Open(os)[i].amount ELSE 0]
             p == RowParts(os, t)
  <1>1. Ledger!Total(Free(w, rw), Open(os), t)
           = SumFunctionOnSet(f, Accounts) + SumFunctionOnSet(b, DOMAIN Open(os))
    BY SameLedgerSums DEF Ledger!Total
  <1>2. b = p /\ DOMAIN Open(os) = DOMAIN os
    BY DEF Open, RowParts, Part, Remainder
  <1>3. Dex \in Accounts /\ IsFiniteSet(Accounts)
    BY AccountsAreFinite DEF Accounts
  <1>4. /\ \A a \in Accounts : /\ g[a] \in Int /\ r[a] \in Int /\ z[a] \in Int
                               /\ f[a] = r[a] + z[a]
        /\ \A a \in Accounts \ {Dex} : z[a] = g[a]
        /\ g[Dex] = w[Dex][t] /\ z[Dex] = 0
    BY <1>3 DEF Balances, Free
  <1>5. SumFunctionOnSet(p, DOMAIN os) \in Int
    BY RowPartsType, SumIsInt
  <1>6. w[Dex][t] = SumFunctionOnSet(p, DOMAIN os) + OwedOf(rw, t)
    BY DEF Backed
  <1>7. OwedOf(rw, t) = SumFunctionOnSet(r, Accounts) /\ OwedOf(w, t) = SumFunctionOnSet(g, Accounts)
    BY DEF OwedOf
  <1> HIDE DEF f, g, z, r, b, p
  <1>8. SumFunctionOnSet(f, Accounts) = SumFunctionOnSet(r, Accounts) + SumFunctionOnSet(z, Accounts)
    BY <1>3, <1>4, SumPlus
  <1>9. SumFunctionOnSet(z, Accounts) = SumFunctionOnSet(g, Accounts) + (z[Dex] - g[Dex])
    <2>1. \A a \in Accounts : g[a] \in Int /\ z[a] \in Int
      BY <1>4
    <2>2. \A a \in Accounts \ {Dex} : z[a] = g[a]
      BY <1>4
    <2> DEFINE d == Dex
    <2>3. d \in Accounts /\ IsFiniteSet(Accounts) /\ \A a \in Accounts \ {d} : z[a] = g[a]
      BY <1>3, <2>2
    <2> HIDE DEF d
    <2>4. SumFunctionOnSet(z, Accounts) = SumFunctionOnSet(g, Accounts) + (z[d] - g[d])
      BY <2>1, <2>3, SumUpdate
    <2> QED BY <2>4 DEF d
  <1>10. SumFunctionOnSet(r, Accounts) \in Int /\ SumFunctionOnSet(g, Accounts) \in Int
    BY <1>3, <1>4, SumIsInt
  <1> QED BY <1>1, <1>2, <1>4, <1>5, <1>6, <1>7, <1>8, <1>9, <1>10

(* What the ledger sees of the deals when the transaction ends. *)
LEMMA LedgerTrades ==
    ASSUME phase = "matching", phase' = "idle", deals' = deals
    PROVE  /\ Ledger!Traded = Dealt(deals, Len(undo.deals))
           /\ \A i : Ledger!Given(i) = Gave(deals, Len(undo.deals), i)
  <1>1. Ledger!NewTrades = Len(undo.deals) + 1 .. Len(deals)
    BY DEF Ledger!NewTrades, Idle
  <1>2. Ledger!Traded = Dealt(deals, Len(undo.deals))
    BY <1>1 DEF Ledger!Traded, Dealt, Idle
  <1>3. ASSUME NEW i PROVE Ledger!Given(i) = Gave(deals, Len(undo.deals), i)
    <2> DEFINE S == Len(undo.deals) + 1 .. Len(deals)
               f == [n \in S |-> (IF deals[n].buy = i THEN deals[n].coin ELSE 0)
                                 + (IF deals[n].sell = i THEN deals[n].asset ELSE 0)]
    <2>1. Ledger!Given(i) = Ledger!SumFunctionOnSet(f, S)
      BY <1>1 DEF Ledger!Given, Idle
    <2>2. Gave(deals, Len(undo.deals), i) = SumFunctionOnSet(f, S)
      BY DEF Gave, Gives
    <2> QED BY <2>1, <2>2, SameLedgerSums
  <1> QED BY <1>2, <1>3

(* The end of a transaction, seen from the ledger: its deals are settled. *)
LEMMA FinishSettles ==
    ASSUME IsFiniteSet(Users), TypeInv, LimitInv, SolventInv, phase = "matching", Finish,
           NEW w, NEW os, Follows(w, os)
    PROVE  Ledger!Settle(Free(w, undo.rewards), Open(os))
  <1> DEFINE last == Len(undo.deals)
             cash == Free(w, undo.rewards)
             book == Open(os)
             now  == Open(orders')
             paid == Free(wallet, rewards)
  <1>1. /\ phase' = "idle" /\ deals' = deals /\ rewards' = rewards /\ wallet' = wallet
        /\ orderId' = orderId
    BY DEF Finish, EndTransaction, money
  <1>2. /\ IsTable(orders', 1 .. orderId, OrderType) /\ DOMAIN orders' = DOMAIN orders
        /\ \A i \in DOMAIN orders :
              /\ orders'[i].owner = orders[i].owner /\ orders'[i].token = orders[i].token
              /\ Remainder(orders'[i]) = Held(i)
    BY FinishOrders DEF Remainder, Held
  <1>3. /\ wallet \in Balances /\ rewards \in Balances /\ undo.rewards \in Balances
        /\ undo.deals \in Seq(DealType) /\ deals \in Seq(DealType) /\ orderId \in Nat
    BY BoundsAssumption DEF TypeInv, TypeOK, UndoTypeOK
  <1>4. w \in Balances /\ IsTable(os, 1 .. orderId, OrderType) /\ Backed(os, undo.rewards, w)
    BY DEF Follows
  <1>5. Ledger!Traded = Dealt(deals, last) /\ \A i : Ledger!Given(i) = Gave(deals, last, i)
    BY <1>1, LedgerTrades
  <1>6. /\ DOMAIN book \ Dealt(deals, last) \subseteq DOMAIN now
        /\ Dealt(deals, last) \cup DOMAIN now \subseteq DOMAIN book
    BY <1>2 DEF Follows, Open
  <1>7. \A n \in DOMAIN undo.deals : n \in DOMAIN deals /\ deals[n] = undo.deals[n]
    <2>1. DOMAIN undo.deals = 1 .. last /\ DOMAIN deals = 1 .. Len(deals)
          /\ last \in Nat /\ Len(deals) \in Nat
      BY <1>3
    <2>2. last <= Len(deals) /\ \A n \in 1 .. last : deals[n] = undo.deals[n]
      BY DEF Follows
    <2> QED BY <2>1, <2>2
  <1>8. ASSUME NEW i \in DOMAIN now
        PROVE  /\ now[i] = [book[i] EXCEPT !.amount = @ - Gave(deals, last, i)]
               /\ now[i].amount >= 0
    <2>1. i \in DOMAIN orders /\ i \in DOMAIN orders' /\ i \in DOMAIN os
      BY <1>2 DEF Open, Follows
    <2>2. /\ orders[i].owner = os[i].owner /\ orders[i].token = os[i].token
          /\ Remainder(os[i]) = Held(i) + Gave(deals, last, i)
      BY <2>1 DEF Follows
    <2>3. now[i] = [owner |-> os[i].owner, token |-> os[i].token, amount |-> Held(i)]
      BY <1>2, <2>1, <2>2 DEF Open
    <2>4. book[i] = [owner |-> os[i].owner, token |-> os[i].token,
                     amount |-> Remainder(os[i])]
      BY <2>1 DEF Open
    <2>5. Held(i) \in Int /\ Held(i) >= 0
      <3>1. orders'[i] \in QueuedType
        BY <1>2, <2>1 DEF IsTable, OrderType
      <3>2. Held(i) \in Int
        BY <1>2, <2>1, <3>1, RemainderIsInt
      <3>3. Within(orders[i], Fill(i))
        BY <2>1 DEF LimitInv, RowsWithin, Fill, TypeInv, TypeOK, IsTable
      <3>4. orders[i] \in QueuedType
        BY <2>1 DEF TypeInv, TypeOK, IsTable, OrderType
      <3>5. Fill(i).matched_asset \in Nat /\ Fill(i).matched_coin \in Nat
        BY <3>4 DEF Fill, TypeInv, TypeOK, ItType, QueuedType
      <3>6. orders[i].total \in Int /\ orders[i].frozen \in Int
        BY <3>4 DEF QueuedType
      <3> QED BY <3>2, <3>3, <3>5, <3>6 DEF Within, Whole, Held
    <2>6. Gave(deals, last, i) \in Int
      <3>1. last \in Nat /\ last <= Len(deals)
        BY <1>3 DEF Follows
      <3>2. \A d \in DealType : Gave(deals, last, i) \in Nat
        BY <1>3, <3>1, GaveMore
      <3>3. [pair |-> 0, buy |-> 0, sell |-> 0, price |-> 0, asset |-> 0, coin |-> 0,
             buy_fee |-> 0, sell_fee |-> 0, refund |-> 0] \in DealType
        BY DEF DealType
      <3> QED BY <3>2, <3>3
    <2>7. Held(i) = Remainder(os[i]) - Gave(deals, last, i)
      BY <2>2, <2>5, <2>6
    <2> QED BY <2>3, <2>4, <2>5, <2>7
  <1>9. \A a \in Accounts, t \in Tokens : paid[a][t] >= cash[a][t]
    <2> SUFFICES ASSUME NEW a \in Accounts, NEW t \in Tokens PROVE paid[a][t] >= cash[a][t]
      OBVIOUS
    <2>1. rewards[a][t] >= undo.rewards[a][t] /\ (a # Dex => wallet[a][t] >= w[a][t])
      BY DEF Follows
    <2>2. /\ wallet[a][t] \in Int /\ w[a][t] \in Int
          /\ rewards[a][t] \in Int /\ undo.rewards[a][t] \in Int
      BY <1>3, <1>4 DEF Balances
    <2> QED BY <2>1, <2>2 DEF Free
  <1>10. ASSUME NEW t \in Tokens PROVE Ledger!Total(paid, now, t) = Ledger!Total(cash, book, t)
    <2>1. Backed(orders', rewards, wallet)
      <3>1. \A c : RowParts(orders', c) = LiveParts(c) /\ DOMAIN orders' = DOMAIN orders
        BY FinishOrders DEF RowParts, LiveParts, Part
      <3> QED BY <3>1 DEF SolventInv, Backed
    <2>2. Ledger!Total(paid, now, t) = OwedOf(wallet, t)
      BY <1>2, <1>3, <2>1, LedgerTotal
    <2>3. Ledger!Total(cash, book, t) = OwedOf(w, t)
      BY <1>3, <1>4, LedgerTotal
    <2> QED BY <2>2, <2>3 DEF Follows
  <1> HIDE DEF now, paid, cash, book, last
  <1>11. /\ now = (IF Idle THEN Open(orders) ELSE Open(undo.orders))'
         /\ paid = (IF Idle THEN Free(wallet, rewards) ELSE Free(undo.wallet, undo.rewards))'
         /\ deals = (IF Idle THEN deals ELSE undo.deals)'
         /\ undo.deals = IF Idle THEN deals ELSE undo.deals
    BY <1>1 DEF Idle, now, paid, Free, Open
  <1>12. Ledger!Settle(cash, book)
    BY <1>5, <1>6, <1>7, <1>8, <1>9, <1>10, <1>11 DEF Ledger!Settle, last
  <1> QED BY <1>12 DEF cash, book

(* The loop goes on. *)
LEMMA LoopLedgerInv ==
    ASSUME LedgerInv, phase = "matching",
           UNCHANGED <<undo, orderId>>, txn'.action = txn.action,
           \A w, os : Follows(w, os) => Follows(w, os)'
    PROVE  LedgerInv'
  <1>1. CASE txn.action = "match" /\ Follows(undo.wallet, undo.orders)
    <2>1. PICK w, os : w = undo.wallet /\ os = undo.orders
      OBVIOUS
    <2>2. Follows(w, os)'
      BY <1>1, <2>1
    <2>3. Follows(undo.wallet, undo.orders)'
      BY <2>1, <2>2
    <2> QED BY <1>1, <2>3 DEF LedgerInv
  <1>2. ASSUME orderId = undo.orderId + 1, NEW u \in DOMAIN undo.queue,
               LET o == undo.queue[u]
               IN  /\ o.frozen \in 1 .. undo.wallet[u][o.token]
                   /\ Follows(Pay(undo.wallet, u, Dex, o.token, o.frozen),
                              Put(undo.orders, orderId, o))
        PROVE  LedgerInv'
    <2> DEFINE o == undo.queue[u]
    <2>1. PICK w, os : /\ w = Pay(undo.wallet, u, Dex, o.token, o.frozen)
                       /\ os = Put(undo.orders, orderId, o)
      OBVIOUS
    <2>2. Follows(w, os)'
      BY <1>2, <2>1
    <2>3. Follows(Pay(undo.wallet, u, Dex, o.token, o.frozen),
                              Put(undo.orders, orderId, o))'
      BY <2>1, <2>2
    <2> QED BY <1>2, <2>3 DEF LedgerInv
  <1> QED BY <1>1, <1>2 DEF LedgerInv

LEMMA NextLedgerInv ==
    ASSUME IsFiniteSet(Users), TypeInv, TypeInv', SolventInv', LedgerInv, [Next]_vars
    PROVE  LedgerInv'
  <1>1. ASSUME phase' = "idle" PROVE LedgerInv'
    BY <1>1 DEF LedgerInv
  <1>2. CASE Administer \/ Leave
    BY <1>1, <1>2 DEF Administer, InitDex, SetConfig, SetSymPair, OnOffSymPair, DelSymPair,
                      Leave, Cancel, Withdraw, Idle, loop
  <1>3. CASE Place
    <2>1. ASSUME NEW r, NEW signers, CreateOrder(r, signers) PROVE LedgerInv'
      BY <1>1, <2>1 DEF CreateOrder, Idle, loop
    <2>2. ASSUME NEW u, DelQueueOrd(u) PROVE LedgerInv'
      BY <1>1, <2>2 DEF DelQueueOrd, Idle, loop
    <2>3. ASSUME NEW u \in Users, NEW t \in Tokens, NEW q \in 1 .. wallet[u][t],
                 OnTransfer(u, t, q)
          PROVE  LedgerInv'
      <3> DEFINE order == queue[u]
      <3>1. /\ Idle /\ u \in DOMAIN queue /\ orderId < MaxOrders
            /\ t = order.token /\ q = order.frozen
            /\ orderId' = NewId(orderId)
            /\ orders' = Put(orders, orderId', order)
            /\ wallet' = Pay(wallet, u, Dex, t, q)
            /\ BeginMatching("ontransfer", order.pair, config.max_match_count, orders')
            /\ deals' = deals /\ rewards' = rewards
        BY <2>3 DEF OnTransfer
      <3>2. orderId' = orderId + 1
        BY <3>1, BoundsAssumption DEF TypeInv, TypeOK, NewId
      <3>3. undo'.queue = queue /\ undo'.orders = orders /\ undo'.orderId = orderId
            /\ undo'.wallet = wallet
        BY <3>1 DEF BeginMatching
      <3>4. PICK w, os : w = wallet' /\ os = orders'
        OBVIOUS
      <3>5. Follows(w, os)'
        BY <3>1, <3>4, BeginFollows
      <3>6. /\ w = Pay(undo'.wallet, u, Dex, undo'.queue[u].token, undo'.queue[u].frozen)
            /\ os = Put(undo'.orders, orderId', undo'.queue[u])
        BY <3>1, <3>3, <3>4
      <3>7. orderId' = undo'.orderId + 1 /\ u \in DOMAIN undo'.queue
            /\ undo'.queue[u].frozen \in 1 .. undo'.wallet[u][undo'.queue[u].token]
        BY <3>1, <3>2, <3>3
      <3>8. Follows(Pay(undo.wallet, u, Dex, undo.queue[u].token, undo.queue[u].frozen),
                    Put(undo.orders, orderId, undo.queue[u]))'
        BY <3>5, <3>6
      <3> QED BY <3>7, <3>8 DEF LedgerInv
    <2> QED BY <1>3, <2>1, <2>2, <2>3 DEF Place, NewOrder, Buy, Sell
  <1>4. CASE MatchAny
    <2>1. PICK p \in DOMAIN sympair, n \in MatchCounts : Match(p, n)
      BY <1>4 DEF MatchAny
    <2>2. /\ BeginMatching("match", p, n, orders') /\ orders' = orders /\ wallet' = wallet
          /\ deals' = deals /\ rewards' = rewards
      BY <2>1 DEF Match, books, money
    <2>3. undo'.orders = orders' /\ undo'.wallet = wallet' /\ txn'.action = "match"
      BY <2>2 DEF BeginMatching
    <2>4. PICK w, os : w = wallet' /\ os = orders'
      OBVIOUS
    <2>5. Follows(w, os)'
      BY <2>2, <2>4, BeginFollows
    <2>6. Follows(undo.wallet, undo.orders)'
      BY <2>3, <2>4, <2>5
    <2> QED BY <2>3, <2>6 DEF LedgerInv
  <1>5. CASE Round
    <2>1. phase = "matching" /\ UNCHANGED <<undo, orderId>>
      BY <1>5 DEF Round
    <2>2. txn'.action = txn.action
      BY <1>5 DEF Round, TypeInv, TypeOK, TxnType
    <2>3. \A w, os : Follows(w, os) => Follows(w, os)'
      BY <1>5, <2>1, RoundFollows
    <2> QED BY <2>1, <2>2, <2>3, LoopLedgerInv
  <1>6. CASE Finish \/ Abort
    BY <1>1, <1>6 DEF Finish, Abort, EndTransaction
  <1>7. CASE UNCHANGED vars
    <2>1. UNCHANGED <<phase, undo, orderId, txn, orders, deals, wallet, rewards, buyIt, sellIt>>
      BY <1>7 DEF vars, books, money, loop
    <2>2. CASE phase = "matching"
      <3>1. \A i : Held(i)' = Held(i)
        BY <2>1 DEF Held, Fill
      <3>2. \A w, os : Follows(w, os) => Follows(w, os)'
        BY <2>1, <3>1 DEF Follows
      <3> QED BY <2>1, <2>2, <3>2, LoopLedgerInv
    <2>3. CASE phase # "matching"
      BY <2>1, <2>3 DEF LedgerInv
    <2> QED BY <2>2, <2>3
  <1> QED BY <1>2, <1>3, <1>4, <1>5, <1>6, <1>7 DEF Next

LEMMA LedgerInvInvariant ==
    ASSUME FitSetting
    PROVE  Spec => []LedgerInv
  <1>1. Init => LedgerInv
    BY DEF Init, LedgerInv
  <1>2. TypeInv /\ TypeInv' /\ SolventInv' /\ LedgerInv /\ [Next]_vars => LedgerInv'
    BY NextLedgerInv DEF FitSetting
  <1> QED BY <1>1, <1>2, TypeInvInvariant, SolventInvInvariant, PTL DEF Spec

(* A payment to the contract takes it from what the payer can dispose of,  *)
(* a payment by the contract adds it.                                      *)
Less(cash, a, t, amount) == [cash EXCEPT ![a][t] = @ - amount]
More(cash, a, t, amount) == [cash EXCEPT ![a][t] = @ + amount]

LEMMA FreePaid ==
    ASSUME NEW w \in Balances, NEW rw \in Balances, NEW a \in Accounts, a # Dex,
           NEW t \in Tokens, NEW amount \in Int
    PROVE  /\ Free(Pay(w, a, Dex, t, amount), rw) = Less(Free(w, rw), a, t, amount)
           /\ Free(Pay(w, Dex, a, t, amount), rw) = More(Free(w, rw), a, t, amount)
  <1> DEFINE f == Free(w, rw)
             g(b, c) == rw[b][c] + (IF b = Dex THEN 0 ELSE w[b][c])
  <1>1. Dex \in Accounts
    BY DEF Accounts
  <1>2. \A b \in Accounts, c \in Tokens : w[b][c] \in Int /\ rw[b][c] \in Int
    BY DEF Balances
  <1>3. \A b \in Accounts, c \in Tokens :
           /\ Pay(w, a, Dex, t, amount)[b][c]
                 = IF c # t THEN w[b][c]
                   ELSE IF b = a THEN w[b][c] - amount
                   ELSE IF b = Dex THEN w[b][c] + amount ELSE w[b][c]
           /\ Pay(w, Dex, a, t, amount)[b][c]
                 = IF c # t THEN w[b][c]
                   ELSE IF b = Dex THEN w[b][c] - amount
                   ELSE IF b = a THEN w[b][c] + amount ELSE w[b][c]
    BY <1>1, PayMoves
  <1>4. ASSUME NEW v \in Int
        PROVE  [f EXCEPT ![a][t] = v]
                  = [b \in Accounts |-> [c \in Tokens |->
                        IF b = a /\ c = t THEN v ELSE g(b, c)]]
    <2>1. \A b \in Accounts : f[b] = [c \in Tokens |-> g(b, c)]
      BY DEF Free
    <2>2. DOMAIN f = Accounts /\ f = [b \in Accounts |-> f[b]]
      BY DEF Free
    <2>3. [f[a] EXCEPT ![t] = v] = [c \in Tokens |-> IF c = t THEN v ELSE g(a, c)]
      BY <2>1
    <2>4. \A b \in Accounts \ {a} :
             f[b] = [c \in Tokens |-> IF b = a /\ c = t THEN v ELSE g(b, c)]
      BY <2>1
    <2> HIDE DEF f, g
    <2>5. [f EXCEPT ![a][t] = v] = [b \in Accounts |-> IF b = a THEN [f[a] EXCEPT ![t] = v] ELSE f[b]]
      BY <2>2
    <2> QED BY <2>3, <2>4, <2>5
  <1>5. /\ Free(Pay(w, a, Dex, t, amount), rw)
             = [b \in Accounts |-> [c \in Tokens |->
                   IF b = a /\ c = t THEN g(a, t) - amount ELSE g(b, c)]]
        /\ Free(Pay(w, Dex, a, t, amount), rw)
             = [b \in Accounts |-> [c \in Tokens |->
                   IF b = a /\ c = t THEN g(a, t) + amount ELSE g(b, c)]]
    BY <1>2, <1>3 DEF Free
  <1>6. g(a, t) \in Int /\ f[a][t] = g(a, t)
    BY <1>2 DEF Free
  <1> HIDE DEF f, g
  <1>7. /\ Less(f, a, t, amount) = [f EXCEPT ![a][t] = g(a, t) - amount]
        /\ More(f, a, t, amount) = [f EXCEPT ![a][t] = g(a, t) + amount]
    BY <1>6 DEF Less, More
  <1>8. g(a, t) - amount \in Int /\ g(a, t) + amount \in Int
    BY <1>6
  <1> QED BY <1>4, <1>5, <1>7, <1>8 DEF f

(* A new order is in the ledger with all that was paid for it. *)
Booked(book, id, row) ==
    Put(book, id, [owner |-> row.owner, token |-> row.token, amount |-> row.frozen])

LEMMA OpenPut ==
    ASSUME NEW os, NEW id, NEW row \in QueuedType, Blank(row)
    PROVE  Open(Put(os, id, row)) = Booked(Open(os), id, row)
  <1>1. Remainder(row) = row.frozen
    BY DEF Remainder, Blank, SameFill, NoIt, QueuedType
  <1> QED BY <1>1 DEF Open, Put, Booked

(* It is a step of the ledger: a new order is placed and may trade, or the *)
(* orders that there are trade, or nothing happens at all.                 *)
LEMMA FinishTrades ==
    ASSUME IsFiniteSet(Users), TypeInv, LimitInv, DealsInv, LoopInv, SolventInv, ValueInv,
           LedgerInv, phase = "matching", Finish
    PROVE  Ledger!Next
  <1>1. /\ phase' = "idle" /\ deals' = deals /\ orderId' = orderId
        /\ txn.action = "match" => txn.count > 0
    BY DEF Finish, EndTransaction, money
  <1>2. /\ ~Idle /\ Idle'
    BY <1>1 DEF Idle
  <1>3. /\ undo.wallet \in Balances /\ undo.rewards \in Balances
        /\ undo.deals \in Seq(DealType) /\ deals \in Seq(DealType)
        /\ IsTable(undo.queue, Users, QueuedType)
        /\ IsTable(undo.orders, 1 .. undo.orderId, OrderType)
        /\ orderId \in 0 .. MaxOrders /\ undo.orderId \in 0 .. MaxOrders
        /\ MaxOrders \in Nat /\ txn.count \in Nat
    BY BoundsAssumption DEF TypeInv, TypeOK, UndoTypeOK, TxnType
  <1>4. CASE txn.action = "match" /\ Follows(undo.wallet, undo.orders)
    <2>1. Ledger!Settle(Free(undo.wallet, undo.rewards), Open(undo.orders))
      BY <1>4, FinishSettles
    <2>2. deals # undo.deals
      <3>1. Len(deals) = Len(undo.deals) + txn.count /\ txn.count > 0 /\ Len(undo.deals) \in Nat
        BY <1>1, <1>3, <1>4 DEF LoopInv
      <3> QED BY <1>3, <3>1
    <2>3. Ledger!Trade
      BY <1>1, <1>2, <2>1, <2>2 DEF Ledger!Trade
    <2> QED BY <2>3 DEF Ledger!Next
  <1>5. ASSUME orderId = undo.orderId + 1, NEW u \in DOMAIN undo.queue,
               LET o == undo.queue[u]
               IN  /\ o.frozen \in 1 .. undo.wallet[u][o.token]
                   /\ Follows(Pay(undo.wallet, u, Dex, o.token, o.frozen),
                              Put(undo.orders, orderId, o))
        PROVE  Ledger!Next
    <2> DEFINE o == undo.queue[u]
               t == o.token
               amount == o.frozen
               w  == Pay(undo.wallet, u, Dex, t, amount)
               os == Put(undo.orders, orderId, o)
               cash == Free(undo.wallet, undo.rewards)
               book == Open(undo.orders)
    <2>1. /\ u \in Users /\ u \in Accounts /\ u # Dex
          /\ o \in QueuedType /\ t \in Tokens /\ amount \in Int
      BY <1>3, AccountsAssumption DEF IsTable, Accounts, QueuedType
    <2>2. Blank(o) /\ o.owner = u
      BY DEF DealsInv, Recorded, ValueInv, Owned
    <2>3. Ledger!Settle(Free(w, undo.rewards), Open(os))
      BY <1>5, FinishSettles
    <2>4. Free(w, undo.rewards) = Less(cash, u, t, amount)
      <3> HIDE DEF t, amount
      <3> QED BY <1>3, <2>1, FreePaid
    <2>5. Open(os) = Booked(book, orderId, o)
      BY <2>1, <2>2, OpenPut
    <2>6. amount \in 1 .. cash[u][t]
      <3>1. undo.wallet[u][t] \in Nat /\ undo.rewards[u][t] \in Nat
        BY <1>3, <2>1 DEF Balances
      <3>2. cash[u][t] = undo.rewards[u][t] + undo.wallet[u][t]
        BY <2>1 DEF Free
      <3>3. amount \in 1 .. undo.wallet[u][t]
        BY <1>5
      <3> QED BY <3>1, <3>2, <3>3
    <2>7. orderId \in 1 .. MaxOrders
      BY <1>3, <1>5
    <2>8. /\ orderId \notin DOMAIN undo.orders
          /\ \A n \in DOMAIN undo.deals : orderId \notin {undo.deals[n].buy, undo.deals[n].sell}
      <3>1. orderId \notin 1 .. undo.orderId
        BY <1>3, <1>5
      <3>2. \A n \in DOMAIN undo.deals : /\ undo.deals[n].buy \in 1 .. undo.orderId
                                         /\ undo.deals[n].sell \in 1 .. undo.orderId
        BY DEF DealsInv, Recorded
      <3> QED BY <1>3, <3>1, <3>2 DEF IsTable
    <2>9. orderId \in DOMAIN orders' \cup Ledger!Traded
      <3>1. Ledger!Traded = Dealt(deals, Len(undo.deals))
        BY <1>1, LedgerTrades
      <3>2. DOMAIN orders' = DOMAIN orders
        BY FinishOrders
      <3>3. orderId \in DOMAIN os
        BY DEF Put
      <3> QED BY <1>5, <3>1, <3>2, <3>3 DEF Follows
    <2> HIDE DEF w, os, cash, book
    <2>10. Ledger!Settle([cash EXCEPT ![u][t] = @ - amount],
                         [k \in DOMAIN book \cup {orderId} |->
                             IF k = orderId THEN [owner |-> u, token |-> t, amount |-> amount]
                                            ELSE book[k]])
      BY <2>2, <2>3, <2>4, <2>5 DEF Less, Booked, Put
    <2> HIDE DEF amount, t
    <2>11. Ledger!IsNew(orderId)
      BY <1>2, <2>8 DEF Ledger!IsNew, Open
    <2>12. /\ cash = IF Idle THEN Free(wallet, rewards) ELSE Free(undo.wallet, undo.rewards)
           /\ book = IF Idle THEN Open(orders) ELSE Open(undo.orders)
           /\ DOMAIN orders' = DOMAIN (IF Idle THEN Open(orders) ELSE Open(undo.orders))'
      BY <1>2 DEF cash, book, Open
    <2>13. Ledger!Place(orderId)
      BY <2>1, <2>6, <2>9, <2>10, <2>11, <2>12 DEF Ledger!Place
    <2> QED BY <2>7, <2>13 DEF Ledger!Next
  <1> QED BY <1>4, <1>5 DEF LedgerInv

(* A cancel gives the order back to its owner. *)
LEMMA CancelLedger ==
    ASSUME TypeInv, NEW i \in DOMAIN orders, NEW u \in Users,
           Cancel(u, orders[i].pair, orders[i].side, i)
    PROVE  Ledger!Next
  <1> DEFINE o == orders[i]
             cash == Free(wallet, rewards)
             book == Open(orders)
  <1>1. /\ Idle /\ Idle' /\ u = o.owner /\ orders' = Delete(orders, i)
        /\ wallet' = Pay(wallet, Dex, u, o.token, Remainder(o))
        /\ rewards' = rewards /\ deals' = deals
    BY DEF Cancel, Idle, loop
  <1>2. /\ wallet \in Balances /\ rewards \in Balances /\ o \in QueuedType
    BY DEF TypeInv, TypeOK, IsTable, OrderType
  <1>3. /\ u \in Accounts /\ u # Dex /\ o.token \in Tokens /\ Remainder(o) \in Int
    BY <1>2, AccountsAssumption, RemainderIsInt DEF Accounts, QueuedType
  <1>4. Free(wallet', rewards') = More(cash, u, o.token, Remainder(o))
    <2>1. Free(Pay(wallet, Dex, u, o.token, Remainder(o)), rewards)
             = More(cash, u, o.token, Remainder(o))
      BY <1>2, <1>3, FreePaid
    <2> QED BY <1>1, <2>1
  <1>5. book[i] = [owner |-> u, token |-> o.token, amount |-> Remainder(o)]
    BY <1>1 DEF Open
  <1>6. Open(orders') = [k \in DOMAIN book \ {i} |-> book[k]]
    BY <1>1 DEF Open, Delete
  <1>7. i \in DOMAIN book
    BY DEF Open
  <1>8. /\ (IF Idle THEN Free(wallet, rewards) ELSE Free(undo.wallet, undo.rewards)) = cash
        /\ (IF Idle THEN Open(orders) ELSE Open(undo.orders)) = book
        /\ (IF Idle THEN Free(wallet, rewards) ELSE Free(undo.wallet, undo.rewards))'
              = Free(wallet', rewards')
        /\ (IF Idle THEN Open(orders) ELSE Open(undo.orders))' = Open(orders')
        /\ (IF Idle THEN deals ELSE undo.deals)' = IF Idle THEN deals ELSE undo.deals
    BY <1>1
  <1> HIDE DEF cash, book
  <1>9. Free(wallet', rewards') = More(cash, book[i].owner, book[i].token, book[i].amount)
    BY <1>4, <1>5
  <1>10. Ledger!Cancel(i)
    <2>1. Free(wallet', rewards')
             = [cash EXCEPT ![book[i].owner][book[i].token] = @ + book[i].amount]
      BY <1>9 DEF More
    <2> QED BY <1>6, <1>8, <2>1 DEF Ledger!Cancel
  <1> QED BY <1>7, <1>8, <1>10 DEF Ledger!Next

(* Rewards that are withdrawn were at the account's disposal before.       *)
LEMMA WithdrawLedger ==
    ASSUME TypeInv, NEW a \in Accounts, NEW t \in Tokens, NEW q \in 1 .. rewards[a][t],
           Withdraw(a, t, q)
    PROVE  UNCHANGED Ledger!vars
  <1>1. /\ Idle /\ Idle' /\ a # Dex /\ orders' = orders /\ deals' = deals
        /\ rewards' = [rewards EXCEPT ![a][t] = @ - q]
        /\ wallet' = Pay(wallet, Dex, a, t, q)
    BY DEF Withdraw, CanPay, Idle, loop, books
  <1>2. wallet \in Balances /\ rewards \in Balances /\ Dex \in Accounts
    BY DEF TypeInv, TypeOK, Accounts
  <1>3. q \in Int
    OBVIOUS
  <1>4. \A b \in Accounts, c \in Tokens :
           /\ wallet'[b][c] = IF c # t THEN wallet[b][c]
                              ELSE IF b = Dex THEN wallet[b][c] - q
                              ELSE IF b = a THEN wallet[b][c] + q ELSE wallet[b][c]
           /\ wallet[b][c] \in Int /\ rewards[b][c] \in Int
    <2>1. \A b \in Accounts, c \in Tokens : wallet[b][c] \in Int /\ rewards[b][c] \in Int
      BY <1>2 DEF Balances
    <2> QED BY <1>1, <1>2, <1>3, <2>1, PayMoves
  <1>5. \A b \in Accounts, c \in Tokens :
           rewards'[b][c] = IF b = a /\ c = t THEN rewards[b][c] - q ELSE rewards[b][c]
    BY <1>1, <1>2 DEF Balances
  <1>6. Free(wallet', rewards') = Free(wallet, rewards)
    BY <1>1, <1>3, <1>4, <1>5 DEF Free
  <1> QED BY <1>1, <1>6 DEF Ledger!vars

(* Every step of the order book is one of the ledger or leaves it as it    *)
(* is.                                                                     *)
LEMMA NextLedger ==
    ASSUME IsFiniteSet(Users), TypeInv, LimitInv, DealsInv, LoopInv, SolventInv, ValueInv,
           LedgerInv, [Next]_vars
    PROVE  [Ledger!Next]_Ledger!vars
  <1>1. ASSUME Idle, Idle', UNCHANGED <<orders, rewards, deals, wallet>>
        PROVE  UNCHANGED Ledger!vars
    BY <1>1 DEF Ledger!vars
  <1>2. ASSUME Idle, NEW action, NEW pair, NEW limit, NEW table,
               BeginMatching(action, pair, limit, table)
        PROVE  UNCHANGED Ledger!vars
    BY <1>2 DEF Ledger!vars, BeginMatching, Idle
  <1>3. CASE Administer
    <2>1. Idle /\ UNCHANGED <<books, money, loop>>
      BY <1>3 DEF Administer, InitDex, SetConfig, SetSymPair, OnOffSymPair, DelSymPair
    <2> QED BY <1>1, <2>1 DEF books, money, loop, Idle
  <1>4. CASE Place
    <2>1. ASSUME NEW r, NEW signers, CreateOrder(r, signers) PROVE UNCHANGED Ledger!vars
      BY <1>1, <2>1 DEF CreateOrder, Idle, loop, money
    <2>2. ASSUME NEW u, DelQueueOrd(u) PROVE UNCHANGED Ledger!vars
      BY <1>1, <2>2 DEF DelQueueOrd, Idle, loop, money
    <2>3. ASSUME NEW u, NEW t, NEW q, OnTransfer(u, t, q) PROVE UNCHANGED Ledger!vars
      BY <1>2, <2>3 DEF OnTransfer
    <2> QED BY <1>4, <2>1, <2>2, <2>3 DEF Place, NewOrder, Buy, Sell
  <1>5. CASE MatchAny
    BY <1>2, <1>5 DEF MatchAny, Match
  <1>6. CASE Leave
    BY <1>6, CancelLedger, WithdrawLedger DEF Leave
  <1>7. CASE Round
    <2>1. ~Idle /\ ~Idle' /\ undo' = undo
      BY <1>7 DEF Round, Idle
    <2> QED BY <2>1 DEF Ledger!vars
  <1>8. CASE Finish
    BY <1>8, FinishTrades DEF Finish
  <1>9. CASE Abort
    <2>1. /\ ~Idle /\ Idle' /\ orders' = undo.orders /\ rewards' = undo.rewards
          /\ deals' = undo.deals /\ wallet' = undo.wallet
      BY <1>9 DEF Abort, EndTransaction, Idle
    <2> QED BY <2>1 DEF Ledger!vars
  <1>10. CASE UNCHANGED vars
    BY <1>10 DEF vars, books, money, loop, Idle, Ledger!vars
  <1> QED BY <1>3, <1>4, <1>5, <1>6, <1>7, <1>8, <1>9, <1>10 DEF Next

LEMMA InitLedger ==
    ASSUME Init
    PROVE  Ledger!Init
  <1>1. /\ Idle /\ orders = EmptyTable /\ deals = <<>>
        /\ rewards = [a \in Accounts |-> [t \in Tokens |-> 0]]
    BY DEF Init, Idle
  <1>2. wallet \in Balances /\ rewards \in Balances
    BY InitTypeInv DEF TypeInv, TypeOK
  <1>3. Free(wallet, rewards) \in [Accounts -> [Tokens -> Nat]]
    BY <1>2 DEF Free, Balances
  <1>4. Open(orders) = [i \in {} |-> 0]
    BY <1>1 DEF Open, EmptyTable
  <1> QED BY <1>1, <1>3, <1>4 DEF Ledger!Init

(* The order book implements the ledger of TradeLedger: money is at its    *)
(* owner's disposal or in his open orders, a transaction takes effect as a *)
(* whole or not at all, whatever rounds it was rolled back after, nobody   *)
(* loses but by the trades of his own orders, and no token is made or lost *)
(* by it.                                                                  *)
THEOREM LedgerIsKept ==
    ASSUME FitSetting
    PROVE  Spec => KeepsLedger
  <1>1. Init => Ledger!Init
    BY InitLedger
  <1>2. TypeInv /\ LimitInv /\ DealsInv /\ LoopInv /\ SolventInv /\ ValueInv /\ LedgerInv
          /\ [Next]_vars => [Ledger!Next]_Ledger!vars
    BY NextLedger DEF FitSetting
  <1> QED BY <1>1, <1>2, TypeInvInvariant, LimitInvInvariant, DealsInvInvariant,
             LoopInvInvariant, SolventInvInvariant, ValueInvInvariant, LedgerInvInvariant, PTL
          DEF Spec, KeepsLedger, Ledger!Spec
=============================================================================
