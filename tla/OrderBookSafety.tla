--------------------------- MODULE OrderBookSafety ---------------------------
(***************************************************************************)
(* Safety of the order book.  In this order:                               *)
(*   - orders stay within their limits, rows name the tokens of their      *)
(*     pair, and no product of a round overflows;                          *)
(*   - the orders' fills are what the deals table says, and an order       *)
(*     leaves the book settled;                                            *)
(*   - the latest price of a pair is the price of its last deal;           *)
(*   - the loop matches the best orders first, and to the end;             *)
(*   - the contract holds exactly what it owes, so orders can be           *)
(*     cancelled;                                                          *)
(*   - only deals change what a user owns.                                 *)
(* All the invariants need the queue and the tables that a rollback        *)
(* restores: a row is queued, then booked, then filled by the iterators,   *)
(* and may come back from `undo'.                                          *)
(***************************************************************************)
EXTENDS OrderBookProofs, SumTheory

-----------------------------------------------------------------------------
(***************************************************************************)
(* Orders stay within their limits.                                        *)
(***************************************************************************)
Whole(row) == row.side # BUY => row.frozen = row.total

Within(row, fill) ==
    /\ fill.matched_asset < row.total
    /\ row.side = BUY => fill.matched_coin <= row.frozen
    /\ fill.matched_fee <= (IF row.side = BUY THEN fill.matched_asset
                                              ELSE fill.matched_coin)
    /\ Whole(row)

(* A queued order: nothing filled, and nothing to pay for nothing. *)
Fresh(row) ==
    /\ row.matched_asset = 0 /\ row.matched_coin = 0 /\ row.matched_fee = 0
    /\ row.frozen > 0 => row.total > 0
    /\ Whole(row)

RowsWithin(q, o) ==
    /\ \A u \in DOMAIN q : Fresh(q[u])
    /\ \A i \in DOMAIN o : Within(o[i], o[i])

LimitInv ==
    /\ RowsWithin(queue, orders)
    /\ phase = "matching" =>
          /\ RowsWithin(undo.queue, undo.orders)
          /\ buyIt.id # 0 => Within(orders[buyIt.id], buyIt)
          /\ sellIt.id # 0 => Within(orders[sellIt.id], sellIt)

LEMMA LimitInvFills ==
    ASSUME TypeInv, LimitInv, NEW i \in DOMAIN orders
    PROVE  Within(orders[i], Fill(i))
  <1>1. 0 \notin DOMAIN orders
    BY DEF TypeInv, TypeOK, IsTable
  <1> QED BY <1>1 DEF LimitInv, RowsWithin, Fill

LEMMA LimitInvLimits ==
    ASSUME TypeInv, LimitInv
    PROVE  WithinLimits
  BY LimitInvFills DEF WithinLimits, Within

(* Between transactions only the tables matter. *)
LEMMA IdleLimitInv ==
    ASSUME phase' = "idle", RowsWithin(queue', orders')
    PROVE  LimitInv'
  BY DEF LimitInv, RowsWithin, Fresh, Within, Whole

LEMMA BeginLimitInv ==
    ASSUME TypeInv, TypeInv', Idle, LimitInv, NEW action, NEW pair, NEW limit,
           BeginMatching(action, pair, limit, orders'), RowsWithin(queue', orders')
    PROVE  LimitInv'
  <1>1. /\ buyIt' = Load(orders', Book(orders', pair, BUY))
        /\ sellIt' = Load(orders', Book(orders', pair, SELL))
        /\ undo'.queue = queue /\ undo'.orders = orders
    BY DEF BeginMatching
  <1>2. IsTable(orders', 1 .. orderId', OrderType) /\ orderId' \in Nat
    BY BoundsAssumption DEF TypeInv, TypeOK
  <1>3. ASSUME NEW side
        PROVE  LET it == Load(orders', Book(orders', pair, side))
               IN  it.id # 0 => Within(orders'[it.id], it)
    <2> DEFINE S  == Book(orders', pair, side)
               it == Load(orders', S)
    <2>1. S \in SUBSET Nat /\ \A i \in S : orders'[i] \in QueuedType
      BY <1>2, BookType
    <2>2. S \subseteq DOMAIN orders'
      BY DEF Book
    <2> HIDE DEF S
    <2>3. CASE S = {}
      <3>1. it = NoIt
        BY <2>1, <2>3, LoadType
      <3>2. NoIt.id = 0
        BY DEF NoIt
      <3> QED BY <3>1, <3>2 DEF S
    <2>4. CASE S # {}
      <3>1. /\ it.id \in S
            /\ it.matched_asset = orders'[it.id].matched_asset
            /\ it.matched_coin = orders'[it.id].matched_coin
            /\ it.matched_fee = orders'[it.id].matched_fee
        BY <2>1, <2>4, LoadType
      <3>2. Within(orders'[it.id], orders'[it.id])
        BY <2>2, <3>1 DEF RowsWithin
      <3> HIDE DEF it
      <3>3. Within(orders'[it.id], it)
        BY <3>1, <3>2 DEF Within
      <3> QED BY <3>3 DEF it, S
    <2> QED BY <2>3, <2>4 DEF S
  <1>4. /\ buyIt'.id # 0 => Within(orders'[buyIt'.id], buyIt')
        /\ sellIt'.id # 0 => Within(orders'[sellIt'.id], sellIt')
    BY <1>1, <1>3
  <1>5. RowsWithin(undo'.queue, undo'.orders)
    BY <1>1 DEF LimitInv
  <1> QED BY <1>4, <1>5 DEF LimitInv, RowsWithin, Fresh, Within, Whole

LEMMA CreateOrderLimitInv ==
    ASSUME TypeInv, LimitInv, NEW r \in Requests, NEW signers, CreateOrder(r, signers)
    PROVE  LimitInv'
  <1>1. r \in RequestType
    BY InputsAssumption
  <1>2. r.total \in Int /\ r.price \in Int /\ r.price \in Nat
    <2>1. r.total \in Int /\ r.price \in Int /\ r.price > 0
      BY <1>1 DEF RequestType, CreateOrder
    <2> QED BY <2>1
  <1>3. Unit[sympair[r.pair].asset] \in Nat \ {0}
    BY TokensAssumption DEF CreateOrder, Tradable, TypeInv, TypeOK, IsTable, PairType
  <1>4. Frozen(r) > 0 => r.total > 0
    <2>1. CASE r.side = BUY
      <3> DEFINE coin == CalcCoin(r.total, r.price, Unit[sympair[r.pair].asset])
      <3>1. coin \in Int
        BY <1>2, <1>3, CoinIsInteger
      <3>2. r.total <= 0 => coin <= 0
        BY <1>2, <1>3, CoinOfNothing
      <3>3. Frozen(r) = coin
        BY <2>1 DEF Frozen
      <3> HIDE DEF coin
      <3> QED BY <1>2, <3>1, <3>2, <3>3
    <2>2. CASE r.side # BUY
      BY <2>2 DEF Frozen
    <2> QED BY <2>1, <2>2
  <1>5. \E row : /\ queue' = Put(queue, r.user, row) /\ row.total = r.total
                 /\ row.frozen = Frozen(r) /\ row.side = r.side
                 /\ row.matched_asset = 0 /\ row.matched_coin = 0
                 /\ row.matched_fee = 0
    BY DEF CreateOrder
  <1>6. orders' = orders /\ phase' = "idle"
    BY DEF CreateOrder, Idle, loop
  <1>7. RowsWithin(queue', orders')
    BY <1>4, <1>5, <1>6 DEF LimitInv, RowsWithin, Fresh, Whole, Frozen, Put
  <1> QED BY <1>6, <1>7, IdleLimitInv

LEMMA OnTransferLimitInv ==
    ASSUME TypeInv, TypeInv', LimitInv, NEW u \in Users, NEW t \in Tokens,
           NEW q \in 1 .. wallet[u][t], OnTransfer(u, t, q)
    PROVE  LimitInv'
  <1> DEFINE order == queue[u]
             id    == NewId(orderId)
  <1>1. /\ Idle /\ u \in DOMAIN queue /\ order.frozen = q
        /\ orders' = Put(orders, id, order) /\ queue' = Delete(queue, u)
        /\ BeginMatching("ontransfer", order.pair, config.max_match_count, orders')
    BY DEF OnTransfer
  <1>2. q > 0
    BY DEF OnTransfer, CanPay
  <1>3. order \in QueuedType /\ Fresh(order)
    BY <1>1 DEF TypeInv, TypeOK, IsTable, LimitInv, RowsWithin
  <1>4. Within(order, order)
    BY <1>1, <1>2, <1>3 DEF Fresh, Within, QueuedType
  <1> HIDE DEF order, id
  <1>5. RowsWithin(queue', orders')
    BY <1>1, <1>4 DEF LimitInv, RowsWithin, Put, Delete
  <1> QED BY <1>1, <1>5, BeginLimitInv

LEMMA RoundLimitInv ==
    ASSUME TypeInv, LimitInv, phase = "matching", Round
    PROVE  LimitInv'
  <1> DEFINE newBuy  == Filled(buyIt, Deal, Deal.buy_fee)
             newSell == Filled(sellIt, Deal, Deal.sell_fee)
             gone == {i \in {buyIt.id, sellIt.id} :
                        Completed(IF i = buyIt.id THEN newBuy ELSE newSell)}
  <1>1. /\ InLoop /\ RoundPasses(Deal)
        /\ UNCHANGED <<queue, phase, undo>>
    BY DEF Round
  <1>2. /\ orders' = Restrict(orders, DOMAIN orders \ gone)
        /\ IF Completed(newBuy) THEN buyIt' = NextOf(orders, buyIt)
                                ELSE buyIt' = newBuy
        /\ IF Completed(newSell) THEN sellIt' = NextOf(orders, sellIt)
                                 ELSE sellIt' = newSell
        /\ OnBook(buyIt, BUY)' /\ OnBook(sellIt, SELL)'
    BY RoundIterators
  <1>3. \A i \in DOMAIN orders' : i \in DOMAIN orders /\ orders'[i] = orders[i]
    BY <1>2 DEF Restrict
  <1>4. /\ buyIt \in ItType /\ sellIt \in ItType
        /\ buyIt.id \in DOMAIN orders /\ sellIt.id \in DOMAIN orders
        /\ orders[buyIt.id] \in QueuedType /\ orders[sellIt.id] \in QueuedType
        /\ orders[buyIt.id].side = BUY /\ orders[sellIt.id].side # BUY
    BY <1>1, RoundOrders DEF Book, BUY, SELL
  <1>5. /\ Deal \in DealType /\ Deal.asset \in Nat /\ Deal.coin \in Nat
        /\ Deal.buy_fee \in Nat /\ Deal.sell_fee \in Nat
        /\ Deal.asset <= FreeAsset(buyIt) /\ Deal.asset <= FreeAsset(sellIt)
        /\ buyIt.matched_coin + Deal.coin <= orders[buyIt.id].frozen
        /\ Deal.buy_fee <= Deal.asset /\ Deal.sell_fee <= Deal.coin
    <2>1. Deal \in DealType
      BY <1>1, RoundAmounts
    <2>2. /\ Deal.asset \in Nat /\ Deal.coin \in Nat
          /\ Deal.buy_fee \in Nat /\ Deal.sell_fee \in Nat
      BY <2>1 DEF DealType
    <2>3. /\ Deal.coin - Deal.sell_fee > 0 /\ Deal.asset - Deal.buy_fee > 0
      BY <1>1 DEF RoundPasses
    <2> QED BY <1>1, <2>1, <2>2, <2>3, RoundAmounts
  <1>6. /\ IsTable(orders, 1 .. orderId, OrderType) /\ orderId \in Nat
        /\ deals \in Seq(DealType)
    BY BoundsAssumption DEF TypeInv, TypeOK
  <1>7. /\ newBuy.id = buyIt.id /\ newSell.id = sellIt.id
        /\ newBuy.matched_asset = buyIt.matched_asset + Deal.asset
        /\ newBuy.matched_coin = buyIt.matched_coin + Deal.coin
        /\ newSell.matched_asset = sellIt.matched_asset + Deal.asset
        /\ newBuy.matched_fee = buyIt.matched_fee + Deal.buy_fee
        /\ newSell.matched_coin = sellIt.matched_coin + Deal.coin
        /\ newSell.matched_fee = sellIt.matched_fee + Deal.sell_fee
    <2> HIDE DEF gone
    <2>0. /\ buyIt \in ItType /\ sellIt \in ItType /\ Deal \in DealType
          /\ Deal.buy_fee \in Nat /\ Deal.sell_fee \in Nat /\ deals \in Seq(DealType)
      BY <1>4, <1>5, <1>6
    <2>1. /\ newBuy.id = buyIt.id
          /\ newBuy.matched_asset = buyIt.matched_asset + Deal.asset
          /\ newBuy.matched_coin = buyIt.matched_coin + Deal.coin
          /\ newBuy.matched_fee = buyIt.matched_fee + Deal.buy_fee
      BY <2>0, FilledType, ZenonT(30)
    <2>2. /\ newSell.id = sellIt.id
          /\ newSell.matched_asset = sellIt.matched_asset + Deal.asset
          /\ newSell.matched_coin = sellIt.matched_coin + Deal.coin
          /\ newSell.matched_fee = sellIt.matched_fee + Deal.sell_fee
      BY <2>0, FilledType, ZenonT(30)
    <2> QED BY <2>1, <2>2
  <1>8. ASSUME NEW it, it.id \in DOMAIN orders,
               LET next == NextOf(orders, it)
               IN  next.id # 0 /\ next.id \in DOMAIN orders'
        PROVE  LET next == NextOf(orders, it) IN Within(orders'[next.id], next)
    <2> DEFINE next == NextOf(orders, it)
    <2>1. next.id # 0 /\ next.id \in DOMAIN orders'
      BY <1>8
    <2>2. /\ next.matched_asset = orders[next.id].matched_asset
          /\ next.matched_coin = orders[next.id].matched_coin
          /\ next.matched_fee = orders[next.id].matched_fee
      BY <1>6, <1>8, <2>1, NextOfType
    <2>3. next.id \in DOMAIN orders /\ orders'[next.id] = orders[next.id]
      BY <1>3, <2>1
    <2> HIDE DEF next
    <2>4. Within(orders[next.id], orders[next.id])
      BY <2>3 DEF LimitInv, RowsWithin
    <2>5. Within(orders'[next.id], next)
      BY <2>2, <2>3, <2>4 DEF Within
    <2> QED BY <2>5 DEF next
  <1>9. buyIt'.id # 0 => buyIt'.id \in DOMAIN orders'
    BY <1>2 DEF OnBook, Book
  <1>10. sellIt'.id # 0 => sellIt'.id \in DOMAIN orders'
    BY <1>2 DEF OnBook, Book
  <1>14. Whole(orders[buyIt.id]) /\ Whole(orders[sellIt.id])
    BY <1>4 DEF LimitInv, RowsWithin, Within
  <1>15. /\ newBuy.matched_fee <= newBuy.matched_asset
         /\ newSell.matched_fee <= newSell.matched_coin
    <2>1. buyIt.matched_fee <= buyIt.matched_asset /\ sellIt.matched_fee <= sellIt.matched_coin
      BY <1>1, <1>4 DEF LimitInv, InLoop, CanMatch, Within
    <2>2. /\ buyIt.matched_fee \in Nat /\ buyIt.matched_asset \in Nat
          /\ sellIt.matched_fee \in Nat /\ sellIt.matched_coin \in Nat
      BY <1>4 DEF ItType
    <2> HIDE DEF newBuy, newSell
    <2> QED BY <1>5, <1>7, <2>1, <2>2
  <1> HIDE DEF newBuy, newSell, gone
  <1>11. buyIt'.id # 0 => Within(orders'[buyIt'.id], buyIt')
    <2>1. CASE Completed(newBuy)
      BY <1>2, <1>4, <1>8, <1>9, <2>1
    <2>2. CASE ~Completed(newBuy)
      <3>1. buyIt' = newBuy /\ newBuy.id = buyIt.id
        BY <1>2, <1>7, <2>2
      <3>2. newBuy.matched_asset # orders[buyIt.id].total
        BY <1>7, <2>2 DEF Completed
      <3>3. orders[buyIt.id].total \in Int /\ buyIt.matched_asset \in Nat
        BY <1>4 DEF QueuedType, ItType
      <3>4. newBuy.matched_asset < orders[buyIt.id].total
        BY <1>5, <1>7, <3>2, <3>3 DEF FreeAsset
      <3>5. Within(orders[buyIt.id], newBuy)
        BY <1>4, <1>5, <1>7, <1>14, <1>15, <3>4 DEF Within
      <3> QED BY <1>3, <1>9, <3>1, <3>5
    <2> QED BY <2>1, <2>2
  <1>12. sellIt'.id # 0 => Within(orders'[sellIt'.id], sellIt')
    <2>1. CASE Completed(newSell)
      BY <1>2, <1>4, <1>8, <1>10, <2>1
    <2>2. CASE ~Completed(newSell)
      <3>1. sellIt' = newSell /\ newSell.id = sellIt.id
        BY <1>2, <1>7, <2>2
      <3>2. newSell.matched_asset # orders[sellIt.id].total
        BY <1>7, <2>2 DEF Completed
      <3>3. orders[sellIt.id].total \in Int /\ sellIt.matched_asset \in Nat
        BY <1>4 DEF QueuedType, ItType
      <3>4. newSell.matched_asset < orders[sellIt.id].total
        BY <1>5, <1>7, <3>2, <3>3 DEF FreeAsset
      <3>5. Within(orders[sellIt.id], newSell)
        BY <1>4, <1>14, <1>15, <3>4 DEF Within
      <3> QED BY <1>3, <1>10, <3>1, <3>5
    <2> QED BY <2>1, <2>2
  <1>13. RowsWithin(queue', orders') /\ RowsWithin(undo'.queue, undo'.orders)
    BY <1>1, <1>3 DEF LimitInv, RowsWithin
  <1> QED BY <1>11, <1>12, <1>13 DEF LimitInv, RowsWithin, Fresh, Within, Whole

LEMMA FinishLimitInv ==
    ASSUME TypeInv, LimitInv, phase = "matching", Finish
    PROVE  LimitInv'
  <1>1. /\ DOMAIN orders' = DOMAIN orders
        /\ \A i \in DOMAIN orders :
             /\ orders'[i].side = orders[i].side /\ orders'[i].total = orders[i].total
             /\ orders'[i].frozen = orders[i].frozen
             /\ orders'[i].matched_asset = Fill(i).matched_asset
             /\ orders'[i].matched_coin = Fill(i).matched_coin
             /\ orders'[i].matched_fee = Fill(i).matched_fee
    BY FinishOrders
  <1>2. \A i \in DOMAIN orders : Within(orders[i], Fill(i))
    BY LimitInvFills
  <1>3. phase' = "idle" /\ queue' = queue
    BY DEF Finish, EndTransaction
  <1>4. RowsWithin(queue', orders')
    BY <1>1, <1>2, <1>3 DEF LimitInv, RowsWithin, Within, Whole
  <1> QED BY <1>3, <1>4, IdleLimitInv

LEMMA NextLimitInv ==
    ASSUME TypeInv, TypeInv', LimitInv, [Next]_vars
    PROVE  LimitInv'
  <1>1. ASSUME Idle, UNCHANGED <<queue, orders, loop>> PROVE LimitInv'
    BY <1>1, IdleLimitInv DEF LimitInv, Idle, loop
  <1>2. CASE Administer
    BY <1>1, <1>2 DEF Administer, InitDex, SetConfig, SetSymPair, OnOffSymPair,
                      DelSymPair, books
  <1>3. CASE Place
    <2>1. ASSUME NEW u \in Users, DelQueueOrd(u) PROVE LimitInv'
      <3>1. phase' = "idle" /\ orders' = orders /\ queue' = Delete(queue, u)
        BY <2>1 DEF DelQueueOrd, Idle, loop
      <3>2. RowsWithin(queue', orders')
        BY <3>1 DEF LimitInv, RowsWithin, Delete
      <3> QED BY <3>1, <3>2, IdleLimitInv
    <2> QED BY <1>3, <2>1, CreateOrderLimitInv, OnTransferLimitInv
            DEF Place, NewOrder, Buy, Sell
  <1>4. CASE MatchAny
    <2>1. PICK p \in DOMAIN sympair, n \in MatchCounts : Match(p, n)
      BY <1>4 DEF MatchAny
    <2>2. Idle /\ queue' = queue /\ orders' = orders
          /\ BeginMatching("match", p, n, orders')
      BY <2>1 DEF Match, books
    <2>3. RowsWithin(queue', orders')
      BY <2>2 DEF LimitInv
    <2> QED BY <2>2, <2>3, BeginLimitInv
  <1>5. CASE Leave
    <2>1. ASSUME NEW i \in DOMAIN orders, NEW u \in Users,
                 Cancel(u, orders[i].pair, orders[i].side, i)
          PROVE  LimitInv'
      <3>1. phase' = "idle" /\ queue' = queue /\ orders' = Delete(orders, i)
        BY <2>1 DEF Cancel, Idle, loop
      <3>2. RowsWithin(queue', orders')
        BY <3>1 DEF LimitInv, RowsWithin, Delete
      <3> QED BY <3>1, <3>2, IdleLimitInv
    <2>2. ASSUME NEW a \in Accounts, NEW t \in Tokens, NEW q \in 1 .. rewards[a][t],
                 Withdraw(a, t, q)
          PROVE  LimitInv'
      BY <1>1, <2>2 DEF Withdraw, books
    <2> QED BY <1>5, <2>1, <2>2 DEF Leave
  <1>6. CASE Round
    BY <1>6, RoundLimitInv DEF Round
  <1>7. CASE Finish
    BY <1>7, FinishLimitInv DEF Finish
  <1>8. CASE Abort
    <2>1. /\ phase = "matching" /\ phase' = "idle"
          /\ queue' = undo.queue /\ orders' = undo.orders
      BY <1>8 DEF Abort, EndTransaction
    <2>2. RowsWithin(queue', orders')
      BY <2>1 DEF LimitInv
    <2> QED BY <2>1, <2>2, IdleLimitInv
  <1>9. CASE UNCHANGED vars
    BY <1>9 DEF LimitInv, RowsWithin, Fresh, Within, Whole, vars, books, loop
  <1> QED BY <1>2, <1>3, <1>4, <1>5, <1>6, <1>7, <1>8, <1>9 DEF Next

LEMMA LimitInvInvariant == Spec => []LimitInv
  <1>1. Init => LimitInv
    BY DEF Init, LimitInv, RowsWithin, EmptyTable
  <1>2. TypeInv /\ TypeInv' /\ LimitInv /\ [Next]_vars => LimitInv'
    BY NextLimitInv
  <1> QED BY <1>1, <1>2, TypeInvInvariant, PTL DEF Spec

(* No order is ever filled beyond its total or, for a buy order, beyond    *)
(* the coins frozen for it, and no completed order stays in the book: in   *)
(* no state of a transaction and after no rollback.                        *)
THEOREM OrdersWithinLimits == Spec => []WithinLimits
  <1>1. TypeInv /\ LimitInv => WithinLimits
    BY LimitInvLimits
  <1> QED BY <1>1, TypeInvInvariant, LimitInvInvariant, PTL

-----------------------------------------------------------------------------
(***************************************************************************)
(* Rows name the tokens of their pair, and the coins of a buy order fit.   *)
(***************************************************************************)
FitsListing(o) ==
    /\ o.pair \in Nat /\ o.pair <= sympairId
    /\ o.pair \in DOMAIN sympair =>
          /\ o.token = IF o.side = BUY THEN sympair[o.pair].coin
                                       ELSE sympair[o.pair].asset
          /\ o.side = BUY => Fits(o.total, o.price, Unit[sympair[o.pair].asset])

RowsFit(q, o) ==
    /\ \A u \in DOMAIN q : FitsListing(q[u])
    /\ \A i \in DOMAIN o : FitsListing(o[i])

ListingInv ==
    /\ RowsFit(queue, orders)
    /\ phase = "matching" => RowsFit(undo.queue, undo.orders)

(* What a step may do to the listing: ids grow, and a pair that is listed  *)
(* after the step was listed before it, or has a new id.                   *)
LEMMA ListingStep ==
    ASSUME TypeInv, [Next]_vars
    PROVE  /\ sympairId' \in Nat /\ sympairId <= sympairId'
           /\ \A p \in DOMAIN sympair' :
                \/ p > sympairId
                \/ /\ p \in DOMAIN sympair
                   /\ sympair'[p].asset = sympair[p].asset
                   /\ sympair'[p].coin = sympair[p].coin
  <1> DEFINE Kept == /\ DOMAIN sympair' \subseteq DOMAIN sympair
                     /\ \A p \in DOMAIN sympair' :
                           /\ sympair'[p].asset = sympair[p].asset
                           /\ sympair'[p].coin = sympair[p].coin
  <1>1. /\ sympairId \in Nat /\ IsTable(sympair, 1 .. sympairId, PairType)
    BY BoundsAssumption DEF TypeInv, TypeOK
  <1>2. ASSUME NEW p \in DOMAIN sympair, NEW row, row.asset = sympair[p].asset,
               row.coin = sympair[p].coin, sympair' = [sympair EXCEPT ![p] = row]
        PROVE  Kept
    BY <1>2
  <1>3. ASSUME NEW p \in DOMAIN sympair, NEW on,
               sympair' = [sympair EXCEPT ![p].enabled = on]
        PROVE  Kept
    <2> DEFINE row == [sympair[p] EXCEPT !.enabled = on]
    <2>1. row.asset = sympair[p].asset /\ row.coin = sympair[p].coin
      BY <1>1 DEF IsTable, PairType
    <2>2. sympair' = [sympair EXCEPT ![p] = row]
      BY <1>3
    <2> HIDE DEF row, Kept
    <2> QED BY <1>2, <2>1, <2>2
  <1>4. CASE \E a, c \in Tokens, on \in BOOLEAN : SetSymPair(a, c, on)
    <2>1. PICK a \in Tokens, c \in Tokens, on \in BOOLEAN : SetSymPair(a, c, on)
      BY <1>4
    <2> DEFINE id == NewId(sympairId)
    <2>2. CASE /\ sympairId < MaxPairs /\ sympairId' = id
               /\ \E row : sympair' = Put(sympair, id, row)
      <3>1. id = sympairId + 1
        BY <1>1, <2>2, BoundsAssumption DEF NewId
      <3> HIDE DEF id
      <3> QED BY <1>1, <2>2, <3>1 DEF Put
    <2>3. CASE \E p \in DOMAIN sympair :
                 sympair' = [sympair EXCEPT ![p].enabled = on] /\ UNCHANGED sympairId
      BY <1>1, <1>3, <2>3
    <2> QED BY <2>1, <2>2, <2>3 DEF SetSymPair
  <1>5. CASE \E p \in DOMAIN sympair, on \in BOOLEAN : OnOffSymPair(p, on)
    BY <1>1, <1>3, <1>5 DEF OnOffSymPair
  <1>6. CASE \E p \in DOMAIN sympair : DelSymPair(p)
    BY <1>1, <1>6 DEF DelSymPair, Delete
  <1>7. CASE Finish
    <2>1. sympairId' = sympairId /\ sympair' = UpdateLatestDealPrice(txn.pair, txn.price)
          /\ txn.pair \in DOMAIN sympair
      BY <1>7 DEF Finish, TypeInv, TypeOK
    <2>2. CASE sympair' = sympair
      BY <1>1, <2>1, <2>2
    <2>3. CASE sympair' = [sympair EXCEPT ![txn.pair].latest = txn.price]
      <3> DEFINE row == [sympair[txn.pair] EXCEPT !.latest = txn.price]
      <3>1. row.asset = sympair[txn.pair].asset /\ row.coin = sympair[txn.pair].coin
        BY <1>1, <2>1 DEF IsTable, PairType
      <3>2. sympair' = [sympair EXCEPT ![txn.pair] = row]
        BY <2>3
      <3> HIDE DEF row
      <3> QED BY <1>1, <1>2, <2>1, <3>1, <3>2
    <2> QED BY <2>1, <2>2, <2>3 DEF UpdateLatestDealPrice
  <1>8. CASE UNCHANGED <<sympair, sympairId>>
    BY <1>1, <1>8
  <1>9. CASE InitDex \/ \E conf \in Configs : SetConfig(conf)
    BY <1>8, <1>9 DEF InitDex, SetConfig
  <1>10. CASE Place \/ MatchAny \/ Leave \/ Round \/ Abort \/ UNCHANGED vars
    <2>1. CASE Place
      <3>1. \A r, signers : CreateOrder(r, signers) => UNCHANGED admin
        BY Zenon DEF CreateOrder
      <3>2. \A u : DelQueueOrd(u) => UNCHANGED admin
        BY Zenon DEF DelQueueOrd
      <3>3. \A u, t, q : OnTransfer(u, t, q) => UNCHANGED admin
        BY Zenon DEF OnTransfer
      <3>4. UNCHANGED admin
        BY <2>1, <3>1, <3>2, <3>3, Zenon DEF Place, NewOrder, Buy, Sell
      <3> QED BY <1>8, <3>4 DEF admin
    <2>2. CASE MatchAny \/ Leave
      BY <1>8, <2>2 DEF MatchAny, Match, Leave, Cancel, Withdraw, admin
    <2>3. CASE Round \/ Abort
      BY <1>8, <2>3 DEF Round, Abort, admin
    <2>4. CASE UNCHANGED vars
      BY <1>8, <2>4 DEF vars, admin
    <2> QED BY <1>10, <2>1, <2>2, <2>3, <2>4
  <1> QED BY <1>4, <1>5, <1>6, <1>7, <1>9, <1>10 DEF Next, Administer

(* FitsListing with the listing after the step. *)
FitsNext(o) ==
    /\ o.pair \in Nat /\ o.pair <= sympairId'
    /\ o.pair \in DOMAIN sympair' =>
          /\ o.token = IF o.side = BUY THEN sympair'[o.pair].coin
                                       ELSE sympair'[o.pair].asset
          /\ o.side = BUY => Fits(o.total, o.price, Unit[sympair'[o.pair].asset])

(* A row that fits the listing before a step fits it after the step. *)
LEMMA FitsStays ==
    ASSUME TypeInv, [Next]_vars, NEW o, NEW n, FitsListing(o),
           n.pair = o.pair, n.side = o.side, n.token = o.token,
           n.price = o.price, n.total = o.total
    PROVE  FitsNext(n)
  <1>1. /\ sympairId' \in Nat /\ sympairId <= sympairId' /\ sympairId \in Nat
        /\ \A p \in DOMAIN sympair' :
             \/ p > sympairId
             \/ /\ p \in DOMAIN sympair
                /\ sympair'[p].asset = sympair[p].asset
                /\ sympair'[p].coin = sympair[p].coin
    BY ListingStep, BoundsAssumption DEF TypeInv, TypeOK
  <1> QED BY <1>1 DEF FitsListing, FitsNext

LEMMA IdleListingInv ==
    ASSUME phase' = "idle",
           \A u \in DOMAIN queue' : FitsNext(queue'[u]),
           \A i \in DOMAIN orders' : FitsNext(orders'[i])
    PROVE  ListingInv'
  BY DEF ListingInv, RowsFit, FitsListing, FitsNext

LEMMA LoopListingInv ==
    ASSUME \A u \in DOMAIN queue' : FitsNext(queue'[u]),
           \A i \in DOMAIN orders' : FitsNext(orders'[i]),
           \A u \in DOMAIN undo'.queue : FitsNext(undo'.queue[u]),
           \A i \in DOMAIN undo'.orders : FitsNext(undo'.orders[i])
    PROVE  ListingInv'
  BY DEF ListingInv, RowsFit, FitsListing, FitsNext

LEMMA NextListingInv ==
    ASSUME TypeInv, TypeInv', ListingInv, [Next]_vars
    PROVE  ListingInv'
  <1>1. /\ \A u \in DOMAIN queue : FitsNext(queue[u])
        /\ \A i \in DOMAIN orders : FitsNext(orders[i])
    BY FitsStays DEF ListingInv, RowsFit
  <1>2. phase = "matching" => /\ \A u \in DOMAIN undo.queue : FitsNext(undo.queue[u])
                              /\ \A i \in DOMAIN undo.orders : FitsNext(undo.orders[i])
    BY FitsStays DEF ListingInv, RowsFit
  <1>3. ASSUME Idle, UNCHANGED <<queue, orders, loop>> PROVE ListingInv'
    BY <1>1, <1>3, IdleListingInv DEF Idle, loop
  <1>4. CASE Administer
    BY <1>3, <1>4 DEF Administer, InitDex, SetConfig, SetSymPair, OnOffSymPair,
                      DelSymPair, books
  <1>5. CASE Place
    <2>1. ASSUME NEW u \in Users, DelQueueOrd(u) PROVE ListingInv'
      <3>1. phase' = "idle" /\ orders' = orders /\ queue' = Delete(queue, u)
        BY <2>1 DEF DelQueueOrd, Idle, loop
      <3>2. \A v \in DOMAIN queue' : FitsNext(queue'[v])
        BY <1>1, <3>1 DEF Delete
      <3> QED BY <1>1, <3>1, <3>2, IdleListingInv
    <2>2. ASSUME NEW r \in Requests, NEW signers, CreateOrder(r, signers)
          PROVE  ListingInv'
      <3>1. /\ phase' = "idle" /\ orders' = orders
            /\ sympair' = sympair /\ sympairId' = sympairId
        BY <2>2 DEF CreateOrder, Idle, loop, admin
      <3>2. PICK row : /\ queue' = Put(queue, r.user, row)
                       /\ row.pair = r.pair /\ row.side = r.side
                       /\ row.price = r.price /\ row.total = r.total
                       /\ row.token = IF r.side = BUY THEN sympair[r.pair].coin
                                                      ELSE sympair[r.pair].asset
        BY <2>2 DEF CreateOrder
      <3>3. r.pair \in DOMAIN sympair /\ r.pair \in 1 .. sympairId /\ sympairId \in Nat
        BY <2>2, BoundsAssumption DEF CreateOrder, Tradable, TypeInv, TypeOK, IsTable
      <3>4. FitsNext(row)
        <4>1. r.side = BUY => Fits(r.total, r.price, Unit[sympair[r.pair].asset])
          BY <2>2 DEF CreateOrder
        <4> QED BY <3>1, <3>2, <3>3, <4>1 DEF FitsNext
      <3>5. \A v \in DOMAIN queue' : FitsNext(queue'[v])
        BY <1>1, <3>2, <3>4 DEF Put
      <3> QED BY <1>1, <3>1, <3>5, IdleListingInv
    <2>3. ASSUME NEW u \in Users, NEW t \in Tokens, NEW q \in 1 .. wallet[u][t],
                 OnTransfer(u, t, q)
          PROVE  ListingInv'
      <3>1. /\ u \in DOMAIN queue /\ queue' = Delete(queue, u)
            /\ \E id : orders' = Put(orders, id, queue[u])
            /\ undo'.queue = queue /\ undo'.orders = orders
        BY <2>3 DEF OnTransfer, BeginMatching
      <3>2. \A v \in DOMAIN queue' : FitsNext(queue'[v])
        BY <1>1, <3>1 DEF Delete
      <3>3. \A i \in DOMAIN orders' : FitsNext(orders'[i])
        BY <1>1, <3>1 DEF Put
      <3> QED BY <1>1, <3>1, <3>2, <3>3, LoopListingInv
    <2> QED BY <1>5, <2>1, <2>2, <2>3 DEF Place, NewOrder, Buy, Sell
  <1>6. CASE MatchAny
    <2>1. queue' = queue /\ orders' = orders /\ undo'.queue = queue /\ undo'.orders = orders
      BY <1>6 DEF MatchAny, Match, BeginMatching, books
    <2> QED BY <1>1, <2>1, LoopListingInv
  <1>7. CASE Leave
    <2>1. ASSUME NEW i \in DOMAIN orders, NEW u \in Users,
                 Cancel(u, orders[i].pair, orders[i].side, i)
          PROVE  ListingInv'
      <3>1. phase' = "idle" /\ queue' = queue /\ orders' = Delete(orders, i)
        BY <2>1 DEF Cancel, Idle, loop
      <3>2. \A j \in DOMAIN orders' : FitsNext(orders'[j])
        BY <1>1, <3>1 DEF Delete
      <3> QED BY <1>1, <3>1, <3>2, IdleListingInv
    <2>2. ASSUME NEW a \in Accounts, NEW t \in Tokens, NEW q \in 1 .. rewards[a][t],
                 Withdraw(a, t, q)
          PROVE  ListingInv'
      BY <1>3, <2>2 DEF Withdraw, books
    <2> QED BY <1>7, <2>1, <2>2 DEF Leave
  <1>8. CASE Round
    <2>1. /\ phase = "matching" /\ queue' = queue /\ undo' = undo
          /\ \E gone : orders' = Restrict(orders, DOMAIN orders \ gone)
      BY <1>8, RoundIterators DEF Round
    <2>2. \A j \in DOMAIN orders' : FitsNext(orders'[j])
      BY <1>1, <2>1 DEF Restrict
    <2> QED BY <1>1, <1>2, <2>1, <2>2, LoopListingInv
  <1>9. CASE Finish
    <2>1. phase = "matching" /\ phase' = "idle" /\ queue' = queue
      BY <1>9 DEF Finish, EndTransaction
    <2>2. /\ DOMAIN orders' = DOMAIN orders
          /\ \A i \in DOMAIN orders :
               /\ orders'[i].pair = orders[i].pair /\ orders'[i].side = orders[i].side
               /\ orders'[i].token = orders[i].token
               /\ orders'[i].price = orders[i].price
               /\ orders'[i].total = orders[i].total
      BY <1>9, <2>1, FinishOrders
    <2>3. \A i \in DOMAIN orders' : FitsNext(orders'[i])
      BY <1>1, <2>2 DEF FitsNext
    <2> QED BY <1>1, <2>1, <2>3, IdleListingInv
  <1>10. CASE Abort
    <2>1. /\ phase = "matching" /\ phase' = "idle"
          /\ queue' = undo.queue /\ orders' = undo.orders
      BY <1>10 DEF Abort, EndTransaction
    <2> QED BY <1>2, <2>1, IdleListingInv
  <1>11. CASE UNCHANGED vars
    BY <1>11 DEF ListingInv, RowsFit, FitsListing, vars, admin, books, loop
  <1> QED BY <1>4, <1>5, <1>6, <1>7, <1>8, <1>9, <1>10, <1>11 DEF Next

LEMMA ListingInvInvariant == Spec => []ListingInv
  <1>1. Init => ListingInv
    BY DEF Init, ListingInv, RowsFit, EmptyTable
  <1>2. TypeInv /\ TypeInv' /\ ListingInv /\ [Next]_vars => ListingInv'
    BY NextListingInv
  <1> QED BY <1>1, <1>2, TypeInvInvariant, PTL DEF Spec

(* A queued or booked order names the token of the pair that is listed     *)
(* under its id, whatever is delisted and listed in between: an id that a  *)
(* row carries is never handed out again, not even when the row comes back *)
(* from a rollback.                                                        *)
THEOREM RowsNameTheirTokens == Spec => []RowsFitListing
  <1>1. ListingInv => RowsFitListing
    BY DEF ListingInv, RowsFit, FitsListing, RowsFitListing
  <1> QED BY <1>1, ListingInvInvariant, PTL

LEMMA ListingInvFits ==
    ASSUME TypeInv, LimitInv, ListingInv
    PROVE  CoinsFit
  <1> SUFFICES ASSUME phase = "matching", InLoop
               PROVE  Fits(Deal.asset, Deal.price, Unit[sympair[txn.pair].asset])
    BY DEF CoinsFit
  <1> DEFINE buy   == orders[buyIt.id]
             sell  == orders[sellIt.id]
             freeB == FreeAsset(buyIt)
             freeS == FreeAsset(sellIt)
             price == orders[MakerId].price
             asset == IF freeB < freeS THEN freeB ELSE freeS
             unit  == Unit[sympair[txn.pair].asset]
  <1>1. Deal.price = price /\ Deal.asset = asset
    BY DEF Deal
  <1>2. /\ buyIt \in ItType /\ sellIt \in ItType
        /\ buyIt.id \in DOMAIN orders /\ buy.pair = txn.pair /\ buy.side = BUY
        /\ buy \in QueuedType /\ sell \in QueuedType
        /\ txn.pair \in DOMAIN sympair /\ sympair[txn.pair] \in PairType
    BY RoundOrders DEF Book
  <1>3. Fits(buy.total, buy.price, unit)
    BY <1>2 DEF ListingInv, RowsFit, FitsListing
  <1>4. /\ buy.total \in Int /\ buy.price \in Nat /\ sell.price \in Nat
        /\ sell.total \in Int
        /\ buyIt.matched_asset \in Nat /\ sellIt.matched_asset \in Nat
    BY <1>2, MaxInt64Assumption DEF QueuedType, ItType
  <1>5. price \in Nat /\ price <= buy.price
    <2>1. buy.price >= sell.price
      BY DEF InLoop, CanMatch
    <2> QED BY <1>4, <2>1 DEF MakerId
  <1>6. unit \in Nat \ {0}
    BY <1>2, TokensAssumption DEF PairType
  <1>7. freeB \in Int /\ freeS \in Int /\ freeB <= buy.total
    BY <1>4 DEF FreeAsset
  <1>8. freeB \in Nat /\ freeS \in Nat
    <2>1. Within(buy, buyIt) /\ Within(sell, sellIt)
      BY DEF LimitInv, InLoop, CanMatch
    <2> QED BY <1>4, <2>1 DEF FreeAsset, Within
  <1> HIDE DEF buy, sell, freeB, freeS, price, unit
  <1>9. asset \in Nat /\ asset <= buy.total /\ buy.total \in Nat
    BY <1>4, <1>7, <1>8
  <1> HIDE DEF asset
  <1> QED BY <1>1, <1>3, <1>4, <1>5, <1>6, <1>9, FitsMonotone DEF unit

(* The coins of a round never overflow, though a sell order is booked      *)
(* without the check of a buy order: the invariant says of every buy order *)
(* in the book that its whole total fits at its own price, and a round     *)
(* takes no more of it, at no higher price.                                *)
THEOREM CoinsNeverOverflow == Spec => []CoinsFit
  <1>1. TypeInv /\ LimitInv /\ ListingInv => CoinsFit
    BY ListingInvFits
  <1> QED BY <1>1, TypeInvInvariant, LimitInvInvariant, ListingInvInvariant, PTL
-----------------------------------------------------------------------------
(***************************************************************************)
(* What the orders say of their fills is what the deals table says.        *)
(***************************************************************************)
LEMMA MaxOfSome ==
    ASSUME NEW n \in Nat, NEW S \in SUBSET (1 .. n), S # {}
    PROVE  Max(S) \in S /\ \A y \in S : Max(S) >= y
  <1> DEFINE T == {k \in Nat : n - k \in S}
  <1>0. \A x \in S : n - x \in T
    OBVIOUS
  <1>1. T \in SUBSET Nat /\ T # {}
    BY <1>0
  <1>2. PICK m \in T : \A k \in T : m <= k
    BY <1>1, NatMin
  <1>3. n - m \in S /\ m \in Nat
    BY <1>2
  <1>4. \A y \in S : n - m >= y
    <2> TAKE y \in S
    <2>1. n - y \in T /\ y \in Nat
      BY <1>0
    <2>2. m <= n - y
      BY <1>2, <2>1
    <2> QED BY <1>3, <2>1, <2>2
  <1> QED BY <1>3, <1>4 DEF Max

(* The latest of a set of deals is the one that was added last. *)
LEMMA MaxOfNext ==
    ASSUME NEW n \in Nat, NEW S \in SUBSET (1 .. n)
    PROVE  Max(S \cup {n + 1}) = n + 1
  <1>1. S \cup {n + 1} \in SUBSET (1 .. (n + 1)) /\ n + 1 \in Nat
    OBVIOUS
  <1> DEFINE max == Max(S \cup {n + 1})
  <1>2. max \in S \cup {n + 1} /\ max >= n + 1
    BY <1>1, MaxOfSome
  <1> HIDE DEF max
  <1>3. max = n + 1
    BY <1>2
  <1> QED BY <1>3 DEF max

LEMMA AppendDeal ==
    ASSUME NEW ds \in Seq(DealType), NEW d \in DealType
    PROVE  /\ Len(ds) \in Nat /\ DOMAIN ds = 1 .. Len(ds)
           /\ Append(ds, d) \in Seq(DealType)
           /\ DOMAIN Append(ds, d) = DOMAIN ds \cup {Len(ds) + 1}
           /\ Len(Append(ds, d)) = Len(ds) + 1
           /\ Len(ds) + 1 \notin DOMAIN ds
           /\ \A n \in DOMAIN ds : Append(ds, d)[n] = ds[n]
           /\ Append(ds, d)[Len(ds) + 1] = d
  OBVIOUS

AmountFields == {"asset", "coin", "buy_fee", "sell_fee"}

LEMMA AmountIsNat ==
    ASSUME NEW d \in DealType, NEW field \in AmountFields
    PROVE  d[field] \in Nat
  <1>1. d.asset \in Nat /\ d.coin \in Nat /\ d.buy_fee \in Nat /\ d.sell_fee \in Nat
    BY DEF DealType
  <1> QED BY <1>1 DEF AmountFields

LEMMA DealsAreFinite ==
    ASSUME NEW ds \in Seq(DealType), NEW S \in SUBSET DOMAIN ds
    PROVE  IsFiniteSet(S)
  <1>1. IsFiniteSet(DOMAIN ds)
    <2>1. Len(ds) \in Nat /\ DOMAIN ds = 1 .. Len(ds)
      OBVIOUS
    <2> QED BY <2>1, FS_Interval
  <1> QED BY <1>1, FS_Subset

(* A deal adds its amounts to the sums it belongs to, and to no other.     *)
LEMMA SumOfDealsAdded ==
    ASSUME NEW ds \in Seq(DealType), NEW d \in DealType, NEW S \in SUBSET DOMAIN ds,
           NEW field \in AmountFields
    PROVE  /\ SumOfDeals(ds, S, field) \in Int
           /\ SumOfDeals(Append(ds, d), S, field) = SumOfDeals(ds, S, field)
           /\ SumOfDeals(Append(ds, d), S \cup {Len(ds) + 1}, field)
                = SumOfDeals(ds, S, field) + d[field]
  <1> DEFINE t  == Append(ds, d)
             m  == Len(ds) + 1
             S1 == S \cup {m}
             f  == [n \in S |-> ds[n][field]]
             g  == [n \in S |-> t[n][field]]
             h  == [n \in S1 |-> t[n][field]]
  <1>1. /\ t \in Seq(DealType) /\ DOMAIN t = DOMAIN ds \cup {m} /\ m \notin DOMAIN ds
        /\ \A n \in DOMAIN ds : t[n] = ds[n]
        /\ t[m] = d
    BY AppendDeal
  <1>2. IsFiniteSet(S) /\ IsFiniteSet(S1) /\ m \notin S /\ S1 \ {m} = S
    BY <1>1, DealsAreFinite
  <1>3. \A n \in S : ds[n][field] \in Nat
    <2>1. \A n \in S : ds[n] \in DealType
      OBVIOUS
    <2> QED BY <2>1, AmountIsNat
  <1>4. d[field] \in Nat
    BY AmountIsNat
  <1> HIDE DEF t, m
  <1>5. /\ \A n \in S : f[n] \in Int /\ g[n] \in Int /\ f[n] = g[n] /\ h[n] = g[n]
        /\ \A n \in S1 : h[n] \in Int
        /\ h[m] = d[field]
    BY <1>1, <1>3, <1>4
  <1> HIDE DEF f, g, h, S1
  <1>6. SumFunctionOnSet(f, S) \in Int
    BY <1>2, <1>5, SumIsInt
  <1>7. SumFunctionOnSet(f, S) = SumFunctionOnSet(g, S)
    BY <1>2, <1>5, SumSame
  <1>8. SumFunctionOnSet(g, S) = SumFunctionOnSet(h, S)
    BY <1>2, <1>5, SumSame
  <1>9. m \in S1
    BY DEF S1
  <1>10. SumFunctionOnSet(h, S1) = h[m] + SumFunctionOnSet(h, S)
    BY <1>2, <1>5, <1>9, SumRemove
  <1>11. SumFunctionOnSet(h, S1) = SumFunctionOnSet(f, S) + d[field]
    BY <1>4, <1>5, <1>6, <1>7, <1>8, <1>10
  <1> QED BY <1>6, <1>7, <1>11 DEF SumOfDeals, f, g, h, S1, t, m

(* The deals table says this of the fill of order i. *)
FillSums(ds, i, side, fill) ==
    LET mine == DealsOf(ds, i)
        fee  == IF side = BUY THEN "buy_fee" ELSE "sell_fee"
    IN  /\ fill.matched_asset = SumOfDeals(ds, mine, "asset")
        /\ fill.matched_coin  = SumOfDeals(ds, mine, "coin")
        /\ fill.matched_fee   = SumOfDeals(ds, mine, fee)
        /\ fill.last_deal_id  = IF mine = {} THEN 0 ELSE Max(mine)

SameFill(f, g) ==
    /\ f.matched_asset = g.matched_asset /\ f.matched_coin = g.matched_coin
    /\ f.matched_fee = g.matched_fee /\ f.last_deal_id = g.last_deal_id

Blank(row) == SameFill(row, NoIt)

(* The tables, when no iterator holds a fill that is not yet saved. *)
Recorded(q, os, last, ds) ==
    /\ \A u \in DOMAIN q : Blank(q[u])
    /\ \A n \in DOMAIN ds : ds[n].buy \in 1 .. last /\ ds[n].sell \in 1 .. last
    /\ \A i \in DOMAIN os : FillSums(ds, i, os[i].side, os[i])

DealsInv ==
    /\ \A u \in DOMAIN queue : Blank(queue[u])
    /\ \A n \in DOMAIN deals : deals[n].buy \in 1 .. orderId /\ deals[n].sell \in 1 .. orderId
    /\ \A i \in DOMAIN orders : FillSums(deals, i, orders[i].side, Fill(i))
    /\ phase = "matching" =>
          Recorded(undo.queue, undo.orders, undo.orderId, undo.deals)

LEMMA FillSumsSame ==
    ASSUME NEW ds, NEW i, NEW side, NEW f, NEW g, FillSums(ds, i, side, f), SameFill(g, f)
    PROVE  FillSums(ds, i, side, g)
  BY DEF FillSums, SameFill

LEMMA DealsOfNext ==
    ASSUME NEW ds \in Seq(DealType), NEW d \in DealType, NEW i
    PROVE  DealsOf(Append(ds, d), i) =
              IF i \in {d.buy, d.sell} THEN DealsOf(ds, i) \cup {Len(ds) + 1}
                                       ELSE DealsOf(ds, i)
  <1> DEFINE t == Append(ds, d)
             m == Len(ds) + 1
  <1>1. /\ DOMAIN t = DOMAIN ds \cup {m} /\ m \notin DOMAIN ds
        /\ \A n \in DOMAIN ds : t[n] = ds[n]
        /\ t[m] = d
    BY AppendDeal
  <1> HIDE DEF t, m
  <1>2. DealsOf(t, i) = IF i \in {d.buy, d.sell} THEN DealsOf(ds, i) \cup {m}
                                                 ELSE DealsOf(ds, i)
    BY <1>1 DEF DealsOf
  <1> QED BY <1>2 DEF t, m

(* An order that has a part in the next deal. *)
LEMMA DealFills ==
    ASSUME NEW ds \in Seq(DealType), NEW d \in DealType, NEW i \in {d.buy, d.sell},
           NEW side, NEW f, NEW g, FillSums(ds, i, side, f),
           g.matched_asset = f.matched_asset + d.asset,
           g.matched_coin = f.matched_coin + d.coin,
           g.matched_fee = f.matched_fee + (IF side = BUY THEN d.buy_fee ELSE d.sell_fee),
           g.last_deal_id = Len(ds) + 1
    PROVE  FillSums(Append(ds, d), i, side, g)
  <1> DEFINE t    == Append(ds, d)
             m    == Len(ds) + 1
             mine == DealsOf(ds, i)
             fee  == IF side = BUY THEN "buy_fee" ELSE "sell_fee"
  <1>1. DealsOf(t, i) = mine \cup {m}
    BY DealsOfNext
  <1>2. mine \in SUBSET DOMAIN ds
    BY DEF DealsOf
  <1>3. Len(ds) \in Nat /\ mine \in SUBSET (1 .. Len(ds))
    BY <1>2, AppendDeal
  <1>4. Max(mine \cup {m}) = m
    BY <1>3, MaxOfNext
  <1>5. "asset" \in AmountFields /\ "coin" \in AmountFields /\ fee \in AmountFields
    BY DEF AmountFields
  <1>6. /\ SumOfDeals(t, mine \cup {m}, "asset") = SumOfDeals(ds, mine, "asset") + d["asset"]
        /\ SumOfDeals(t, mine \cup {m}, "coin") = SumOfDeals(ds, mine, "coin") + d["coin"]
        /\ SumOfDeals(t, mine \cup {m}, fee) = SumOfDeals(ds, mine, fee) + d[fee]
    <2> HIDE DEF mine, fee
    <2> QED BY <1>2, <1>5, SumOfDealsAdded
  <1>7. /\ f.matched_asset = SumOfDeals(ds, mine, "asset")
        /\ f.matched_coin = SumOfDeals(ds, mine, "coin")
        /\ f.matched_fee = SumOfDeals(ds, mine, fee)
    BY DEF FillSums
  <1>8. d[fee] = IF side = BUY THEN d.buy_fee ELSE d.sell_fee
    OBVIOUS
  <1> HIDE DEF t, m, mine, fee
  <1>9. /\ g.matched_asset = SumOfDeals(t, DealsOf(t, i), "asset")
        /\ g.matched_coin = SumOfDeals(t, DealsOf(t, i), "coin")
        /\ g.matched_fee = SumOfDeals(t, DealsOf(t, i), fee)
    BY <1>1, <1>6, <1>7, <1>8
  <1>10. g.last_deal_id = IF DealsOf(t, i) = {} THEN 0 ELSE Max(DealsOf(t, i))
    BY <1>1, <1>4 DEF m
  <1> QED BY <1>9, <1>10 DEF FillSums, t, fee

(* An order that has no part in it. *)
LEMMA OtherFills ==
    ASSUME NEW ds \in Seq(DealType), NEW d \in DealType, NEW i, i \notin {d.buy, d.sell},
           NEW side, NEW f, FillSums(ds, i, side, f)
    PROVE  FillSums(Append(ds, d), i, side, f)
  <1> DEFINE fee == IF side = BUY THEN "buy_fee" ELSE "sell_fee"
             mine == DealsOf(ds, i)
  <1>1. DealsOf(Append(ds, d), i) = mine /\ mine \in SUBSET DOMAIN ds
    BY DealsOfNext DEF DealsOf
  <1>2. "asset" \in AmountFields /\ "coin" \in AmountFields /\ fee \in AmountFields
    BY DEF AmountFields
  <1> HIDE DEF fee, mine
  <1>3. \A field \in AmountFields :
           SumOfDeals(Append(ds, d), mine, field) = SumOfDeals(ds, mine, field)
    BY <1>1, SumOfDealsAdded
  <1> QED BY <1>1, <1>2, <1>3 DEF FillSums, fee, mine

(* A new order has no part in any deal. *)
LEMMA NoFills ==
    ASSUME NEW ds, NEW i, DealsOf(ds, i) = {}, NEW side, NEW f, Blank(f)
    PROVE  FillSums(ds, i, side, f)
  <1>1. \A field : SumOfDeals(ds, {}, field) = 0
    BY SumEmpty DEF SumOfDeals
  <1> QED BY <1>1 DEF FillSums, Blank, SameFill, NoIt

LEMMA BeginFills ==
    ASSUME TypeInv', NEW action, NEW pair, NEW limit,
           BeginMatching(action, pair, limit, orders')
    PROVE  \A i \in DOMAIN orders' : SameFill(Fill(i)', orders'[i])
  <1>1. /\ buyIt' = Load(orders', Book(orders', pair, BUY))
        /\ sellIt' = Load(orders', Book(orders', pair, SELL))
    BY DEF BeginMatching
  <1>2. IsTable(orders', 1 .. orderId', OrderType) /\ orderId' \in Nat
    BY BoundsAssumption DEF TypeInv, TypeOK
  <1>3. ASSUME NEW side
        PROVE  LET it == Load(orders', Book(orders', pair, side))
               IN  it.id # 0 => SameFill(it, orders'[it.id])
    <2> DEFINE S  == Book(orders', pair, side)
               it == Load(orders', S)
    <2>1. S \in SUBSET Nat /\ \A i \in S : orders'[i] \in QueuedType
      BY <1>2, BookType
    <2> HIDE DEF S
    <2>2. CASE S = {}
      BY <2>1, <2>2, LoadType DEF S, NoIt
    <2>3. CASE S # {}
      <3>1. /\ it.matched_asset = orders'[it.id].matched_asset
            /\ it.matched_coin = orders'[it.id].matched_coin
            /\ it.matched_fee = orders'[it.id].matched_fee
            /\ it.last_deal_id = orders'[it.id].last_deal_id
        BY <2>1, <2>3, LoadType
      <3> QED BY <3>1 DEF S, SameFill
    <2> QED BY <2>2, <2>3
  <1>4. /\ buyIt'.id # 0 => SameFill(buyIt', orders'[buyIt'.id])
        /\ sellIt'.id # 0 => SameFill(sellIt', orders'[sellIt'.id])
    BY <1>1, <1>3
  <1>5. 0 \notin DOMAIN orders'
    BY <1>2 DEF IsTable
  <1> QED BY <1>4, <1>5 DEF Fill, SameFill

LEMMA IdleDealsInv ==
    ASSUME phase' = "idle", Recorded(queue', orders', orderId', deals')
    PROVE  DealsInv'
  <1>1. \A i : Fill(i)' = orders'[i]
    BY DEF Fill
  <1> QED BY <1>1 DEF DealsInv, Recorded, FillSums, Blank, SameFill, DealsOf, SumOfDeals

LEMMA IdleIsRecorded ==
    ASSUME Idle, DealsInv
    PROVE  Recorded(queue, orders, orderId, deals)
  <1>1. \A i : Fill(i) = orders[i]
    BY DEF Fill, Idle
  <1> QED BY <1>1 DEF DealsInv, Recorded

LEMMA BeginDealsInv ==
    ASSUME TypeInv', Idle, DealsInv, NEW action, NEW pair, NEW limit,
           BeginMatching(action, pair, limit, orders'),
           Recorded(queue', orders', orderId', deals')
    PROVE  DealsInv'
  <1>1. \A i \in DOMAIN orders' : FillSums(deals', i, orders'[i].side, Fill(i)')
    BY BeginFills, FillSumsSame DEF Recorded
  <1>2. Recorded(queue, orders, orderId, deals)
    BY IdleIsRecorded
  <1>3. /\ undo'.queue = queue /\ undo'.orders = orders
        /\ undo'.orderId = orderId /\ undo'.deals = deals
    BY DEF BeginMatching
  <1>4. Recorded(undo'.queue, undo'.orders, undo'.orderId, undo'.deals)
    BY <1>2, <1>3
  <1> QED BY <1>1, <1>4
          DEF DealsInv, Recorded, FillSums, Blank, SameFill, DealsOf, SumOfDeals

LEMMA CreateOrderDealsInv ==
    ASSUME DealsInv, NEW r \in Requests, NEW signers, CreateOrder(r, signers)
    PROVE  DealsInv'
  <1>1. /\ Idle /\ phase' = "idle" /\ orders' = orders /\ orderId' = orderId
        /\ deals' = deals
    BY DEF CreateOrder, Idle, loop, money
  <1>2. \E row : queue' = Put(queue, r.user, row) /\ Blank(row)
    <2>1. \E row : /\ queue' = Put(queue, r.user, row)
                   /\ row.matched_asset = 0 /\ row.matched_coin = 0
                   /\ row.matched_fee = 0 /\ row.last_deal_id = 0
      BY DEF CreateOrder
    <2> QED BY <2>1 DEF Blank, SameFill, NoIt
  <1>3. Recorded(queue, orders, orderId, deals)
    BY <1>1, IdleIsRecorded
  <1>4. Recorded(queue', orders', orderId', deals')
    BY <1>1, <1>2, <1>3 DEF Recorded, Put
  <1> QED BY <1>1, <1>4, IdleDealsInv

LEMMA OnTransferDealsInv ==
    ASSUME TypeInv, TypeInv', DealsInv, NEW u, NEW t, NEW q, OnTransfer(u, t, q)
    PROVE  DealsInv'
  <1> DEFINE order == queue[u]
             id    == NewId(orderId)
  <1>1. /\ Idle /\ u \in DOMAIN queue /\ orderId < MaxOrders
        /\ orders' = Put(orders, id, order) /\ queue' = Delete(queue, u)
        /\ orderId' = id /\ deals' = deals
        /\ BeginMatching("ontransfer", order.pair, config.max_match_count, orders')
    BY DEF OnTransfer
  <1>2. Recorded(queue, orders, orderId, deals)
    BY <1>1, IdleIsRecorded
  <1>3. orderId \in Nat /\ id = orderId + 1
    BY <1>1, BoundsAssumption DEF TypeInv, TypeOK, NewId
  <1>4. Blank(order)
    BY <1>1 DEF DealsInv
  <1> HIDE DEF order, id
  <1>5. id \notin 1 .. orderId /\ 1 .. orderId \subseteq 1 .. id
    BY <1>3
  <1>6. FillSums(deals, id, order.side, order)
    <2>1. \A n \in DOMAIN deals : deals[n].buy \in 1 .. orderId /\ deals[n].sell \in 1 .. orderId
      BY <1>2 DEF Recorded
    <2>2. DealsOf(deals, id) = {}
      BY <1>5, <2>1 DEF DealsOf
    <2> QED BY <1>4, <2>2, NoFills
  <1>7. Recorded(queue', orders', orderId', deals')
    <2>1. \A v \in DOMAIN queue' : Blank(queue'[v])
      BY <1>1, <1>2 DEF Recorded, Delete
    <2>2. \A n \in DOMAIN deals' : deals'[n].buy \in 1 .. orderId' /\ deals'[n].sell \in 1 .. orderId'
      BY <1>1, <1>2, <1>5 DEF Recorded
    <2>3. \A i \in DOMAIN orders' : FillSums(deals', i, orders'[i].side, orders'[i])
      BY <1>1, <1>2, <1>6 DEF Recorded, Put
    <2> QED BY <2>1, <2>2, <2>3 DEF Recorded
  <1> QED BY <1>1, <1>7, BeginDealsInv

(* The two orders of a round have their fills in the table after it. *)
LEMMA RoundFills ==
    ASSUME TypeInv, DealsInv, phase = "matching", Round
    PROVE  /\ FillSums(deals', buyIt.id, BUY, Filled(buyIt, Deal, Deal.buy_fee))
           /\ FillSums(deals', sellIt.id, SELL, Filled(sellIt, Deal, Deal.sell_fee))
  <1> DEFINE newBuy  == Filled(buyIt, Deal, Deal.buy_fee)
             newSell == Filled(sellIt, Deal, Deal.sell_fee)
  <1>1. InLoop /\ RoundPasses(Deal) /\ deals' = Append(deals, Deal)
    BY DEF Round
  <1>2. /\ buyIt \in ItType /\ sellIt \in ItType /\ buyIt.id # sellIt.id
        /\ buyIt.id \in DOMAIN orders /\ sellIt.id \in DOMAIN orders
        /\ orders[buyIt.id].side = BUY /\ orders[sellIt.id].side = SELL
    BY <1>1, RoundOrders DEF Book
  <1>3. /\ Deal \in DealType /\ Deal.buy = buyIt.id /\ Deal.sell = sellIt.id
        /\ Deal.buy_fee \in Nat /\ Deal.sell_fee \in Nat
    BY <1>1, RoundAmounts DEF DealType
  <1>4. deals \in Seq(DealType)
    BY DEF TypeInv, TypeOK
  <1>5. /\ newBuy.matched_asset = buyIt.matched_asset + Deal.asset
        /\ newBuy.matched_coin = buyIt.matched_coin + Deal.coin
        /\ newBuy.matched_fee = buyIt.matched_fee + Deal.buy_fee
        /\ newBuy.last_deal_id = Len(deals) + 1
        /\ newSell.matched_asset = sellIt.matched_asset + Deal.asset
        /\ newSell.matched_coin = sellIt.matched_coin + Deal.coin
        /\ newSell.matched_fee = sellIt.matched_fee + Deal.sell_fee
        /\ newSell.last_deal_id = Len(deals) + 1
    BY <1>2, <1>3, <1>4, FilledType
  <1>6. Fill(buyIt.id) = buyIt /\ Fill(sellIt.id) = sellIt
    BY <1>2 DEF Fill
  <1>7. /\ FillSums(deals, buyIt.id, BUY, buyIt)
        /\ FillSums(deals, sellIt.id, SELL, sellIt)
    BY <1>2, <1>6 DEF DealsInv
  <1>8. buyIt.id \in {Deal.buy, Deal.sell} /\ sellIt.id \in {Deal.buy, Deal.sell}
        /\ SELL # BUY
    BY <1>3 DEF BUY, SELL
  <1> HIDE DEF newBuy, newSell
  <1>9. FillSums(deals', buyIt.id, BUY, newBuy)
    BY <1>1, <1>3, <1>4, <1>5, <1>7, <1>8, DealFills
  <1>10. FillSums(deals', sellIt.id, SELL, newSell)
    BY <1>1, <1>3, <1>4, <1>5, <1>7, <1>8, DealFills
  <1> QED BY <1>9, <1>10 DEF newBuy, newSell

(* The fills of the orders that a round leaves in the book. *)
LEMMA RoundFill ==
    ASSUME TypeInv, phase = "matching", Round, NEW i \in DOMAIN orders'
    PROVE  /\ i \in DOMAIN orders /\ orders'[i] = orders[i]
           /\ i = buyIt.id => Fill(i)' = Filled(buyIt, Deal, Deal.buy_fee)
           /\ i = sellIt.id => Fill(i)' = Filled(sellIt, Deal, Deal.sell_fee)
           /\ i \notin {buyIt.id, sellIt.id} => SameFill(Fill(i)', orders[i])
  <1> DEFINE newBuy  == Filled(buyIt, Deal, Deal.buy_fee)
             newSell == Filled(sellIt, Deal, Deal.sell_fee)
             gone == {j \in {buyIt.id, sellIt.id} :
                        Completed(IF j = buyIt.id THEN newBuy ELSE newSell)}
  <1>1. InLoop /\ RoundPasses(Deal) /\ phase' = "matching"
    BY DEF Round
  <1>2. /\ orders' = Restrict(orders, DOMAIN orders \ gone)
        /\ IF Completed(newBuy) THEN buyIt' = NextOf(orders, buyIt)
                                ELSE buyIt' = newBuy
        /\ IF Completed(newSell) THEN sellIt' = NextOf(orders, sellIt)
                                 ELSE sellIt' = newSell
        /\ OnBook(buyIt, BUY)' /\ OnBook(sellIt, SELL)'
    BY RoundIterators
  <1>3. /\ buyIt \in ItType /\ sellIt \in ItType /\ buyIt.id # sellIt.id
        /\ buyIt.id \in DOMAIN orders /\ sellIt.id \in DOMAIN orders
        /\ orders[buyIt.id].side = BUY /\ orders[sellIt.id].side = SELL
    BY <1>1, RoundOrders DEF Book
  <1>4. Deal \in DealType /\ Deal.buy_fee \in Nat /\ Deal.sell_fee \in Nat
    BY <1>1, RoundAmounts DEF DealType
  <1>5. /\ IsTable(orders, 1 .. orderId, OrderType) /\ orderId \in Nat
        /\ deals \in Seq(DealType)
    BY BoundsAssumption DEF TypeInv, TypeOK
  <1>6. /\ i \in DOMAIN orders /\ i \notin gone /\ i # 0
        /\ \A j \in DOMAIN orders' : j # 0 /\ orders'[j] = orders[j]
    BY <1>2, <1>5 DEF Restrict, IsTable
  <1>7. newBuy.id = buyIt.id /\ newSell.id = sellIt.id
    BY <1>3, <1>4, <1>5, FilledType
  <1>8. /\ buyIt'.id \in DOMAIN orders' => orders'[buyIt'.id].side = BUY
        /\ sellIt'.id \in DOMAIN orders' => orders'[sellIt'.id].side = SELL
    BY <1>2, <1>6 DEF OnBook, Book
  <1>9. /\ buyIt.id \in gone <=> Completed(newBuy)
        /\ sellIt.id \in gone <=> Completed(newSell)
    BY <1>3
  <1>10. /\ Completed(newBuy) /\ buyIt'.id # 0 => SameFill(buyIt', orders[buyIt'.id])
         /\ Completed(newSell) /\ sellIt'.id # 0 => SameFill(sellIt', orders[sellIt'.id])
    BY <1>2, <1>3, <1>5, NextOfType DEF SameFill
  <1> HIDE DEF newBuy, newSell, gone
  <1>11. CASE i = buyIt.id
    <2>1. buyIt' = newBuy /\ buyIt'.id = i
      BY <1>2, <1>6, <1>7, <1>9, <1>11
    <2>2. Fill(i)' = newBuy
      BY <1>1, <2>1 DEF Fill
    <2> QED BY <1>3, <1>6, <1>11, <2>2 DEF newBuy
  <1>12. CASE i = sellIt.id
    <2>1. sellIt' = newSell /\ sellIt'.id = i
      BY <1>2, <1>6, <1>7, <1>9, <1>12
    <2>2. i # buyIt'.id
      BY <1>3, <1>6, <1>8, <1>12 DEF BUY, SELL
    <2>3. Fill(i)' = newSell
      BY <1>1, <2>1, <2>2 DEF Fill
    <2> QED BY <1>3, <1>6, <1>12, <2>3 DEF newSell
  <1>13. CASE i # buyIt.id /\ i # sellIt.id
    <2>1. /\ i = buyIt'.id => SameFill(buyIt', orders[i])
          /\ i = sellIt'.id => SameFill(sellIt', orders[i])
      BY <1>2, <1>6, <1>7, <1>10, <1>13
    <2>2. SameFill(Fill(i)', orders[i])
      BY <1>1, <1>6, <2>1 DEF Fill, SameFill
    <2> QED BY <1>6, <1>13, <2>2
  <1> QED BY <1>11, <1>12, <1>13

LEMMA RoundDealsInv ==
    ASSUME TypeInv, DealsInv, phase = "matching", Round
    PROVE  DealsInv'
  <1>1. /\ InLoop /\ RoundPasses(Deal) /\ deals' = Append(deals, Deal)
        /\ UNCHANGED <<queue, orderId, phase, undo>>
    BY DEF Round
  <1>2. /\ buyIt.id \in DOMAIN orders /\ sellIt.id \in DOMAIN orders
        /\ orders[buyIt.id].side = BUY /\ orders[sellIt.id].side = SELL
    BY <1>1, RoundOrders DEF Book
  <1>3. Deal \in DealType /\ Deal.buy = buyIt.id /\ Deal.sell = sellIt.id
    BY <1>1, RoundAmounts
  <1>4. IsTable(orders, 1 .. orderId, OrderType) /\ deals \in Seq(DealType)
    BY DEF TypeInv, TypeOK
  <1>5. /\ FillSums(deals', buyIt.id, BUY, Filled(buyIt, Deal, Deal.buy_fee))
        /\ FillSums(deals', sellIt.id, SELL, Filled(sellIt, Deal, Deal.sell_fee))
    BY RoundFills
  <1>6. ASSUME NEW i \in DOMAIN orders'
        PROVE  FillSums(deals', i, orders'[i].side, Fill(i)')
    <2>1. i \in DOMAIN orders /\ orders'[i] = orders[i]
      BY RoundFill
    <2>2. CASE i = buyIt.id
      <3>1. Fill(i)' = Filled(buyIt, Deal, Deal.buy_fee)
        BY <2>2, RoundFill
      <3> QED BY <1>2, <1>5, <2>1, <2>2, <3>1
    <2>3. CASE i = sellIt.id
      <3>1. Fill(i)' = Filled(sellIt, Deal, Deal.sell_fee)
        BY <2>3, RoundFill
      <3> QED BY <1>2, <1>5, <2>1, <2>3, <3>1
    <2>4. CASE i \notin {buyIt.id, sellIt.id}
      <3>1. Fill(i) = orders[i]
        BY <2>4 DEF Fill
      <3>2. FillSums(deals, i, orders[i].side, orders[i])
        BY <2>1, <3>1 DEF DealsInv
      <3>3. FillSums(deals', i, orders[i].side, orders[i])
        BY <1>1, <1>3, <1>4, <2>4, <3>2, OtherFills
      <3>4. SameFill(Fill(i)', orders[i])
        BY <2>4, RoundFill
      <3> QED BY <2>1, <3>3, <3>4, FillSumsSame
    <2> QED BY <2>2, <2>3, <2>4
  <1>7. \A n \in DOMAIN deals' : deals'[n].buy \in 1 .. orderId' /\ deals'[n].sell \in 1 .. orderId'
    <2>1. /\ DOMAIN deals' = DOMAIN deals \cup {Len(deals) + 1}
          /\ \A n \in DOMAIN deals : deals'[n] = deals[n]
          /\ deals'[Len(deals) + 1] = Deal
      BY <1>1, <1>3, <1>4, AppendDeal
    <2>2. Deal.buy \in 1 .. orderId /\ Deal.sell \in 1 .. orderId
      BY <1>2, <1>3, <1>4 DEF IsTable
    <2> QED BY <1>1, <2>1, <2>2 DEF DealsInv
  <1>8. /\ \A u \in DOMAIN queue' : Blank(queue'[u])
        /\ Recorded(undo'.queue, undo'.orders, undo'.orderId, undo'.deals)
    BY <1>1 DEF DealsInv
  <1> QED BY <1>6, <1>7, <1>8
          DEF DealsInv, Recorded, FillSums, Blank, SameFill, DealsOf, SumOfDeals

LEMMA FinishDealsInv ==
    ASSUME TypeInv, DealsInv, phase = "matching", Finish
    PROVE  DealsInv'
  <1>1. /\ phase' = "idle" /\ queue' = queue /\ orderId' = orderId /\ deals' = deals
    BY DEF Finish, EndTransaction, money
  <1>2. /\ DOMAIN orders' = DOMAIN orders
        /\ \A i \in DOMAIN orders :
             orders'[i].side = orders[i].side /\ SameFill(orders'[i], Fill(i))
    BY FinishOrders DEF SameFill
  <1>3. \A i \in DOMAIN orders' : FillSums(deals', i, orders'[i].side, orders'[i])
    BY <1>1, <1>2, FillSumsSame DEF DealsInv
  <1>4. Recorded(queue', orders', orderId', deals')
    BY <1>1, <1>3 DEF DealsInv, Recorded
  <1> QED BY <1>1, <1>4, IdleDealsInv

LEMMA NextDealsInv ==
    ASSUME TypeInv, TypeInv', DealsInv, [Next]_vars
    PROVE  DealsInv'
  <1>1. ASSUME Idle, UNCHANGED <<queue, orders, orderId, deals, phase>> PROVE DealsInv'
    <2>1. Recorded(queue', orders', orderId', deals') /\ phase' = "idle"
      BY <1>1, IdleIsRecorded DEF Idle
    <2> QED BY <2>1, IdleDealsInv
  <1>2. CASE Administer
    <2>1. Idle /\ UNCHANGED <<books, money, loop>>
      BY <1>2 DEF Administer, InitDex, SetConfig, SetSymPair, OnOffSymPair, DelSymPair
    <2> QED BY <1>1, <2>1 DEF books, money, loop
  <1>3. CASE Place
    <2>1. ASSUME NEW u \in Users, DelQueueOrd(u) PROVE DealsInv'
      <3>1. /\ Idle /\ phase' = "idle" /\ orders' = orders /\ orderId' = orderId
            /\ deals' = deals /\ queue' = Delete(queue, u)
        BY <2>1 DEF DelQueueOrd, Idle, loop, money
      <3>2. Recorded(queue', orders', orderId', deals')
        BY <3>1, IdleIsRecorded DEF Recorded, Delete
      <3> QED BY <3>1, <3>2, IdleDealsInv
    <2> QED BY <1>3, <2>1, CreateOrderDealsInv, OnTransferDealsInv
            DEF Place, NewOrder, Buy, Sell
  <1>4. CASE MatchAny
    <2>1. PICK p \in DOMAIN sympair, n \in MatchCounts : Match(p, n)
      BY <1>4 DEF MatchAny
    <2>2. /\ Idle /\ queue' = queue /\ orders' = orders /\ orderId' = orderId
          /\ deals' = deals /\ BeginMatching("match", p, n, orders')
      BY <2>1 DEF Match, books, money
    <2>3. Recorded(queue', orders', orderId', deals')
      BY <2>2, IdleIsRecorded
    <2> QED BY <2>2, <2>3, BeginDealsInv
  <1>5. CASE Leave
    <2>1. ASSUME NEW i \in DOMAIN orders, NEW u \in Users,
                 Cancel(u, orders[i].pair, orders[i].side, i)
          PROVE  DealsInv'
      <3>1. /\ Idle /\ phase' = "idle" /\ queue' = queue /\ orderId' = orderId
            /\ deals' = deals /\ orders' = Delete(orders, i)
        BY <2>1 DEF Cancel, Idle, loop
      <3>2. Recorded(queue', orders', orderId', deals')
        BY <3>1, IdleIsRecorded DEF Recorded, Delete
      <3> QED BY <3>1, <3>2, IdleDealsInv
    <2>2. ASSUME NEW a \in Accounts, NEW t \in Tokens, NEW q \in 1 .. rewards[a][t],
                 Withdraw(a, t, q)
          PROVE  DealsInv'
      BY <1>1, <2>2 DEF Withdraw, books, loop
    <2> QED BY <1>5, <2>1, <2>2 DEF Leave
  <1>6. CASE Round
    BY <1>6, RoundDealsInv DEF Round
  <1>7. CASE Finish
    BY <1>7, FinishDealsInv DEF Finish
  <1>8. CASE Abort
    <2>1. /\ phase = "matching" /\ phase' = "idle"
          /\ queue' = undo.queue /\ orders' = undo.orders
          /\ orderId' = undo.orderId /\ deals' = undo.deals
      BY <1>8 DEF Abort, EndTransaction
    <2>2. Recorded(queue', orders', orderId', deals')
      BY <2>1 DEF DealsInv
    <2> QED BY <2>1, <2>2, IdleDealsInv
  <1>9. CASE UNCHANGED vars
    <2>1. UNCHANGED <<queue, orders, orderId, deals, phase, buyIt, sellIt, undo>>
      BY <1>9 DEF vars, books, money, loop
    <2>2. \A i : Fill(i)' = Fill(i)
      BY <2>1 DEF Fill
    <2>3. \A i \in DOMAIN orders' : FillSums(deals', i, orders'[i].side, Fill(i)')
      BY <2>1, <2>2 DEF DealsInv
    <2>4. phase' = "matching" =>
             Recorded(undo'.queue, undo'.orders, undo'.orderId, undo'.deals)
      BY <2>1 DEF DealsInv
    <2> QED BY <2>1, <2>3, <2>4
            DEF DealsInv, Recorded, FillSums, Blank, SameFill, DealsOf, SumOfDeals
  <1> QED BY <1>2, <1>3, <1>4, <1>5, <1>6, <1>7, <1>8, <1>9 DEF Next

LEMMA DealsInvInvariant == Spec => []DealsInv
  <1>1. Init => DealsInv
    BY DEF Init, DealsInv, Recorded, EmptyTable
  <1>2. TypeInv /\ TypeInv' /\ DealsInv /\ [Next]_vars => DealsInv'
    BY NextDealsInv
  <1> QED BY <1>1, <1>2, TypeInvInvariant, PTL DEF Spec

(* What an order row says of its fill is what the deals table says of it,   *)
(* in every state of a transaction and after every rollback: the caches of *)
(* the iterators lose no deal of a loop, and save none on the wrong row.   *)
THEOREM FillsFollowDeals == Spec => []FillsAreDeals
  <1>1. DealsInv => FillsAreDeals
    BY DEF DealsInv, FillsAreDeals, FillSums
  <1> QED BY <1>1, DealsInvInvariant, PTL

(* What a payment moves. *)
LEMMA PayMoves ==
    ASSUME NEW w \in Balances, NEW from \in Accounts, NEW to \in Accounts,
           from # to, NEW token \in Tokens, NEW amount \in Int
    PROVE  \A a \in Accounts, t \in Tokens :
              Pay(w, from, to, token, amount)[a][t] =
                 IF t # token THEN w[a][t]
                 ELSE IF a = from THEN w[a][t] - amount
                 ELSE IF a = to THEN w[a][t] + amount ELSE w[a][t]
  <1>1. \A a \in Accounts : w[a] \in [Tokens -> Nat]
    BY DEF Balances
  <1>2. Pay(w, from, to, token, amount) =
           [a \in Accounts |->
              IF a = from THEN [w[from] EXCEPT ![token] = w[from][token] - amount]
              ELSE IF a = to THEN [w[to] EXCEPT ![token] = w[to][token] + amount]
              ELSE w[a]]
    BY <1>1 DEF Pay, Balances
  <1> QED BY <1>1, <1>2

SettledBy(i) ==
    LET mine == DealsOf(deals', i)
        o    == orders[i]
        used == SumOfDeals(deals', mine, IF o.side = BUY THEN "coin" ELSE "asset")
    IN  IF phase = "matching"
        THEN /\ SumOfDeals(deals', mine, "asset") = o.total
             /\ o.side = BUY => used + deals'[Max(mine)].refund = o.frozen
        ELSE wallet'[o.owner][o.token] = wallet[o.owner][o.token] + o.frozen - used

LEMMA RoundSettles ==
    ASSUME TypeInv, DealsInv, phase = "matching", Round,
           NEW i \in DOMAIN orders \ DOMAIN orders'
    PROVE  SettledBy(i)
  <1> DEFINE newBuy  == Filled(buyIt, Deal, Deal.buy_fee)
             newSell == Filled(sellIt, Deal, Deal.sell_fee)
             mine    == DealsOf(deals', i)
             o       == orders[i]
  <1>1. /\ InLoop /\ RoundPasses(Deal) /\ deals' = Append(deals, Deal)
        /\ orders' = Restrict(orders, DOMAIN orders \ {j \in {buyIt.id, sellIt.id} :
                        Completed(IF j = buyIt.id THEN newBuy ELSE newSell)})
    BY DEF Round
  <1>2. /\ buyIt \in ItType /\ sellIt \in ItType /\ buyIt.id # sellIt.id
        /\ orders[buyIt.id].side = BUY /\ orders[sellIt.id].side # BUY
        /\ orders[buyIt.id] \in QueuedType
    BY <1>1, RoundOrders DEF Book, BUY, SELL
  <1>3. \/ i = buyIt.id /\ Completed(newBuy)
        \/ i = sellIt.id /\ Completed(newSell)
    BY <1>1, <1>2 DEF Restrict
  <1>4. /\ Deal \in DealType /\ Deal.buy = buyIt.id /\ Deal.sell = sellIt.id
        /\ Deal.buy_fee \in Nat /\ Deal.sell_fee \in Nat
        /\ Deal.asset \in Nat /\ Deal.coin \in Nat
    BY <1>1, RoundAmounts DEF DealType
  <1>5. deals \in Seq(DealType)
    BY DEF TypeInv, TypeOK
  <1>6. /\ newBuy.id = buyIt.id /\ newSell.id = sellIt.id
        /\ newBuy.matched_asset = buyIt.matched_asset + Deal.asset
        /\ newBuy.matched_coin = buyIt.matched_coin + Deal.coin
    BY <1>2, <1>4, <1>5, FilledType
  <1>7. /\ FillSums(deals', buyIt.id, BUY, newBuy)
        /\ FillSums(deals', sellIt.id, SELL, newSell)
    BY RoundFills
  <1> HIDE DEF newBuy, newSell
  <1>8. CASE i = sellIt.id /\ Completed(newSell)
    <2>1. SumOfDeals(deals', mine, "asset") = o.total
      BY <1>6, <1>7, <1>8 DEF FillSums, Completed
    <2> QED BY <1>2, <1>8, <2>1 DEF SettledBy
  <1>9. CASE i = buyIt.id /\ Completed(newBuy)
    <2>1. /\ SumOfDeals(deals', mine, "asset") = o.total
          /\ SumOfDeals(deals', mine, "coin") = newBuy.matched_coin
          /\ newBuy.matched_asset = o.total
      BY <1>6, <1>7, <1>9 DEF FillSums, Completed
    <2>2. Deal.asset = FreeAsset(buyIt)
      BY <1>2, <1>4, <1>6, <1>9, <2>1 DEF FreeAsset, QueuedType, ItType
    <2>3. Deal.refund = Refund(Deal.asset, Deal.coin)
      BY DEF Deal
    <2>4. Deal.refund = o.frozen - newBuy.matched_coin
      BY <1>6, <1>9, <2>2, <2>3 DEF Refund
    <2>5. deals'[Max(mine)] = Deal
      <3>1. mine = DealsOf(deals, i) \cup {Len(deals) + 1}
        BY <1>1, <1>4, <1>5, <1>9, DealsOfNext
      <3>2. Len(deals) \in Nat /\ DealsOf(deals, i) \in SUBSET (1 .. Len(deals))
        BY <1>5 DEF DealsOf
      <3>3. Max(mine) = Len(deals) + 1
        BY <3>1, <3>2, MaxOfNext
      <3> QED BY <1>1, <1>4, <1>5, <3>3, AppendDeal
    <2>6. newBuy.matched_coin \in Int /\ o.frozen \in Int
      BY <1>2, <1>4, <1>6, <1>9 DEF ItType, QueuedType
    <2>7. newBuy.matched_coin + Deal.refund = o.frozen
      BY <2>4, <2>6
    <2> QED BY <1>2, <1>9, <2>1, <2>5, <2>7 DEF SettledBy
  <1> QED BY <1>3, <1>8, <1>9

LEMMA CancelSettles ==
    ASSUME TypeInv, DealsInv, NEW c \in DOMAIN orders, NEW u \in Users,
           Cancel(u, orders[c].pair, orders[c].side, c),
           NEW i \in DOMAIN orders \ DOMAIN orders'
    PROVE  SettledBy(i)
  <1> DEFINE o == orders[i]
             used == SumOfDeals(deals', DealsOf(deals', i),
                                IF o.side = BUY THEN "coin" ELSE "asset")
  <1>1. /\ Idle /\ orders' = Delete(orders, c) /\ u = orders[c].owner /\ deals' = deals
        /\ wallet' = Pay(wallet, Dex, u, orders[c].token, Remainder(orders[c]))
    BY DEF Cancel
  <1>2. i = c
    BY <1>1 DEF Delete
  <1>3. o \in QueuedType /\ o.token \in Tokens /\ o.frozen \in Int
        /\ o.matched_coin \in Nat /\ o.matched_asset \in Nat
    BY DEF TypeInv, TypeOK, IsTable, OrderType, QueuedType
  <1>4. Fill(i) = o
    BY <1>1 DEF Fill, Idle
  <1>5. Remainder(o) = o.frozen - used
    BY <1>1, <1>4 DEF DealsInv, FillSums, Remainder
  <1>6. Remainder(o) \in Int /\ used \in Int
    <2>1. used = IF o.side = BUY THEN o.matched_coin ELSE o.matched_asset
      BY <1>1, <1>4 DEF DealsInv, FillSums
    <2> QED BY <1>3, <1>5, <2>1
  <1>7. /\ wallet \in Balances /\ Dex \in Accounts /\ u \in Accounts /\ Dex # u
    BY AccountsAssumption DEF TypeInv, TypeOK, Accounts
  <1>8. wallet'[u][o.token] = wallet[u][o.token] + Remainder(o)
    BY <1>1, <1>2, <1>3, <1>6, <1>7, PayMoves
  <1>9. wallet[u][o.token] \in Nat
    BY <1>3, <1>7 DEF Balances
  <1>10. wallet'[u][o.token] = wallet[u][o.token] + o.frozen - used
    BY <1>3, <1>5, <1>6, <1>8, <1>9
  <1> QED BY <1>1, <1>2, <1>10 DEF SettledBy, Idle

LEMMA NextSettles ==
    ASSUME TypeInv, DealsInv, [Next]_vars, ~(phase = "matching" /\ phase' = "idle"),
           NEW i \in DOMAIN orders \ DOMAIN orders'
    PROVE  SettledBy(i)
  <1>1. ~UNCHANGED vars /\ ~UNCHANGED books /\ ~UNCHANGED orders
    BY DEF vars, books
  <1>2. ~Administer
    BY <1>1 DEF Administer, InitDex, SetConfig, SetSymPair, OnOffSymPair, DelSymPair
  <1>3. ~MatchAny
    BY <1>1 DEF MatchAny, Match
  <1>4. ~Place
    <2>1. \A r, signers : ~CreateOrder(r, signers)
      BY <1>1 DEF CreateOrder
    <2>2. \A u : ~DelQueueOrd(u)
      BY <1>1 DEF DelQueueOrd
    <2>3. \A u, t, q : ~OnTransfer(u, t, q)
      BY DEF OnTransfer, Put
    <2> QED BY <2>1, <2>2, <2>3 DEF Place, NewOrder, Buy, Sell
  <1>5. \A a, t, q : ~Withdraw(a, t, q)
    BY <1>1 DEF Withdraw
  <1>6. ~Finish /\ ~Abort
    BY DEF Finish, Abort, EndTransaction
  <1>7. CASE Round
    BY <1>7, RoundSettles DEF Round
  <1>8. CASE Leave
    BY <1>5, <1>8, CancelSettles DEF Leave
  <1> QED BY <1>1, <1>2, <1>3, <1>4, <1>6, <1>7, <1>8 DEF Next

(* A round erases an order only when its deals, with the refund, add up to *)
(* what it asked for and froze; a cancellation pays the owner exactly what *)
(* the deals have left; nothing else takes an order out of the book, but   *)
(* the rollback of its booking.                                            *)
THEOREM OrdersLeaveSettled == Spec => LeavesSettled
  <1>1. TypeInv /\ DealsInv /\ [Next]_vars =>
          (~(phase = "matching" /\ phase' = "idle") =>
              \A i \in DOMAIN orders \ DOMAIN orders' : SettledBy(i))
    BY NextSettles
  <1>2. TypeInv /\ DealsInv /\ [Next]_vars =>
         (~(phase = "matching" /\ phase' = "idle") =>
         \A i \in DOMAIN orders \ DOMAIN orders' :
            LET mine == DealsOf(deals', i)
                o    == orders[i]
                used == SumOfDeals(deals', mine, IF o.side = BUY THEN "coin" ELSE "asset")
            IN  IF phase = "matching"
                THEN /\ SumOfDeals(deals', mine, "asset") = o.total
                     /\ o.side = BUY =>
                           used + deals'[Max(mine)].refund = o.frozen
                ELSE wallet'[o.owner][o.token] = wallet[o.owner][o.token] + o.frozen - used)
    BY <1>1 DEF SettledBy
  <1> QED BY <1>2, TypeInvInvariant, DealsInvInvariant, PTL DEF Spec, LeavesSettled

-----------------------------------------------------------------------------
(***************************************************************************)
(* The latest price of a pair.                                             *)
(***************************************************************************)
LastPrice(ds, p) ==
    LET mine == {n \in DOMAIN ds : ds[n].pair = p}
    IN  IF mine = {} THEN 0 ELSE ds[Max(mine)].price

(* No deal carries an id that is still to be given to a pair. *)
PairsKnown(ds) == \A n \in DOMAIN ds : ds[n].pair <= sympairId

PriceInv ==
    /\ PairsKnown(deals)
    /\ Idle => \A p \in DOMAIN sympair : sympair[p].latest = LastPrice(deals, p)
    /\ phase = "matching" =>
          /\ PairsKnown(undo.deals)
          /\ \A p \in DOMAIN sympair :
                /\ sympair[p].latest = LastPrice(undo.deals, p)
                /\ LastPrice(deals, p) = IF p = txn.pair /\ txn.price > 0 THEN txn.price
                                         ELSE LastPrice(undo.deals, p)

LEMMA NextLastPrice ==
    ASSUME NEW ds \in Seq(DealType), NEW d \in DealType, NEW p
    PROVE  LastPrice(Append(ds, d), p) = IF d.pair = p THEN d.price ELSE LastPrice(ds, p)
  <1> DEFINE t    == Append(ds, d)
             m    == Len(ds) + 1
             mine == {n \in DOMAIN ds : ds[n].pair = p}
  <1>1. /\ DOMAIN t = DOMAIN ds \cup {m} /\ m \notin DOMAIN ds
        /\ \A n \in DOMAIN ds : t[n] = ds[n]
        /\ t[m] = d /\ Len(ds) \in Nat /\ DOMAIN ds = 1 .. Len(ds)
    BY AppendDeal
  <1>2. mine \in SUBSET (1 .. Len(ds))
    BY <1>1
  <1> HIDE DEF t
  <1>3. CASE d.pair = p
    <2>1. {n \in DOMAIN t : t[n].pair = p} = mine \cup {m}
      BY <1>1, <1>3
    <2>2. Max(mine \cup {m}) = m
      BY <1>1, <1>2, MaxOfNext
    <2> QED BY <1>1, <1>3, <2>1, <2>2 DEF LastPrice, t
  <1>4. CASE d.pair # p
    <2>1. {n \in DOMAIN t : t[n].pair = p} = mine
      BY <1>1, <1>4
    <2>2. mine # {} => Max(mine) \in mine
      BY <1>1, <1>2, MaxOfSome
    <2>3. mine # {} => t[Max(mine)] = ds[Max(mine)]
      BY <1>1, <2>2
    <2> HIDE DEF mine
    <2>4. LastPrice(t, p) = LastPrice(ds, p)
      BY <2>1, <2>3 DEF LastPrice, mine
    <2> QED BY <1>4, <2>4 DEF t
  <1> QED BY <1>3, <1>4

(* What administration does to the latest prices. *)
LEMMA AdministerPrices ==
    ASSUME TypeInv, Administer
    PROVE  \A p \in DOMAIN sympair' :
              \/ p > sympairId /\ sympair'[p].latest = 0
              \/ p \in DOMAIN sympair /\ sympair'[p].latest = sympair[p].latest
  <1>1. IsTable(sympair, 1 .. sympairId, PairType) /\ sympairId \in Nat
    BY BoundsAssumption DEF TypeInv, TypeOK
  <1>2. ASSUME NEW p \in DOMAIN sympair, NEW on,
               sympair' = [sympair EXCEPT ![p].enabled = on]
        PROVE  \A k \in DOMAIN sympair' :
                  k \in DOMAIN sympair /\ sympair'[k].latest = sympair[k].latest
    <2> DEFINE row == [sympair[p] EXCEPT !.enabled = on]
    <2>1. row.latest = sympair[p].latest
      BY <1>1 DEF IsTable, PairType
    <2>2. sympair' = [sympair EXCEPT ![p] = row]
      BY <1>2
    <2> HIDE DEF row
    <2> QED BY <2>1, <2>2
  <1>3. ASSUME NEW a \in Tokens, NEW c \in Tokens, NEW on \in BOOLEAN, SetSymPair(a, c, on),
               NEW k \in DOMAIN sympair'
        PROVE  \/ k > sympairId /\ sympair'[k].latest = 0
               \/ k \in DOMAIN sympair /\ sympair'[k].latest = sympair[k].latest
    <2> DEFINE id == NewId(sympairId)
               row == [asset |-> a, coin |-> c, enabled |-> on, latest |-> 0]
    <2>1. CASE sympairId < MaxPairs /\ sympair' = Put(sympair, id, row)
      <3>1. id = sympairId + 1
        BY <1>1, <2>1, BoundsAssumption DEF NewId
      <3>2. row.latest = 0
        OBVIOUS
      <3> HIDE DEF id, row
      <3> QED BY <1>1, <2>1, <3>1, <3>2 DEF Put
    <2>2. CASE \E p \in DOMAIN sympair : sympair' = [sympair EXCEPT ![p].enabled = on]
      BY <1>2, <2>2
    <2> QED BY <1>3, <2>1, <2>2 DEF SetSymPair
  <1>4. ASSUME NEW p \in DOMAIN sympair, NEW on \in BOOLEAN, OnOffSymPair(p, on)
        PROVE  \A k \in DOMAIN sympair' :
                  k \in DOMAIN sympair /\ sympair'[k].latest = sympair[k].latest
    BY <1>2, <1>4 DEF OnOffSymPair
  <1>5. ASSUME NEW p \in DOMAIN sympair, DelSymPair(p)
        PROVE  \A k \in DOMAIN sympair' :
                  k \in DOMAIN sympair /\ sympair'[k].latest = sympair[k].latest
    BY <1>5 DEF DelSymPair, Delete
  <1>6. ASSUME InitDex \/ \E conf \in Configs : SetConfig(conf)
        PROVE  sympair' = sympair
    BY <1>6 DEF InitDex, SetConfig
  <1> QED BY <1>3, <1>4, <1>5, <1>6 DEF Administer

LEMMA AdministerPriceInv ==
    ASSUME TypeInv, PriceInv, Administer
    PROVE  PriceInv'
  <1>1. Idle /\ phase' = "idle" /\ deals' = deals
    BY DEF Administer, InitDex, SetConfig, SetSymPair, OnOffSymPair, DelSymPair,
           Idle, money, loop
  <1>2. sympairId' \in Nat /\ sympairId \in Nat /\ sympairId <= sympairId'
    BY ListingStep, BoundsAssumption DEF TypeInv, TypeOK, Next
  <1>3. \A n \in DOMAIN deals : deals[n].pair \in Nat /\ deals[n].pair <= sympairId
    <2>1. \A n \in DOMAIN deals : deals[n] \in DealType
      BY DEF TypeInv, TypeOK
    <2> QED BY <2>1 DEF PriceInv, PairsKnown, DealType
  <1>4. PairsKnown(deals)'
    BY <1>1, <1>2, <1>3 DEF PairsKnown
  <1>5. ASSUME NEW p \in DOMAIN sympair'
        PROVE  sympair'[p].latest = LastPrice(deals, p)
    <2>1. CASE p > sympairId /\ sympair'[p].latest = 0
      <3>1. {n \in DOMAIN deals : deals[n].pair = p} = {}
        BY <1>2, <1>3, <2>1
      <3> QED BY <2>1, <3>1 DEF LastPrice
    <2>2. CASE p \in DOMAIN sympair /\ sympair'[p].latest = sympair[p].latest
      BY <1>1, <2>2 DEF PriceInv
    <2> QED BY <2>1, <2>2, AdministerPrices
  <1> QED BY <1>1, <1>4, <1>5 DEF PriceInv, LastPrice

LEMMA RoundPriceInv ==
    ASSUME TypeInv, PriceInv, phase = "matching", Round
    PROVE  PriceInv'
  <1>1. /\ InLoop /\ RoundPasses(Deal) /\ deals' = Append(deals, Deal)
        /\ txn' = [txn EXCEPT !.count = @ + 1, !.price = Deal.price]
        /\ UNCHANGED <<sympair, sympairId, phase, undo>>
    BY DEF Round, admin
  <1>2. Deal \in DealType /\ Deal.pair = txn.pair
    BY <1>1, RoundAmounts
  <1>3. Deal.price > 0
    <2>1. orders[buyIt.id] \in QueuedType /\ orders[sellIt.id] \in QueuedType
      BY <1>1, RoundOrders
    <2>2. orders[MakerId].price \in 1 .. MaxInt64
      BY <2>1 DEF MakerId, QueuedType
    <2>3. Deal.price = orders[MakerId].price
      BY DEF Deal
    <2> QED BY <2>2, <2>3, MaxInt64Assumption
  <1>4. txn \in TxnType /\ deals \in Seq(DealType) /\ txn.pair \in DOMAIN sympair
        /\ IsTable(sympair, 1 .. sympairId, PairType) /\ sympairId \in Nat
    BY BoundsAssumption DEF TypeInv, TypeOK
  <1>5. txn'.pair = txn.pair /\ txn'.price = Deal.price
    BY <1>1, <1>4 DEF TxnType
  <1>6. PairsKnown(deals)'
    <2>1. /\ DOMAIN deals' = DOMAIN deals \cup {Len(deals) + 1}
          /\ \A n \in DOMAIN deals : deals'[n] = deals[n]
          /\ deals'[Len(deals) + 1] = Deal
      BY <1>1, <1>2, <1>4, AppendDeal
    <2>2. Deal.pair <= sympairId
      BY <1>2, <1>4 DEF IsTable
    <2> QED BY <1>1, <2>1, <2>2 DEF PriceInv, PairsKnown
  <1>7. \A p : LastPrice(deals', p) = IF p = txn.pair THEN Deal.price ELSE LastPrice(deals, p)
    BY <1>1, <1>2, <1>4, NextLastPrice
  <1>8. \A p \in DOMAIN sympair : p # txn.pair => LastPrice(deals, p) = LastPrice(undo.deals, p)
    BY DEF PriceInv
  <1>9. ASSUME NEW p \in DOMAIN sympair'
        PROVE  /\ sympair'[p].latest = LastPrice(undo'.deals, p)
               /\ LastPrice(deals', p) = IF p = txn'.pair /\ txn'.price > 0 THEN txn'.price
                                         ELSE LastPrice(undo'.deals, p)
    BY <1>1, <1>3, <1>5, <1>7, <1>8 DEF PriceInv
  <1>10. PairsKnown(undo.deals)'
    BY <1>1 DEF PriceInv, PairsKnown
  <1> QED BY <1>1, <1>6, <1>9, <1>10 DEF PriceInv, Idle, LastPrice

LEMMA NextPriceInv ==
    ASSUME TypeInv, PriceInv, [Next]_vars
    PROVE  PriceInv'
  <1>1. ASSUME Idle, UNCHANGED <<sympair, sympairId, deals, phase>> PROVE PriceInv'
    BY <1>1 DEF PriceInv, PairsKnown, Idle, LastPrice
  <1>2. CASE Administer
    BY <1>2, AdministerPriceInv
  <1>3. ASSUME Idle, UNCHANGED <<sympair, sympairId, deals>>, NEW action, NEW pair, NEW limit,
               NEW table, BeginMatching(action, pair, limit, table)
        PROVE  PriceInv'
    <2>1. /\ phase' = "matching" /\ txn'.price = 0 /\ undo'.deals = deals
      BY <1>3 DEF BeginMatching
    <2> QED BY <1>3, <2>1 DEF PriceInv, PairsKnown, Idle, LastPrice
  <1>4. CASE Place
    <2>1. ASSUME NEW r, NEW signers, CreateOrder(r, signers) PROVE PriceInv'
      BY <1>1, <2>1 DEF CreateOrder, admin, money, loop
    <2>2. ASSUME NEW u, DelQueueOrd(u) PROVE PriceInv'
      BY <1>1, <2>2 DEF DelQueueOrd, admin, money, loop
    <2>3. ASSUME NEW u, NEW t, NEW q, OnTransfer(u, t, q) PROVE PriceInv'
      <3>1. /\ Idle /\ UNCHANGED <<admin, rewards, deals>>
            /\ \E action, pair, limit : BeginMatching(action, pair, limit, orders')
        BY <2>3 DEF OnTransfer
      <3> QED BY <1>3, <3>1 DEF admin
    <2> QED BY <1>4, <2>1, <2>2, <2>3 DEF Place, NewOrder, Buy, Sell
  <1>5. CASE MatchAny
    BY <1>3, <1>5 DEF MatchAny, Match, admin, money
  <1>6. CASE Leave
    <2>1. Idle /\ UNCHANGED <<admin, deals, loop>>
      BY <1>6 DEF Leave, Cancel, Withdraw
    <2> QED BY <1>1, <2>1 DEF admin, loop
  <1>7. CASE Round
    BY <1>7, RoundPriceInv DEF Round
  <1>8. CASE Finish
    <2>1. /\ phase = "matching" /\ phase' = "idle" /\ deals' = deals /\ sympairId' = sympairId
          /\ sympair' = UpdateLatestDealPrice(txn.pair, txn.price)
      BY <1>8 DEF Finish, EndTransaction, money
    <2>2. /\ txn.price \in Nat /\ txn.pair \in DOMAIN sympair
          /\ IsTable(sympair, 1 .. sympairId, PairType)
      BY <2>1 DEF TypeInv, TypeOK, TxnType
    <2>3. ASSUME NEW p \in DOMAIN sympair'
          PROVE  sympair'[p].latest = LastPrice(deals, p)
      <3>1. CASE txn.price > 0
        <4>1. sympair' = [sympair EXCEPT ![txn.pair].latest = txn.price]
          BY <2>1, <3>1 DEF UpdateLatestDealPrice
        <4>2. p = txn.pair => sympair'[p].latest = txn.price
          BY <2>2, <4>1 DEF IsTable, PairType
        <4>3. p # txn.pair => sympair'[p] = sympair[p]
          BY <4>1
        <4> QED BY <2>1, <3>1, <4>1, <4>2, <4>3 DEF PriceInv
      <3>2. CASE ~(txn.price > 0)
        BY <2>1, <3>2 DEF PriceInv, UpdateLatestDealPrice
      <3> QED BY <3>1, <3>2
    <2> QED BY <2>1, <2>3 DEF PriceInv, PairsKnown, LastPrice
  <1>9. CASE Abort
    <2>1. /\ phase = "matching" /\ phase' = "idle" /\ deals' = undo.deals
          /\ UNCHANGED <<sympair, sympairId>>
      BY <1>9 DEF Abort, EndTransaction, admin
    <2>2. PairsKnown(deals)'
      BY <2>1 DEF PriceInv, PairsKnown
    <2>3. ASSUME NEW p \in DOMAIN sympair'
          PROVE  sympair'[p].latest = LastPrice(deals', p)
      BY <2>1 DEF PriceInv
    <2> QED BY <2>1, <2>2, <2>3 DEF PriceInv, PairsKnown, LastPrice
  <1>10. CASE UNCHANGED vars
    <2>1. UNCHANGED <<sympair, sympairId, deals, phase, txn, undo>>
      BY <1>10 DEF vars, admin, money, loop
    <2>2. \A p : /\ LastPrice(deals, p)' = LastPrice(deals, p)
                  /\ LastPrice(undo.deals, p)' = LastPrice(undo.deals, p)
      BY <2>1 DEF LastPrice
    <2>3. PairsKnown(deals)' = PairsKnown(deals)
      BY <2>1 DEF PairsKnown
    <2>4. PairsKnown(undo.deals)' = PairsKnown(undo.deals)
      BY <2>1 DEF PairsKnown
    <2>5. CASE Idle
      BY <2>1, <2>2, <2>3, <2>5 DEF PriceInv, Idle
    <2>6. CASE ~Idle
      BY <2>1, <2>2, <2>3, <2>4, <2>6 DEF PriceInv, Idle
    <2> QED BY <2>5, <2>6
  <1> QED BY <1>2, <1>4, <1>5, <1>6, <1>7, <1>8, <1>9, <1>10 DEF Next

(* Between transactions the latest price of a listed pair is that of its   *)
(* last deal, zero when it has none: a rollback takes the deals back       *)
(* before the price is written, and a pair that is listed anew gets an id  *)
(* no deal carries.                                                        *)
THEOREM LatestPriceIsLast == Spec => []LatestPrice
  <1>1. Init => PriceInv
    BY DEF Init, PriceInv, PairsKnown, LastPrice, EmptyTable, Idle
  <1>2. TypeInv /\ PriceInv /\ [Next]_vars => PriceInv'
    BY NextPriceInv
  <1>3. PriceInv => LatestPrice
    BY DEF PriceInv, LatestPrice, LastPrice
  <1> QED BY <1>1, <1>2, <1>3, TypeInvInvariant, PTL DEF Spec

-----------------------------------------------------------------------------
(***************************************************************************)
(* The loop matches the best orders, and to the end.                       *)
(***************************************************************************)

(* No order of the book comes before the one that the iterator is on. *)
Leads(it, os, pair, side) ==
    \A j \in Book(os, pair, side) : it.id # 0 /\ (j = it.id \/ Before(os, it.id, j))

LoopInv ==
    phase = "matching" =>
        /\ Leads(buyIt, orders, txn.pair, BUY)
        /\ Leads(sellIt, orders, txn.pair, SELL)
        /\ txn.count <= txn.limit
        /\ Len(deals) = Len(undo.deals) + txn.count

LEMMA LoadLeads ==
    ASSUME NEW table, NEW S \in SUBSET (Nat \ {0}),
           \A i \in S : table[i] \in QueuedType
    PROVE  \A j \in S : LET it == Load(table, S)
                        IN  it.id # 0 /\ (j = it.id \/ Before(table, it.id, j))
  <1> DEFINE i == First(table, S)
  <1> SUFFICES ASSUME S # {}
               PROVE  \A j \in S : LET it == Load(table, S)
                        IN  it.id # 0 /\ (j = it.id \/ Before(table, it.id, j))
    OBVIOUS
  <1>1. i \in S /\ \A j \in S \ {i} : Before(table, i, j)
    BY FirstIsMember
  <1>2. Load(table, S).id = i
    BY DEF Load
  <1> HIDE DEF i
  <1> QED BY <1>1, <1>2

LEMMA BookNotZero ==
    ASSUME TypeInv, NEW pair, NEW side
    PROVE  /\ Book(orders, pair, side) \in SUBSET (Nat \ {0})
           /\ \A i \in Book(orders, pair, side) : orders[i] \in QueuedType
  <1>1. IsTable(orders, 1 .. orderId, OrderType) /\ orderId \in Nat
    BY BoundsAssumption DEF TypeInv, TypeOK
  <1> QED BY <1>1 DEF IsTable, Book, OrderType

LEMMA BeginLoopInv ==
    ASSUME TypeInv, TypeInv', NEW action, NEW pair, NEW limit \in Nat,
           BeginMatching(action, pair, limit, orders'), deals' = deals
    PROVE  LoopInv'
  <1>1. /\ buyIt' = Load(orders', Book(orders', pair, BUY))
        /\ sellIt' = Load(orders', Book(orders', pair, SELL))
        /\ txn'.pair = pair /\ txn'.limit = limit /\ txn'.count = 0
        /\ undo'.deals = deals
    BY DEF BeginMatching
  <1>2. IsTable(orders', 1 .. orderId', OrderType) /\ orderId' \in Nat
    BY BoundsAssumption DEF TypeInv, TypeOK
  <1>3. \A side : /\ Book(orders', pair, side) \in SUBSET (Nat \ {0})
                  /\ \A i \in Book(orders', pair, side) : orders'[i] \in QueuedType
    BY <1>2 DEF IsTable, Book, OrderType
  <1>4. \A side : Leads(Load(orders', Book(orders', pair, side)), orders', pair, side)
    BY <1>3, LoadLeads DEF Leads
  <1>5. Len(deals) \in Nat
    BY DEF TypeInv, TypeOK
  <1>6. Len(deals') = Len(undo'.deals) + txn'.count /\ txn'.count <= txn'.limit
    BY <1>1, <1>5
  <1>7. /\ Leads(buyIt', orders', txn'.pair, BUY)
        /\ Leads(sellIt', orders', txn'.pair, SELL)
    BY <1>1, <1>4
  <1> QED BY <1>6, <1>7 DEF LoopInv

(* The iterator of one side after a round. *)
LEMMA StillLeads ==
    ASSUME TypeInv, NEW it, NEW next, NEW pair, NEW side, NEW gone,
           it.id \in Book(orders, pair, side), Leads(it, orders, pair, side),
           gone \cap Book(orders, pair, side) \subseteq {it.id},
           IF it.id \in gone THEN next = NextOf(orders, it) ELSE next.id = it.id
    PROVE  Leads(next, Restrict(orders, DOMAIN orders \ gone), pair, side)
  <1> DEFINE os == Restrict(orders, DOMAIN orders \ gone)
             B  == Book(orders, pair, side)
             S  == {j \in B : Before(orders, it.id, j)}
  <1>1. /\ Book(os, pair, side) = B \ gone
        /\ \A j \in DOMAIN os : j \in DOMAIN orders \ gone /\ os[j] = orders[j]
    BY DEF Restrict, Book
  <1>2. B \in SUBSET (Nat \ {0}) /\ \A i \in B : orders[i] \in QueuedType
    BY BookNotZero
  <1>3. \A j \in B : j = it.id \/ Before(orders, it.id, j)
    BY DEF Leads
  <1>4. CASE it.id \notin gone
    <2>1. next.id = it.id /\ it.id \in DOMAIN os /\ it.id # 0
      BY <1>1, <1>2, <1>4 DEF Book
    <2> HIDE DEF os
    <2>2. \A j \in Book(os, pair, side) :
             next.id # 0 /\ (j = next.id \/ Before(os, next.id, j))
      BY <1>1, <1>3, <2>1 DEF Before, Book
    <2> QED BY <2>2 DEF Leads, os
  <1>5. CASE it.id \in gone
    <2>1. next = Load(orders, S)
      BY <1>5 DEF NextOf, Book
    <2>2. S \in SUBSET (Nat \ {0}) /\ \A i \in S : orders[i] \in QueuedType
      BY <1>2
    <2> HIDE DEF os
    <2>3. \A j \in Book(os, pair, side) : j \in S /\ j \in DOMAIN os
      BY <1>1, <1>3, <1>5 DEF Book
    <2> HIDE DEF S
    <2>4. \A j \in S : next.id # 0 /\ (j = next.id \/ Before(orders, next.id, j))
      BY <2>1, <2>2, LoadLeads
    <2>5. next.id # 0 => next.id \in B /\ next.id \notin gone
      <3>1. IsTable(orders, 1 .. orderId, OrderType) /\ orderId \in Nat
        BY BoundsAssumption DEF TypeInv, TypeOK
      <3>2. /\ next = NextOf(orders, it) /\ it.id \in DOMAIN orders
            /\ orders[it.id].pair = pair /\ orders[it.id].side = side
        BY <1>5 DEF Book
      <3>3. next.id # 0 => next.id # it.id /\ next.id \in B
        BY <3>1, <3>2, NextOfType
      <3> QED BY <3>3
    <2>6. next.id # 0 => next.id \in DOMAIN os
      BY <1>1, <2>5 DEF Book
    <2>7. \A j \in Book(os, pair, side) :
             next.id # 0 /\ (j = next.id \/ Before(os, next.id, j))
      BY <1>1, <2>3, <2>4, <2>6 DEF Before
    <2> QED BY <2>7 DEF Leads, os
  <1> QED BY <1>4, <1>5

LEMMA RoundLoopInv ==
    ASSUME TypeInv, LoopInv, phase = "matching", Round
    PROVE  LoopInv'
  <1> DEFINE newBuy  == Filled(buyIt, Deal, Deal.buy_fee)
             newSell == Filled(sellIt, Deal, Deal.sell_fee)
             gone == {i \in {buyIt.id, sellIt.id} :
                        Completed(IF i = buyIt.id THEN newBuy ELSE newSell)}
             os == Restrict(orders, DOMAIN orders \ gone)
  <1>1. /\ InLoop /\ RoundPasses(Deal) /\ deals' = Append(deals, Deal)
        /\ txn' = [txn EXCEPT !.count = @ + 1, !.price = Deal.price]
        /\ UNCHANGED <<phase, undo>>
    BY DEF Round
  <1>2. /\ orders' = os
        /\ IF Completed(newBuy) THEN buyIt' = NextOf(orders, buyIt)
                                ELSE buyIt' = newBuy
        /\ IF Completed(newSell) THEN sellIt' = NextOf(orders, sellIt)
                                 ELSE sellIt' = newSell
    BY RoundIterators
  <1>3. /\ buyIt \in ItType /\ sellIt \in ItType /\ buyIt.id # sellIt.id
        /\ buyIt.id \in Book(orders, txn.pair, BUY)
        /\ sellIt.id \in Book(orders, txn.pair, SELL)
    BY <1>1, RoundOrders
  <1>4. /\ Deal \in DealType /\ Deal.buy_fee \in Nat /\ Deal.sell_fee \in Nat
    BY <1>1, RoundAmounts DEF DealType
  <1>5. txn \in TxnType /\ deals \in Seq(DealType) /\ undo.deals \in Seq(DealType)
    BY DEF TypeInv, TypeOK, UndoTypeOK
  <1>6. newBuy.id = buyIt.id /\ newSell.id = sellIt.id
    BY <1>3, <1>4, <1>5, FilledType
  <1>7. /\ buyIt.id \in gone <=> Completed(newBuy)
        /\ sellIt.id \in gone <=> Completed(newSell)
        /\ gone \subseteq {buyIt.id, sellIt.id}
    BY <1>3
  <1>8. /\ gone \cap Book(orders, txn.pair, BUY) \subseteq {buyIt.id}
        /\ gone \cap Book(orders, txn.pair, SELL) \subseteq {sellIt.id}
    BY <1>3, <1>7 DEF Book, BUY, SELL
  <1> HIDE DEF newBuy, newSell, gone
  <1>9. /\ IF buyIt.id \in gone THEN buyIt' = NextOf(orders, buyIt)
                                ELSE buyIt'.id = buyIt.id
        /\ IF sellIt.id \in gone THEN sellIt' = NextOf(orders, sellIt)
                                 ELSE sellIt'.id = sellIt.id
    BY <1>2, <1>6, <1>7
  <1>10. Leads(buyIt, orders, txn.pair, BUY) /\ Leads(sellIt, orders, txn.pair, SELL)
    BY DEF LoopInv
  <1>11. Leads(buyIt', os, txn.pair, BUY)
    BY <1>3, <1>8, <1>9, <1>10, StillLeads
  <1>12. Leads(sellIt', os, txn.pair, SELL)
    BY <1>3, <1>8, <1>9, <1>10, StillLeads
  <1>13. /\ txn'.pair = txn.pair /\ txn'.limit = txn.limit /\ txn'.count = txn.count + 1
         /\ txn.count \in Nat /\ txn.limit \in Nat /\ txn.count < txn.limit
    BY <1>1, <1>5 DEF TxnType, InLoop
  <1>14. Len(deals') = Len(deals) + 1 /\ Len(deals) \in Nat /\ Len(undo.deals) \in Nat
    BY <1>1, <1>4, <1>5, AppendDeal
  <1>15. Len(deals') = Len(undo'.deals) + txn'.count /\ txn'.count <= txn'.limit
    <2>1. Len(deals) = Len(undo.deals) + txn.count
      BY DEF LoopInv
    <2>2. Len(undo'.deals) = Len(undo.deals)
      BY <1>1
    <2>3. Len(deals') = Len(undo'.deals) + txn'.count
      BY <1>13, <1>14, <2>1, <2>2
    <2>4. txn'.count <= txn'.limit
      BY <1>13
    <2> QED BY <2>3, <2>4
  <1>16. /\ Leads(buyIt', orders', txn'.pair, BUY)
         /\ Leads(sellIt', orders', txn'.pair, SELL)
    BY <1>2, <1>11, <1>12, <1>13
  <1> QED BY <1>15, <1>16 DEF LoopInv

LEMMA NextLoopInv ==
    ASSUME TypeInv, TypeInv', LoopInv, [Next]_vars
    PROVE  LoopInv'
  <1>1. ASSUME phase' = "idle" PROVE LoopInv'
    BY <1>1 DEF LoopInv
  <1>2. CASE Administer
    BY <1>1, <1>2 DEF Administer, InitDex, SetConfig, SetSymPair, OnOffSymPair,
                      DelSymPair, Idle, loop
  <1>3. CASE Place
    <2>1. ASSUME NEW r, NEW signers, CreateOrder(r, signers) PROVE LoopInv'
      BY <1>1, <2>1 DEF CreateOrder, Idle, loop
    <2>2. ASSUME NEW u, DelQueueOrd(u) PROVE LoopInv'
      BY <1>1, <2>2 DEF DelQueueOrd, Idle, loop
    <2>3. ASSUME NEW u, NEW t, NEW q, OnTransfer(u, t, q) PROVE LoopInv'
      <3>1. /\ deals' = deals
            /\ BeginMatching("ontransfer", queue[u].pair, config.max_match_count, orders')
        BY <2>3 DEF OnTransfer
      <3>2. config.max_match_count \in Nat
        BY DEF TypeInv, TypeOK, ConfigType
      <3> QED BY <3>1, <3>2, BeginLoopInv
    <2> QED BY <1>3, <2>1, <2>2, <2>3 DEF Place, NewOrder, Buy, Sell
  <1>4. CASE MatchAny
    <2>1. PICK p \in DOMAIN sympair, n \in MatchCounts : Match(p, n)
      BY <1>4 DEF MatchAny
    <2>2. /\ deals' = deals /\ orders' = orders /\ n \in Nat
          /\ BeginMatching("match", p, n, orders')
      BY <2>1, InputsAssumption DEF Match, books, money
    <2> QED BY <2>2, BeginLoopInv
  <1>5. CASE Leave
    BY <1>1, <1>5 DEF Leave, Cancel, Withdraw, Idle, loop
  <1>6. CASE Round
    BY <1>6, RoundLoopInv DEF Round
  <1>7. CASE Finish \/ Abort
    BY <1>1, <1>7 DEF Finish, Abort, EndTransaction
  <1>8. CASE UNCHANGED vars
    <2>1. UNCHANGED <<orders, deals, phase, txn, buyIt, sellIt, undo>>
      BY <1>8 DEF vars, books, money, loop
    <2> QED BY <2>1 DEF LoopInv
  <1> QED BY <1>2, <1>3, <1>4, <1>5, <1>6, <1>7, <1>8 DEF Next

LEMMA LoopInvInvariant == Spec => []LoopInv
  <1>1. Init => LoopInv
    BY DEF Init, LoopInv
  <1>2. TypeInv /\ TypeInv' /\ LoopInv /\ [Next]_vars => LoopInv'
    BY NextLoopInv
  <1> QED BY <1>1, <1>2, TypeInvInvariant, PTL DEF Spec

(* Only a round adds a deal. *)
LEMMA DealsGrow ==
    ASSUME TypeInv, LoopInv, [Next]_vars, Len(deals') > Len(deals)
    PROVE  Round
  <1>1. deals' # deals
    BY DEF TypeInv, TypeOK
  <1>2. ~Administer
    BY <1>1 DEF Administer, InitDex, SetConfig, SetSymPair, OnOffSymPair, DelSymPair, money
  <1>3. ~Place
    <2>1. \A r, signers : ~CreateOrder(r, signers)
      BY <1>1 DEF CreateOrder, money
    <2>2. \A u : ~DelQueueOrd(u)
      BY <1>1 DEF DelQueueOrd, money
    <2>3. \A u, t, q : ~OnTransfer(u, t, q)
      BY <1>1 DEF OnTransfer
    <2> QED BY <2>1, <2>2, <2>3 DEF Place, NewOrder, Buy, Sell
  <1>4. ~MatchAny /\ ~Leave /\ ~Finish
    BY <1>1 DEF MatchAny, Match, Leave, Cancel, Withdraw, Finish, money
  <1>5. ~Abort
    <2> SUFFICES ASSUME Abort PROVE FALSE
      OBVIOUS
    <2>1. deals' = undo.deals /\ phase = "matching"
      BY DEF Abort
    <2>2. /\ undo.deals \in Seq(DealType) /\ deals \in Seq(DealType) /\ txn.count \in Nat
      BY <2>1 DEF TypeInv, TypeOK, UndoTypeOK, TxnType
    <2>3. Len(undo.deals) \in Nat /\ Len(deals) = Len(undo.deals) + txn.count
      BY <2>1, <2>2 DEF LoopInv
    <2> QED BY <2>1, <2>2, <2>3
  <1>6. ~UNCHANGED vars
    BY <1>1 DEF vars, money
  <1> QED BY <1>2, <1>3, <1>4, <1>5, <1>6 DEF Next

LEMMA RoundIsBest ==
    ASSUME TypeInv, LoopInv, phase = "matching", Round
    PROVE  LET d == deals'[Len(deals')]
               price(i) == orders[i].price
           IN  /\ \A i \in Book(orders, d.pair, BUY) :
                    /\ price(i) <= price(d.buy)
                    /\ price(i) = price(d.buy) => d.buy <= i
               /\ \A i \in Book(orders, d.pair, SELL) :
                    /\ price(i) >= price(d.sell)
                    /\ price(i) = price(d.sell) => d.sell <= i
               /\ orders[d.buy].price >= d.price /\ d.price >= orders[d.sell].price
               /\ d.price = orders[Min({d.buy, d.sell})].price
  <1> DEFINE price(i) == orders[i].price
             pair == txn.pair
  <1>1. /\ InLoop /\ RoundPasses(Deal) /\ deals' = Append(deals, Deal)
    BY DEF Round
  <1>2. Deal \in DealType /\ Deal.pair = pair /\ Deal.buy = buyIt.id /\ Deal.sell = sellIt.id
    BY <1>1, RoundAmounts
  <1>3. deals'[Len(deals')] = Deal
    <2>1. deals \in Seq(DealType)
      BY DEF TypeInv, TypeOK
    <2> QED BY <1>1, <1>2, <2>1, AppendDeal
  <1>4. /\ buyIt.id \in Book(orders, pair, BUY) /\ sellIt.id \in Book(orders, pair, SELL)
        /\ buyIt.id \in Nat /\ sellIt.id \in Nat /\ buyIt.id # sellIt.id
    BY <1>1, RoundOrders DEF ItType
  <1>5. \A side : \A i \in Book(orders, pair, side) :
           i \in Nat /\ price(i) \in Nat /\ orders[i].side = side
    <2> TAKE side
    <2> TAKE i \in Book(orders, pair, side)
    <2>1. i \in Nat /\ orders[i] \in QueuedType /\ orders[i].side = side
      BY BookNotZero DEF Book
    <2> QED BY <2>1, MaxInt64Assumption DEF QueuedType
  <1>6. \A i \in Book(orders, pair, BUY) :
           price(i) <= price(buyIt.id) /\ (price(i) = price(buyIt.id) => buyIt.id <= i)
    <2> TAKE i \in Book(orders, pair, BUY)
    <2>1. i = buyIt.id \/ Before(orders, buyIt.id, i)
      BY DEF LoopInv, Leads
    <2>2. MaxUint64 \in Nat
      BY BoundsAssumption
    <2> QED BY <1>4, <1>5, <2>1, <2>2 DEF Before, PriceKey
  <1>7. \A i \in Book(orders, pair, SELL) :
           price(i) >= price(sellIt.id) /\ (price(i) = price(sellIt.id) => sellIt.id <= i)
    <2> TAKE i \in Book(orders, pair, SELL)
    <2>1. i = sellIt.id \/ Before(orders, sellIt.id, i)
      BY DEF LoopInv, Leads
    <2> QED BY <1>4, <1>5, <2>1 DEF Before, PriceKey, BUY, SELL
  <1>8. Deal.price = price(MakerId) /\ price(buyIt.id) >= price(sellIt.id)
    BY <1>1 DEF Deal, InLoop, CanMatch
  <1>9. MakerId \in {buyIt.id, sellIt.id}
    BY DEF MakerId
  <1>10. price(buyIt.id) >= Deal.price /\ Deal.price >= price(sellIt.id)
    BY <1>4, <1>5, <1>8, <1>9
  <1>11. MakerId = Min({buyIt.id, sellIt.id})
    <2>1. MakerId \in {buyIt.id, sellIt.id}
          /\ \A y \in {buyIt.id, sellIt.id} : MakerId <= y
      BY <1>4 DEF MakerId
    <2>2. \A x \in {buyIt.id, sellIt.id} :
             (\A y \in {buyIt.id, sellIt.id} : x <= y) => x = MakerId
      BY <1>4, <2>1
    <2> QED BY <2>1, <2>2 DEF Min
  <1> QED BY <1>2, <1>3, <1>6, <1>7, <1>8, <1>10, <1>11

(* Every deal is made between the buy and the sell order that lead their   *)
(* index, also after rounds that completed and erased several of them, at  *)
(* the price of the older one.                                             *)
THEOREM BestOrdersMatch == Spec => BestOrdersFirst
  <1>1. TypeInv /\ LoopInv /\ [Next]_vars =>
          (Len(deals') > Len(deals) =>
             LET d == deals'[Len(deals')]
                 price(i) == orders[i].price
             IN  /\ \A i \in Book(orders, d.pair, BUY) :
                      /\ price(i) <= price(d.buy)
                      /\ price(i) = price(d.buy) => d.buy <= i
                 /\ \A i \in Book(orders, d.pair, SELL) :
                      /\ price(i) >= price(d.sell)
                      /\ price(i) = price(d.sell) => d.sell <= i
                 /\ orders[d.buy].price >= d.price /\ d.price >= orders[d.sell].price
                 /\ d.price = orders[Min({d.buy, d.sell})].price)
    <2> SUFFICES ASSUME TypeInv, LoopInv, [Next]_vars, Len(deals') > Len(deals)
                 PROVE  LET d == deals'[Len(deals')]
                            price(i) == orders[i].price
                        IN  /\ \A i \in Book(orders, d.pair, BUY) :
                                 /\ price(i) <= price(d.buy)
                                 /\ price(i) = price(d.buy) => d.buy <= i
                            /\ \A i \in Book(orders, d.pair, SELL) :
                                 /\ price(i) >= price(d.sell)
                                 /\ price(i) = price(d.sell) => d.sell <= i
                            /\ orders[d.buy].price >= d.price
                            /\ d.price >= orders[d.sell].price
                            /\ d.price = orders[Min({d.buy, d.sell})].price
      OBVIOUS
    <2>1. Round
      BY DealsGrow
    <2>2. phase = "matching"
      BY <2>1 DEF Round
    <2> QED BY <2>1, <2>2, RoundIsBest
  <1> QED BY <1>1, TypeInvInvariant, LoopInvInvariant, PTL DEF Spec, BestOrdersFirst

LEMMA FinishIsEnd ==
    ASSUME TypeInv, LoopInv, phase = "matching", Finish
    PROVE  LET made == Len(deals) - Len(undo.deals)
           IN  /\ made <= txn.limit
               /\ made < txn.limit => \A p \in {txn.pair} : ~Crossed(p)'
  <1>1. txn \in TxnType /\ deals \in Seq(DealType) /\ undo.deals \in Seq(DealType)
    BY DEF TypeInv, TypeOK, UndoTypeOK
  <1>2. /\ txn.count \in Nat /\ txn.limit \in Nat
        /\ Len(deals) \in Nat /\ Len(undo.deals) \in Nat
    BY <1>1 DEF TxnType
  <1>3. Len(deals) - Len(undo.deals) = txn.count /\ txn.count <= txn.limit
    BY <1>2 DEF LoopInv
  <1>4. ASSUME txn.count < txn.limit PROVE ~Crossed(txn.pair)
    <2>1. ~CanMatch
      BY <1>4 DEF Finish, InLoop
    <2>2. SUFFICES ASSUME NEW b \in Book(orders, txn.pair, BUY),
                          NEW s \in Book(orders, txn.pair, SELL),
                          orders[b].price >= orders[s].price
                   PROVE  FALSE
      BY DEF Crossed
    <2>3. /\ buyIt.id # 0 /\ (b = buyIt.id \/ Before(orders, buyIt.id, b))
          /\ sellIt.id # 0 /\ (s = sellIt.id \/ Before(orders, sellIt.id, s))
      BY DEF LoopInv, Leads
    <2>4. buyIt.id \in Book(orders, txn.pair, BUY) /\ sellIt.id \in Book(orders, txn.pair, SELL)
      BY <2>3 DEF TypeInv, TypeOK, OnBook
    <2>5. \A side : \A i \in Book(orders, txn.pair, side) :
             orders[i].price \in Nat /\ orders[i].side = side
      <3> TAKE side
      <3> TAKE i \in Book(orders, txn.pair, side)
      <3>1. orders[i] \in QueuedType /\ orders[i].side = side
        BY BookNotZero DEF Book
      <3> QED BY <3>1, MaxInt64Assumption DEF QueuedType
    <2>6. MaxUint64 \in Nat
      BY BoundsAssumption
    <2>7. orders[b].price <= orders[buyIt.id].price
      BY <2>3, <2>4, <2>5, <2>6 DEF Before, PriceKey
    <2>8. orders[sellIt.id].price <= orders[s].price
      BY <2>3, <2>4, <2>5 DEF Before, PriceKey, BUY, SELL
    <2>9. orders[buyIt.id].price >= orders[sellIt.id].price
      BY <2>2, <2>4, <2>5, <2>7, <2>8
    <2> QED BY <2>1, <2>3, <2>9 DEF CanMatch
  <1>5. Crossed(txn.pair) = (\E b \in Book(orders', txn.pair, BUY),
                                s \in Book(orders', txn.pair, SELL) :
                                   orders'[b].price >= orders'[s].price)
    BY FinishOrders DEF Crossed, Book
  <1>6. ASSUME NEW p \in {txn.pair}, txn.count < txn.limit PROVE ~Crossed(p)'
    BY <1>4, <1>5, <1>6 DEF Crossed
  <1> QED BY <1>3, <1>6

(* A transaction that is not rolled back leaves no two orders of its pair  *)
(* crossed, unless it has made as many deals as it was allowed.            *)
THEOREM MatchesToTheEnd == Spec => MatchedToTheEnd
  <1>1. TypeInv /\ LoopInv /\ [Next]_vars =>
          (Finish =>
             LET made == Len(deals) - Len(undo.deals)
             IN  /\ made <= txn.limit
                 /\ made < txn.limit => \A p \in {txn.pair} : ~Crossed(p)')
    BY FinishIsEnd DEF Finish
  <1> QED BY <1>1, TypeInvInvariant, LoopInvInvariant, PTL DEF Spec, MatchedToTheEnd

-----------------------------------------------------------------------------
(***************************************************************************)
(* The contract holds exactly what it owes.  The fees of a deal must be    *)
(* split without a rest below zero, so the reward ratios of a              *)
(* configuration may not exceed ten thousand together; setconfig does not  *)
(* check it, and the theorems say it as a hypothesis.                      *)
(***************************************************************************)
(* What an order with this fill still holds of a token. *)
Part(row, fill, t) ==
    IF row.token = t
    THEN row.frozen - (IF row.side = BUY THEN fill.matched_coin ELSE fill.matched_asset)
    ELSE 0

(* The parts of the orders as they are, and as a table says.               *)
LiveParts(t) == [i \in DOMAIN orders |-> Part(orders[i], Fill(i), t)]
RowParts(os, t) == [i \in DOMAIN os |-> Part(os[i], os[i], t)]

OwedOf(rw, t) == SumFunctionOnSet([a \in Accounts |-> rw[a][t]], Accounts)

Backed(os, rw, w) ==
    \A t \in Tokens :
        w[Dex][t] = SumFunctionOnSet(RowParts(os, t), DOMAIN os) + OwedOf(rw, t)

SolventInv ==
    /\ RewardsFit(config)
    /\ \A t \in Tokens :
          wallet[Dex][t] = SumFunctionOnSet(LiveParts(t), DOMAIN orders) + OwedOf(rewards, t)
    /\ phase = "matching" => Backed(undo.orders, undo.rewards, undo.wallet)

LEMMA PartIsInt ==
    ASSUME NEW row \in QueuedType, NEW fill, fill.matched_asset \in Nat,
           fill.matched_coin \in Nat, NEW t
    PROVE  Part(row, fill, t) \in Int
  BY DEF Part, QueuedType

LEMMA RowPartsType ==
    ASSUME NEW os, NEW n \in Nat, IsTable(os, 1 .. n, OrderType), NEW t
    PROVE  /\ IsFiniteSet(DOMAIN os)
           /\ \A i \in DOMAIN os : os[i] \in QueuedType /\ RowParts(os, t)[i] \in Int
  <1>1. DOMAIN os \subseteq 1 .. n /\ \A i \in DOMAIN os : os[i] \in QueuedType
    BY DEF IsTable, OrderType
  <1>2. IsFiniteSet(DOMAIN os)
    BY <1>1, FS_Interval, FS_Subset
  <1>3. ASSUME NEW i \in DOMAIN os PROVE RowParts(os, t)[i] \in Int
    <2>1. os[i].matched_asset \in Nat /\ os[i].matched_coin \in Nat
      BY <1>1 DEF QueuedType
    <2>2. Part(os[i], os[i], t) \in Int
      BY <1>1, <2>1, PartIsInt
    <2> QED BY <2>2 DEF RowParts
  <1> QED BY <1>1, <1>2, <1>3

LEMMA LivePartsType ==
    ASSUME TypeInv, NEW t
    PROVE  /\ IsFiniteSet(DOMAIN orders)
           /\ \A i \in DOMAIN orders : orders[i] \in QueuedType /\ LiveParts(t)[i] \in Int
  <1>1. /\ IsTable(orders, 1 .. orderId, OrderType) /\ orderId \in Nat
        /\ buyIt \in ItType /\ sellIt \in ItType
    BY BoundsAssumption DEF TypeInv, TypeOK
  <1>2. /\ IsFiniteSet(DOMAIN orders)
        /\ \A i \in DOMAIN orders : orders[i] \in QueuedType
    BY <1>1, RowPartsType
  <1>3. ASSUME NEW i \in DOMAIN orders PROVE LiveParts(t)[i] \in Int
    <2>1. Fill(i).matched_asset \in Nat /\ Fill(i).matched_coin \in Nat
      BY <1>1, <1>2 DEF Fill, QueuedType, ItType
    <2>2. Part(orders[i], Fill(i), t) \in Int
      BY <1>2, <2>1, PartIsInt
    <2> QED BY <2>2 DEF LiveParts
  <1> QED BY <1>2, <1>3

(* The sums of the model are these sums. *)
LEMMA LockedIsSum ==
    ASSUME TypeInv, NEW S \in SUBSET DOMAIN orders, NEW t
    PROVE  Locked(S, t) = SumFunctionOnSet(LiveParts(t), S)
  <1> DEFINE f == [i \in S |-> IF orders[i].token = t THEN Held(i) ELSE 0]
  <1>1. IsFiniteSet(S) /\ \A i \in S : LiveParts(t)[i] \in Int
    BY LivePartsType, FS_Subset
  <1>2. \A i \in S : LiveParts(t)[i] = f[i]
    BY DEF LiveParts, Part, Held
  <1> HIDE DEF f
  <1>3. SumFunctionOnSet(LiveParts(t), S) = SumFunctionOnSet(f, S)
    BY <1>1, <1>2, SumSame
  <1> QED BY <1>3 DEF Locked, f

LEMMA IdleParts ==
    ASSUME Idle, NEW t
    PROVE  LiveParts(t) = RowParts(orders, t)
  BY DEF Idle, Fill, LiveParts, RowParts

LEMMA IdleIsBacked ==
    ASSUME Idle, SolventInv
    PROVE  Backed(orders, rewards, wallet)
  BY IdleParts DEF SolventInv, Backed

LEMMA IdleSolventInv ==
    ASSUME phase' = "idle", RewardsFit(config'), Backed(orders', rewards', wallet')
    PROVE  SolventInv'
  <1>1. \A t : LiveParts(t)' = RowParts(orders', t)
    BY DEF Fill, LiveParts, RowParts
  <1> QED BY <1>1 DEF SolventInv, Backed, RewardsFit, OwedOf

(* A booked order adds its part to the sums, and takes it along.           *)
LEMMA AddedRow ==
    ASSUME NEW os, NEW n \in Nat, IsTable(os, 1 .. n, OrderType),
           NEW id, id \notin DOMAIN os, NEW row \in QueuedType, NEW t,
           NEW S \in SUBSET DOMAIN os
    PROVE  SumFunctionOnSet(RowParts(Put(os, id, row), t), S \cup {id})
             = Part(row, row, t) + SumFunctionOnSet(RowParts(os, t), S)
  <1> DEFINE f == RowParts(os, t)
             g == RowParts(Put(os, id, row), t)
  <1>1. IsFiniteSet(S) /\ \A i \in S : f[i] \in Int /\ f[i] = g[i]
    <2>1. IsFiniteSet(DOMAIN os) /\ \A i \in DOMAIN os : f[i] \in Int
      BY RowPartsType
    <2> QED BY <2>1, FS_Subset DEF RowParts, Put
  <1>2. g[id] = Part(row, row, t)
    BY DEF RowParts, Put
  <1>3. g[id] \in Int
    BY <1>2, PartIsInt DEF QueuedType
  <1> HIDE DEF f, g
  <1>4. SumFunctionOnSet(f, S) = SumFunctionOnSet(g, S)
    BY <1>1, SumSame
  <1>5. IsFiniteSet(S \cup {id}) /\ (S \cup {id}) \ {id} = S
    BY <1>1, FS_AddElement
  <1>6. \A i \in S \cup {id} : g[i] \in Int
    BY <1>1, <1>3
  <1>7. SumFunctionOnSet(g, S \cup {id}) = g[id] + SumFunctionOnSet(g, S)
    BY <1>5, <1>6, SumRemove
  <1> QED BY <1>2, <1>4, <1>7 DEF f, g

LEMMA RemovedRow ==
    ASSUME NEW os, NEW n \in Nat, IsTable(os, 1 .. n, OrderType), NEW t,
           NEW S \in SUBSET DOMAIN os, NEW id \in S
    PROVE  /\ SumFunctionOnSet(RowParts(os, t), S)
                = Part(os[id], os[id], t) + SumFunctionOnSet(RowParts(Delete(os, id), t), S \ {id})
           /\ SumFunctionOnSet(RowParts(Delete(os, id), t), S \ {id}) \in Int
  <1> DEFINE f == RowParts(os, t)
             g == RowParts(Delete(os, id), t)
             R == S \ {id}
  <1>1. IsFiniteSet(S) /\ \A i \in S : f[i] \in Int
    BY RowPartsType, FS_Subset
  <1>2. IsFiniteSet(R) /\ \A i \in R : f[i] \in Int /\ f[i] = g[i] /\ g[i] \in Int
    BY <1>1, FS_RemoveElement DEF RowParts, Delete
  <1>3. f[id] = Part(os[id], os[id], t)
    BY DEF RowParts
  <1> HIDE DEF f, g
  <1>4. SumFunctionOnSet(f, S) = f[id] + SumFunctionOnSet(f, R)
    BY <1>1, SumRemove
  <1>5. SumFunctionOnSet(f, R) = SumFunctionOnSet(g, R) /\ SumFunctionOnSet(g, R) \in Int
    <2> HIDE DEF R
    <2> QED BY <1>2, SumSame, SumIsInt
  <1> QED BY <1>3, <1>4, <1>5 DEF f, g

-----------------------------------------------------------------------------
(* The rewards.                                                            *)
LEMMA AccountsAreFinite ==
    ASSUME IsFiniteSet(Users)
    PROVE  IsFiniteSet(Accounts)
  <1>1. Accounts = ((Users \cup {Dex}) \cup {Admin}) \cup {Sys}
    BY DEF Accounts
  <1>2. IsFiniteSet(Users \cup {Dex})
    BY FS_AddElement
  <1>3. IsFiniteSet((Users \cup {Dex}) \cup {Admin})
    BY <1>2, FS_AddElement
  <1> QED BY <1>1, <1>3, FS_AddElement

LEMMA OwedIsNat ==
    ASSUME IsFiniteSet(Users), NEW rw \in Balances, NEW t \in Tokens
    PROVE  OwedOf(rw, t) \in Nat
  <1> DEFINE f == [a \in Accounts |-> rw[a][t]]
  <1>1. \A a \in Accounts : f[a] \in Nat
    BY DEF Balances
  <1> HIDE DEF f
  <1>2. SumFunctionOnSet(f, Accounts) \in Nat
    BY <1>1, AccountsAreFinite, SumIsNat
  <1> QED BY <1>2 DEF OwedOf, f

(* The whole fee is credited, to whomever.                                 *)
LEMMA FeeSharesSum ==
    ASSUME IsFiniteSet(Users), config \in ConfigType, RewardsFit(config),
           NEW user \in Users, NEW fee \in Nat
    PROVE  SumFunctionOnSet(FeeShares(user, fee), Accounts) = fee
  <1> DEFINE parent == Creator[user]
             pays   == config.parent_reward > 0 /\ parent # Sys
             grand  == Creator[parent]
             toParent == IF pays THEN RewardShare(fee, config.parent_reward) ELSE 0
             toGrand  == IF pays THEN RewardShare(fee, config.grand_reward) ELSE 0
             rest     == fee - toParent - toGrand
             f == [a \in Accounts |-> IF a = parent THEN toParent ELSE 0]
             g == [a \in Accounts |-> IF pays /\ a = grand THEN toGrand ELSE 0]
             h == [a \in Accounts |-> IF a = config.collector /\ rest > 0 THEN rest ELSE 0]
             k == [a \in Accounts |-> f[a] + g[a]]
  <1>0. IsFiniteSet(Accounts)
    BY AccountsAreFinite
  <1>1. toParent \in Nat /\ toGrand \in Nat /\ toParent + toGrand <= fee
    <2>1. config.parent_reward \in Nat /\ config.grand_reward \in Nat
      BY DEF ConfigType
    <2>2. /\ RewardShare(fee, config.parent_reward) \in Nat
          /\ RewardShare(fee, config.grand_reward) \in Nat
          /\ RewardShare(fee, config.parent_reward) + RewardShare(fee, config.grand_reward) <= fee
      BY <2>1, SharesFit DEF RewardsFit
    <2> QED BY <2>2
  <1>2. rest \in Nat
    BY <1>1
  <1>3. /\ user \in Accounts \ {Sys} /\ parent \in Accounts /\ config.collector \in Accounts
        /\ pays => grand \in Accounts
    BY AccountsAssumption DEF Accounts, ConfigType
  <1>4. ~pays => toGrand = 0
    OBVIOUS
  <1>5. FeeShares(user, fee) = [a \in Accounts |->
            (IF a = parent THEN toParent ELSE 0)
          + (IF pays /\ a = grand THEN toGrand ELSE 0)
          + (IF a = config.collector /\ rest > 0 THEN rest ELSE 0)]
    BY DEF FeeShares
  <1> HIDE DEF parent, pays, grand, toParent, toGrand, rest
  <1>6. SumFunctionOnSet(f, Accounts) = toParent
    BY <1>0, <1>1, <1>3, SumOfPoint
  <1>7. SumFunctionOnSet(g, Accounts) = toGrand
    <2>1. CASE pays
      <3>1. \A a \in Accounts : g[a] = IF a = grand THEN toGrand ELSE 0
        BY <2>1
      <3> HIDE DEF g
      <3> QED BY <1>0, <1>1, <1>3, <2>1, <3>1, SumOfPoint
    <2>2. CASE ~pays
      <3>1. \A a \in Accounts : g[a] = 0
        BY <2>2
      <3> HIDE DEF g
      <3> QED BY <1>0, <1>4, <2>2, <3>1, SumZero
    <2> QED BY <2>1, <2>2
  <1>8. SumFunctionOnSet(h, Accounts) = rest
    <2>1. \A a \in Accounts : h[a] = IF a = config.collector THEN rest ELSE 0
      BY <1>2
    <2> HIDE DEF h
    <2> QED BY <1>0, <1>2, <1>3, <2>1, SumOfPoint
  <1>9. \A a \in Accounts : /\ f[a] \in Int /\ g[a] \in Int /\ h[a] \in Int /\ k[a] \in Int
                            /\ k[a] = f[a] + g[a]
    BY <1>1, <1>2
  <1>10. \A a \in Accounts : FeeShares(user, fee)[a] = k[a] + h[a]
    BY <1>5
  <1> HIDE DEF f, g, h, k
  <1>11. SumFunctionOnSet(k, Accounts) = toParent + toGrand
    BY <1>0, <1>6, <1>7, <1>9, SumPlus
  <1>12. SumFunctionOnSet(FeeShares(user, fee), Accounts) = toParent + toGrand + rest
    <2>1. SumFunctionOnSet(FeeShares(user, fee), Accounts)
            = SumFunctionOnSet(k, Accounts) + SumFunctionOnSet(h, Accounts)
      BY <1>0, <1>9, <1>10, SumPlus
    <2> QED BY <1>8, <1>11, <2>1
  <1> QED BY <1>1, <1>12 DEF rest

LEMMA OwedAfterCredit ==
    ASSUME IsFiniteSet(Accounts), NEW rw \in Balances, NEW token \in Tokens,
           NEW shares \in [Accounts -> Nat], NEW t \in Tokens
    PROVE  OwedOf(Credit(rw, token, shares), t)
             = OwedOf(rw, t) + (IF t = token THEN SumFunctionOnSet(shares, Accounts) ELSE 0)
  <1> DEFINE f == [a \in Accounts |-> rw[a][t]]
             h == [a \in Accounts |-> Credit(rw, token, shares)[a][t]]
  <1>1. \A a \in Accounts : rw[a] \in [Tokens -> Nat] /\ shares[a] \in Nat
    BY DEF Balances
  <1>2. \A a \in Accounts :
           /\ f[a] \in Nat
           /\ h[a] = IF t = token THEN f[a] + shares[a] ELSE f[a]
    BY <1>1 DEF Credit
  <1> HIDE DEF f, h
  <1>3. CASE t = token
    <2>1. SumFunctionOnSet(h, Accounts) = SumFunctionOnSet(f, Accounts) + SumFunctionOnSet(shares, Accounts)
      BY <1>1, <1>2, <1>3, SumPlus
    <2> QED BY <1>3, <2>1 DEF OwedOf, f, h
  <1>4. CASE t # token
    <2>1. SumFunctionOnSet(f, Accounts) = SumFunctionOnSet(h, Accounts)
      BY <1>2, <1>4, SumSame
    <2>2. SumFunctionOnSet(f, Accounts) \in Int
      BY <1>2, SumIsInt
    <2> QED BY <1>4, <2>1, <2>2 DEF OwedOf, f, h
  <1> QED BY <1>3, <1>4

-----------------------------------------------------------------------------
(* The buy order gives up the coins of the deal and its refund, the sell   *)
(* order the assets.                                                       *)
LEMMA RoundParts ==
    ASSUME TypeInv, LimitInv, ListingInv, phase = "matching", Round, NEW t \in Tokens
    PROVE  SumFunctionOnSet(LiveParts(t)', DOMAIN orders')
             = SumFunctionOnSet(LiveParts(t), DOMAIN orders)
                 - (IF t = sympair[txn.pair].coin THEN Deal.coin + Deal.refund ELSE 0)
                 - (IF t = sympair[txn.pair].asset THEN Deal.asset ELSE 0)
  <1> DEFINE newBuy  == Filled(buyIt, Deal, Deal.buy_fee)
             newSell == Filled(sellIt, Deal, Deal.sell_fee)
             b == buyIt.id
             s == sellIt.id
             D == DOMAIN orders
             X == {i \in {b, s} : Completed(IF i = b THEN newBuy ELSE newSell)}
             f == LiveParts(t)
             h == LiveParts(t)'
             db == IF t = sympair[txn.pair].coin THEN Deal.coin + Deal.refund ELSE 0
             ds == IF t = sympair[txn.pair].asset THEN Deal.asset ELSE 0
  <1>1. InLoop /\ RoundPasses(Deal)
    BY DEF Round
  <1>2. orders' = Restrict(orders, D \ X)
    BY RoundIterators
  <1>3. /\ buyIt \in ItType /\ sellIt \in ItType /\ b # s /\ b \in D /\ s \in D
        /\ orders[b].side = BUY /\ orders[s].side # BUY
        /\ orders[b].pair = txn.pair /\ orders[s].pair = txn.pair
        /\ orders[b] \in QueuedType /\ orders[s] \in QueuedType
        /\ txn.pair \in DOMAIN sympair
    BY <1>1, RoundOrders DEF Book, BUY, SELL
  <1>4. /\ Deal \in DealType /\ Deal.asset \in Nat /\ Deal.coin \in Nat
        /\ Deal.refund \in Nat /\ Deal.buy_fee \in Nat /\ Deal.sell_fee \in Nat
        /\ Deal.refund = Refund(Deal.asset, Deal.coin)
    <2>1. Deal \in DealType
      BY <1>1, RoundAmounts
    <2>2. Deal.refund = Refund(Deal.asset, Deal.coin)
      BY DEF Deal
    <2> QED BY <2>1, <2>2 DEF DealType
  <1>5. deals \in Seq(DealType)
    BY DEF TypeInv, TypeOK
  <1>6. /\ newBuy.id = b /\ newSell.id = s
        /\ newBuy.matched_asset = buyIt.matched_asset + Deal.asset
        /\ newBuy.matched_coin = buyIt.matched_coin + Deal.coin
        /\ newSell.matched_asset = sellIt.matched_asset + Deal.asset
    BY <1>3, <1>4, <1>5, FilledType
  <1>7. /\ orders[b].token = sympair[txn.pair].coin
        /\ orders[s].token = sympair[txn.pair].asset
    BY <1>3 DEF ListingInv, RowsFit, FitsListing
  <1>8. Whole(orders[s])
    BY <1>3 DEF LimitInv, RowsWithin, Within
  <1>9. Fill(b) = buyIt /\ Fill(s) = sellIt
    BY <1>3 DEF Fill
  <1>10. /\ f[b] = IF t = sympair[txn.pair].coin THEN orders[b].frozen - buyIt.matched_coin ELSE 0
         /\ f[s] = IF t = sympair[txn.pair].asset THEN orders[s].frozen - sellIt.matched_asset ELSE 0
    BY <1>3, <1>7, <1>9 DEF LiveParts, Part
  <1>11. DOMAIN orders' = D \ X
    BY <1>2 DEF Restrict
  <1>12. \A i \in D \ X :
            /\ i = b => h[i] = IF t = sympair[txn.pair].coin
                               THEN orders[b].frozen - newBuy.matched_coin ELSE 0
            /\ i = s => h[i] = IF t = sympair[txn.pair].asset
                               THEN orders[s].frozen - newSell.matched_asset ELSE 0
            /\ i \notin {b, s} => h[i] = f[i]
    <2> TAKE i \in D \ X
    <2>0. i \in DOMAIN orders'
      BY <1>11
    <2>1. /\ orders'[i] = orders[i]
          /\ i = b => Fill(i)' = newBuy
          /\ i = s => Fill(i)' = newSell
          /\ i \notin {b, s} => SameFill(Fill(i)', orders[i])
      BY <2>0, RoundFill
    <2>2. h[i] = Part(orders'[i], Fill(i)', t)
      BY <2>0 DEF LiveParts, Part
    <2>3. h[i] = Part(orders[i], Fill(i)', t)
      BY <2>1, <2>2
    <2>4. i \notin {b, s} => f[i] = Part(orders[i], orders[i], t)
      BY DEF LiveParts, Fill
    <2> HIDE DEF f, h, X, newBuy, newSell
    <2>5. i \notin {b, s} => h[i] = f[i]
      BY <2>1, <2>3, <2>4 DEF Part, SameFill
    <2> QED BY <1>3, <1>7, <2>1, <2>3, <2>5 DEF Part
  <1>13. /\ b \in X <=> Completed(newBuy)
         /\ s \in X <=> Completed(newSell)
    BY <1>3
  <1>14. X \in SUBSET {b, s}
    OBVIOUS
  <1>15. IsFiniteSet(D) /\ \A i \in D : f[i] \in Int
    BY LivePartsType
  <1> HIDE DEF f, h, X, newBuy, newSell
  <1>16. /\ orders[b].frozen \in Int /\ orders[b].total \in Int
         /\ orders[s].frozen \in Int /\ orders[s].total \in Int
         /\ buyIt.matched_coin \in Nat /\ buyIt.matched_asset \in Nat
         /\ sellIt.matched_asset \in Nat
    BY <1>3 DEF QueuedType, ItType
  <1>17. Completed(newBuy) <=> Deal.asset = FreeAsset(buyIt)
    BY <1>4, <1>6, <1>16 DEF Completed, FreeAsset
  <1>18. Deal.refund = IF Completed(newBuy)
                       THEN orders[b].frozen - (buyIt.matched_coin + Deal.coin) ELSE 0
    BY <1>4, <1>17 DEF Refund
  <1>19. Completed(newSell) => Deal.asset = orders[s].frozen - sellIt.matched_asset
    <2>1. orders[s].frozen = orders[s].total
      BY <1>3, <1>8 DEF Whole
    <2> QED BY <1>4, <1>6, <1>16, <2>1 DEF Completed
  <1>20. db \in Int /\ ds \in Int
    BY <1>4
  <1>21. IF b \in X THEN f[b] = db ELSE h[b] = f[b] - db
    <2>1. CASE b \in X
      BY <1>4, <1>10, <1>13, <1>16, <1>18, <2>1
    <2>2. CASE b \notin X
      <3>1. h[b] = IF t = sympair[txn.pair].coin
                   THEN orders[b].frozen - newBuy.matched_coin ELSE 0
        BY <1>3, <1>12, <2>2
      <3>2. Deal.refund = 0
        BY <1>13, <1>18, <2>2
      <3> QED BY <1>4, <1>6, <1>10, <1>16, <2>2, <3>1, <3>2
    <2> QED BY <2>1, <2>2
  <1>22. IF s \in X THEN f[s] = ds ELSE h[s] = f[s] - ds
    <2>1. CASE s \in X
      BY <1>4, <1>10, <1>13, <1>16, <1>19, <2>1
    <2>2. CASE s \notin X
      <3>1. h[s] = IF t = sympair[txn.pair].asset
                   THEN orders[s].frozen - newSell.matched_asset ELSE 0
        BY <1>3, <1>12, <2>2
      <3> QED BY <1>4, <1>6, <1>10, <1>16, <2>2, <3>1
    <2> QED BY <2>1, <2>2
  <1>23. \A i \in D \ {b, s} : h[i] = f[i]
    BY <1>12, <1>14
  <1> HIDE DEF db, ds
  <1>24. SumFunctionOnSet(h, D \ X) = SumFunctionOnSet(f, D) - db - ds
    <2> HIDE DEF D, b, s
    <2> QED BY <1>3, <1>14, <1>15, <1>20, <1>21, <1>22, <1>23, TwoParts
  <1> QED BY <1>11, <1>24 DEF f, h, db, ds

(* What the three transfers of a round take from the contract.             *)
LEMMA RoundPays ==
    ASSUME TypeInv, phase = "matching", Round, NEW t \in Tokens
    PROVE  wallet'[Dex][t] = wallet[Dex][t]
             - (IF t = sympair[txn.pair].coin
                THEN Deal.coin - Deal.sell_fee + Deal.refund ELSE 0)
             - (IF t = sympair[txn.pair].asset THEN Deal.asset - Deal.buy_fee ELSE 0)
  <1> DEFINE buyer  == orders[buyIt.id].owner
             seller == orders[sellIt.id].owner
             asset  == sympair[txn.pair].asset
             coin   == sympair[txn.pair].coin
             x == Deal.coin - Deal.sell_fee
             y == Deal.asset - Deal.buy_fee
             z == Deal.refund
             w1 == Pay(wallet, Dex, seller, coin, x)
             w2 == Pay(w1, Dex, buyer, asset, y)
             w3 == Pay(w2, Dex, buyer, coin, z)
  <1>1. InLoop /\ RoundPasses(Deal) /\ wallet' = w3
    BY DEF Round
  <1>2. /\ asset \in Tokens /\ coin \in Tokens /\ asset # coin
        /\ buyer \in Accounts /\ seller \in Accounts /\ Dex \in Accounts
        /\ buyer # Dex /\ seller # Dex
    BY <1>1, RoundOrders, AccountsAssumption
    DEF PairType, QueuedType, Accounts, TypeInv, PairsDiffer
  <1>3. x \in Nat /\ y \in Nat /\ z \in Nat
    BY <1>1, RoundAmounts DEF DealType
  <1>4. wallet[Dex][coin] >= x + z /\ wallet[Dex][asset] >= y
    BY <1>1 DEF RoundPasses
  <1>5. wallet \in Balances
    BY DEF TypeInv, TypeOK
  <1> HIDE DEF buyer, seller, asset, coin, x, y, z
  <1>6. wallet[Dex] \in [Tokens -> Nat]
    BY <1>2, <1>5 DEF Balances
  <1>7. wallet[Dex][coin] >= x
    BY <1>2, <1>3, <1>4, <1>6
  <1>8. w1 \in Balances /\ w1[Dex][asset] = wallet[Dex][asset]
        /\ w1[Dex][t] = wallet[Dex][t] - (IF t = coin THEN x ELSE 0)
    <2>1. w1[Dex][t] = IF t # coin THEN wallet[Dex][t] ELSE wallet[Dex][t] - x
      BY <1>2, <1>3, <1>5, PayMoves
    <2> QED BY <1>2, <1>3, <1>5, <1>6, <1>7, <2>1, PayType
  <1> HIDE DEF w1
  <1>9. w2 \in Balances /\ w2[Dex][t] = w1[Dex][t] - (IF t = asset THEN y ELSE 0)
    <2>1. w2[Dex][t] = IF t # asset THEN w1[Dex][t] ELSE w1[Dex][t] - y
      BY <1>2, <1>3, <1>8, PayMoves
    <2>2. w1[Dex][t] \in Int
      BY <1>2, <1>8 DEF Balances
    <2> QED BY <1>2, <1>3, <1>4, <1>8, <2>1, <2>2, PayType
  <1> HIDE DEF w2
  <1>10. w3[Dex][t] = w2[Dex][t] - (IF t = coin THEN z ELSE 0)
    <2>1. w3[Dex][t] = IF t # coin THEN w2[Dex][t] ELSE w2[Dex][t] - z
      BY <1>2, <1>3, <1>9, PayMoves
    <2>2. w2[Dex][t] \in Int
      BY <1>2, <1>9 DEF Balances
    <2> QED BY <1>3, <2>1, <2>2
  <1>11. wallet[Dex][t] \in Int
    BY <1>6
  <1> HIDE DEF w3
  <1>12. wallet'[Dex][t] = wallet[Dex][t] - (IF t = coin THEN x + z ELSE 0)
                                          - (IF t = asset THEN y ELSE 0)
    BY <1>1, <1>2, <1>3, <1>8, <1>9, <1>10, <1>11
  <1> QED BY <1>12 DEF asset, coin, x, y, z

(* What it adds to the rewards.                                            *)
LEMMA RoundOwes ==
    ASSUME IsFiniteSet(Users), TypeInv, RewardsFit(config), phase = "matching", Round,
           NEW t \in Tokens
    PROVE  /\ OwedOf(rewards, t) \in Int
           /\ OwedOf(rewards', t) = OwedOf(rewards, t)
                + (IF t = sympair[txn.pair].asset THEN Deal.buy_fee ELSE 0)
                + (IF t = sympair[txn.pair].coin THEN Deal.sell_fee ELSE 0)
  <1> DEFINE asset == sympair[txn.pair].asset
             coin  == sympair[txn.pair].coin
             buyer  == orders[buyIt.id].owner
             seller == orders[sellIt.id].owner
             bs == FeeShares(buyer, Deal.buy_fee)
             ss == FeeShares(seller, Deal.sell_fee)
             r1 == Credit(rewards, asset, bs)
  <1>1. InLoop /\ RoundPasses(Deal) /\ rewards' = Credit(r1, coin, ss)
    BY DEF Round
  <1>2. asset \in Tokens /\ coin \in Tokens /\ buyer \in Users /\ seller \in Users
    BY <1>1, RoundOrders DEF PairType, QueuedType
  <1>3. Deal.buy_fee \in Nat /\ Deal.sell_fee \in Nat
    BY <1>1, RoundAmounts DEF DealType
  <1>4. config \in ConfigType /\ rewards \in Balances /\ IsFiniteSet(Accounts)
    BY AccountsAreFinite DEF TypeInv, TypeOK
  <1> HIDE DEF asset, coin, buyer, seller
  <1>5. /\ bs \in [Accounts -> Nat] /\ SumFunctionOnSet(bs, Accounts) = Deal.buy_fee
        /\ ss \in [Accounts -> Nat] /\ SumFunctionOnSet(ss, Accounts) = Deal.sell_fee
    BY <1>2, <1>3, <1>4, FeeSharesType, FeeSharesSum
  <1> HIDE DEF bs, ss
  <1>6. r1 \in Balances
    BY <1>2, <1>4, <1>5, CreditType
  <1>7. OwedOf(r1, t) = OwedOf(rewards, t) + (IF t = asset THEN Deal.buy_fee ELSE 0)
    BY <1>2, <1>4, <1>5, OwedAfterCredit
  <1> HIDE DEF r1
  <1>8. OwedOf(rewards', t) = OwedOf(r1, t) + (IF t = coin THEN Deal.sell_fee ELSE 0)
    BY <1>1, <1>2, <1>4, <1>5, <1>6, OwedAfterCredit
  <1>9. OwedOf(rewards, t) \in Int
    BY <1>4, OwedIsNat
  <1> QED BY <1>7, <1>8, <1>9 DEF asset, coin

LEMMA RoundSolventInv ==
    ASSUME IsFiniteSet(Users), TypeInv, LimitInv, ListingInv, SolventInv,
           phase = "matching", Round
    PROVE  SolventInv'
  <1>1. UNCHANGED <<config, phase, undo>> /\ InLoop /\ RoundPasses(Deal)
    BY DEF Round, admin
  <1>2. /\ Deal.asset \in Nat /\ Deal.coin \in Nat /\ Deal.refund \in Nat
        /\ Deal.buy_fee \in Nat /\ Deal.sell_fee \in Nat
    BY <1>1, RoundAmounts DEF DealType
  <1>3. sympair[txn.pair].asset # sympair[txn.pair].coin
    BY <1>1, RoundOrders DEF TypeInv, PairsDiffer
  <1>4. ASSUME NEW t \in Tokens
        PROVE  wallet'[Dex][t] = SumFunctionOnSet(LiveParts(t)', DOMAIN orders')
                                   + OwedOf(rewards', t)
    <2> DEFINE locked  == SumFunctionOnSet(LiveParts(t), DOMAIN orders)
               lockedN == SumFunctionOnSet(LiveParts(t)', DOMAIN orders')
               owed    == OwedOf(rewards, t)
               owedN   == OwedOf(rewards', t)
               asset   == sympair[txn.pair].asset
               coin    == sympair[txn.pair].coin
    <2>1. locked \in Int
      BY LivePartsType, SumIsInt
    <2>2. /\ owed \in Int
          /\ owedN = owed + (IF t = asset THEN Deal.buy_fee ELSE 0)
                          + (IF t = coin THEN Deal.sell_fee ELSE 0)
      BY RoundOwes DEF SolventInv
    <2>3. lockedN = locked - (IF t = coin THEN Deal.coin + Deal.refund ELSE 0)
                           - (IF t = asset THEN Deal.asset ELSE 0)
      BY RoundParts
    <2>4. wallet'[Dex][t] = wallet[Dex][t]
             - (IF t = coin THEN Deal.coin - Deal.sell_fee + Deal.refund ELSE 0)
             - (IF t = asset THEN Deal.asset - Deal.buy_fee ELSE 0)
      BY RoundPays
    <2>5. wallet[Dex][t] = locked + owed
      BY DEF SolventInv
    <2>6. asset # coin
      BY <1>3
    <2> HIDE DEF locked, lockedN, owed, owedN, asset, coin
    <2>7. wallet'[Dex][t] = lockedN + owedN
      <3>1. CASE t = asset
        BY <1>2, <2>1, <2>2, <2>3, <2>4, <2>5, <2>6, <3>1
      <3>2. CASE t = coin
        BY <1>2, <2>1, <2>2, <2>3, <2>4, <2>5, <2>6, <3>2
      <3>3. CASE t # asset /\ t # coin
        BY <1>2, <2>1, <2>2, <2>3, <2>4, <2>5, <2>6, <3>3
      <3> QED BY <3>1, <3>2, <3>3
    <2> QED BY <2>7 DEF lockedN, owedN
  <1>5. /\ RewardsFit(config') /\ phase = "matching"
        /\ Backed(undo'.orders, undo'.rewards, undo'.wallet)
    BY <1>1 DEF SolventInv
  <1> QED BY <1>4, <1>5 DEF SolventInv, Backed, OwedOf, RewardsFit

-----------------------------------------------------------------------------
(* The other actions.                                                      *)
LEMMA BeginSolventInv ==
    ASSUME TypeInv', Idle, SolventInv, NEW action, NEW pair, NEW limit,
           BeginMatching(action, pair, limit, orders'), config' = config,
           Backed(orders', rewards', wallet')
    PROVE  SolventInv'
  <1>1. \A i \in DOMAIN orders' : SameFill(Fill(i)', orders'[i])
    BY BeginFills
  <1>2. \A t : LiveParts(t)' = RowParts(orders', t)
    BY <1>1 DEF LiveParts, RowParts, Part, SameFill
  <1>3. Backed(orders, rewards, wallet)
    BY IdleIsBacked
  <1>4. undo'.orders = orders /\ undo'.rewards = rewards /\ undo'.wallet = wallet
    BY DEF BeginMatching
  <1>5. Backed(undo'.orders, undo'.rewards, undo'.wallet)
    BY <1>3, <1>4
  <1>6. RewardsFit(config')
    BY DEF SolventInv
  <1> QED BY <1>2, <1>5, <1>6 DEF SolventInv, Backed, OwedOf, RewardsFit

LEMMA OnTransferSolventInv ==
    ASSUME IsFiniteSet(Users), TypeInv, TypeInv', DealsInv, SolventInv, NEW u \in Users, NEW t \in Tokens,
           NEW q \in Nat, OnTransfer(u, t, q)
    PROVE  SolventInv'
  <1> DEFINE order == queue[u]
             id    == NewId(orderId)
  <1>1. /\ Idle /\ u \in DOMAIN queue /\ orderId < MaxOrders
        /\ orders' = Put(orders, id, order) /\ rewards' = rewards /\ config' = config
        /\ t = order.token /\ q = order.frozen
        /\ wallet' = Pay(wallet, u, Dex, t, q)
        /\ BeginMatching("ontransfer", order.pair, config.max_match_count, orders')
    BY DEF OnTransfer, admin
  <1>2. orderId \in Nat /\ id = orderId + 1
    BY <1>1, BoundsAssumption DEF TypeInv, TypeOK, NewId
  <1>3. /\ IsTable(orders, 1 .. orderId, OrderType) /\ order \in QueuedType
        /\ wallet \in Balances
    BY <1>1 DEF TypeInv, TypeOK, IsTable
  <1>4. order.matched_asset = 0 /\ order.matched_coin = 0
    BY <1>1 DEF DealsInv, Blank, SameFill, NoIt
  <1>5. u \in Accounts /\ Dex \in Accounts /\ u # Dex
    BY AccountsAssumption DEF Accounts
  <1> HIDE DEF order, id
  <1>6. id \notin DOMAIN orders
    BY <1>2, <1>3 DEF IsTable
  <1>7. ASSUME NEW c \in Tokens
        PROVE  wallet'[Dex][c] = SumFunctionOnSet(RowParts(orders', c), DOMAIN orders')
                                   + OwedOf(rewards', c)
    <2> DEFINE locked == SumFunctionOnSet(RowParts(orders, c), DOMAIN orders)
               owed   == OwedOf(rewards, c)
    <2>1. SumFunctionOnSet(RowParts(orders', c), DOMAIN orders \cup {id})
            = Part(order, order, c) + locked
      BY <1>1, <1>2, <1>3, <1>6, AddedRow
    <2>2. DOMAIN orders' = DOMAIN orders \cup {id}
      BY <1>1 DEF Put
    <2>3. order.frozen \in Int
      BY <1>3 DEF QueuedType
    <2>4. Part(order, order, c) = IF c = t THEN q ELSE 0
      BY <1>1, <1>4, <2>3 DEF Part
    <2>5. wallet[Dex][c] = locked + owed /\ rewards' = rewards
      BY <1>1, IdleIsBacked DEF Backed
    <2>6. wallet'[Dex][c] = IF c # t THEN wallet[Dex][c] ELSE wallet[Dex][c] + q
      BY <1>1, <1>3, <1>5, PayMoves
    <2>7. locked \in Int
      BY <1>2, <1>3, RowPartsType, SumIsInt
    <2>8. wallet[Dex][c] \in Int
      BY <1>3, <1>5 DEF Balances
    <2> HIDE DEF locked
    <2>9. SumFunctionOnSet(RowParts(orders', c), DOMAIN orders') = (IF c = t THEN q ELSE 0) + locked
      BY <2>1, <2>2, <2>4
    <2>10. wallet'[Dex][c] = wallet[Dex][c] + (IF c = t THEN q ELSE 0)
      BY <2>6, <2>8
    <2>11. owed \in Int
      BY OwedIsNat DEF TypeInv, TypeOK
    <2> HIDE DEF owed
    <2>12. wallet'[Dex][c] = ((IF c = t THEN q ELSE 0) + locked) + owed
      BY <2>5, <2>7, <2>10, <2>11
    <2> QED BY <2>9, <2>12, <1>1 DEF owed
  <1> QED BY <1>1, <1>7, BeginSolventInv DEF Backed

LEMMA CancelSolventInv ==
    ASSUME IsFiniteSet(Users), TypeInv, SolventInv, NEW i \in DOMAIN orders, NEW u \in Users,
           Cancel(u, orders[i].pair, orders[i].side, i)
    PROVE  SolventInv'
  <1> DEFINE o == orders[i]
             r == Remainder(o)
  <1>1. /\ Idle /\ phase' = "idle" /\ config' = config /\ rewards' = rewards
        /\ orders' = Delete(orders, i) /\ r > 0
        /\ wallet' = Pay(wallet, Dex, u, o.token, r)
    BY DEF Cancel, Idle, loop, admin, CanPay
  <1>2. /\ IsTable(orders, 1 .. orderId, OrderType) /\ orderId \in Nat
        /\ wallet \in Balances /\ rewards \in Balances
    BY BoundsAssumption DEF TypeInv, TypeOK
  <1>3. o \in QueuedType
    BY <1>2 DEF IsTable, OrderType
  <1>4. u \in Accounts /\ Dex \in Accounts /\ u # Dex
    BY AccountsAssumption DEF Accounts
  <1>5. r \in Int
    BY <1>3 DEF Remainder, QueuedType
  <1>6. o.token \in Tokens
    BY <1>3 DEF QueuedType
  <1>7. \A c : Part(o, o, c) = IF c = o.token THEN r ELSE 0
    BY DEF Part, Remainder
  <1> HIDE DEF r
  <1>8. ASSUME NEW c \in Tokens
        PROVE  wallet'[Dex][c] = SumFunctionOnSet(RowParts(orders', c), DOMAIN orders')
                                   + OwedOf(rewards', c)
    <2> DEFINE locked  == SumFunctionOnSet(RowParts(orders, c), DOMAIN orders)
               lockedN == SumFunctionOnSet(RowParts(orders', c), DOMAIN orders')
               owed    == OwedOf(rewards, c)
    <2>1. locked = Part(o, o, c) + lockedN /\ lockedN \in Int
      <3>1. DOMAIN orders' = DOMAIN orders \ {i} /\ orders' = Delete(orders, i)
        BY <1>1 DEF Delete
      <3>2. DOMAIN orders \in SUBSET DOMAIN orders
        OBVIOUS
      <3>3. /\ locked = Part(orders[i], orders[i], c)
                  + SumFunctionOnSet(RowParts(Delete(orders, i), c), DOMAIN orders \ {i})
            /\ SumFunctionOnSet(RowParts(Delete(orders, i), c), DOMAIN orders \ {i}) \in Int
        BY <1>2, <3>2, RemovedRow
      <3> QED BY <3>1, <3>3
    <2>2. wallet[Dex][c] = locked + owed
      BY <1>1, IdleIsBacked DEF Backed
    <2>3. owed \in Int
      BY <1>2, OwedIsNat
    <2>4. wallet'[Dex][c] = IF c # o.token THEN wallet[Dex][c] ELSE wallet[Dex][c] - r
      BY <1>1, <1>2, <1>4, <1>5, <1>6, PayMoves
    <2> HIDE DEF locked, lockedN, owed, o
    <2>5. wallet'[Dex][c] = lockedN + owed
      BY <1>5, <1>7, <2>1, <2>2, <2>3, <2>4
    <2> QED BY <1>1, <2>5 DEF lockedN, owed
  <1>9. RewardsFit(config')
    BY <1>1 DEF SolventInv
  <1> QED BY <1>1, <1>8, <1>9, IdleSolventInv DEF Backed

LEMMA WithdrawSolventInv ==
    ASSUME IsFiniteSet(Users), TypeInv, SolventInv, NEW a \in Accounts, NEW t \in Tokens,
           NEW q \in 1 .. rewards[a][t], Withdraw(a, t, q)
    PROVE  SolventInv'
  <1>1. /\ Idle /\ phase' = "idle" /\ config' = config /\ orders' = orders /\ Dex # a
        /\ rewards' = [rewards EXCEPT ![a][t] = @ - q]
        /\ wallet' = Pay(wallet, Dex, a, t, q)
    BY DEF Withdraw, Idle, loop, admin, books, CanPay
  <1>2. wallet \in Balances /\ rewards \in Balances /\ IsFiniteSet(Accounts)
    BY AccountsAreFinite DEF TypeInv, TypeOK
  <1>3. Dex \in Accounts /\ q \in Int /\ rewards[a][t] \in Nat
    BY <1>2 DEF Accounts, Balances
  <1>4. ASSUME NEW c \in Tokens
        PROVE  OwedOf(rewards', c) = OwedOf(rewards, c) - (IF c = t THEN q ELSE 0)
    <2> DEFINE f == [e \in Accounts |-> rewards[e][c]]
               h == [e \in Accounts |-> rewards'[e][c]]
    <2>1. /\ \A e \in Accounts : rewards[e] \in [Tokens -> Nat]
          /\ rewards' = [e \in Accounts |->
                IF e = a THEN [rewards[a] EXCEPT ![t] = rewards[a][t] - q] ELSE rewards[e]]
      BY <1>1, <1>2 DEF Balances
    <2>2. /\ \A e \in Accounts : f[e] \in Int /\ h[e] \in Int
          /\ \A e \in Accounts \ {a} : h[e] = f[e]
          /\ h[a] - f[a] = -(IF c = t THEN q ELSE 0)
      BY <1>3, <2>1
    <2> HIDE DEF f, h
    <2>3. SumFunctionOnSet(h, Accounts) = SumFunctionOnSet(f, Accounts) + (h[a] - f[a])
      BY <1>2, <2>2, SumUpdate
    <2>4. SumFunctionOnSet(f, Accounts) \in Int
      BY <1>2, <2>2, SumIsInt
    <2>5. SumFunctionOnSet(h, Accounts) = SumFunctionOnSet(f, Accounts) - (IF c = t THEN q ELSE 0)
      BY <1>3, <2>2, <2>3, <2>4
    <2> QED BY <2>5 DEF OwedOf, f, h
  <1>5. ASSUME NEW c \in Tokens
        PROVE  wallet'[Dex][c] = SumFunctionOnSet(RowParts(orders', c), DOMAIN orders')
                                   + OwedOf(rewards', c)
    <2> DEFINE locked == SumFunctionOnSet(RowParts(orders, c), DOMAIN orders)
    <2>1. wallet[Dex][c] = locked + OwedOf(rewards, c)
      BY <1>1, IdleIsBacked DEF Backed
    <2>2. locked \in Int
      <3>1. IsTable(orders, 1 .. orderId, OrderType) /\ orderId \in Nat
        BY BoundsAssumption DEF TypeInv, TypeOK
      <3> QED BY <3>1, RowPartsType, SumIsInt
    <2>3. OwedOf(rewards, c) \in Int
      BY <1>2, OwedIsNat
    <2>4. wallet'[Dex][c] = IF c # t THEN wallet[Dex][c] ELSE wallet[Dex][c] - q
      BY <1>1, <1>2, <1>3, PayMoves
    <2> HIDE DEF locked
    <2>5. wallet'[Dex][c] = locked + OwedOf(rewards', c)
      BY <1>3, <1>4, <2>1, <2>2, <2>3, <2>4
    <2> QED BY <1>1, <2>5 DEF locked
  <1>6. RewardsFit(config')
    BY <1>1 DEF SolventInv
  <1> QED BY <1>1, <1>5, <1>6, IdleSolventInv DEF Backed

LEMMA FinishSolventInv ==
    ASSUME TypeInv, SolventInv, phase = "matching", Finish
    PROVE  SolventInv'
  <1>1. /\ phase' = "idle" /\ config' = config /\ rewards' = rewards /\ wallet' = wallet
    BY DEF Finish, EndTransaction, money
  <1>2. \A t : RowParts(orders', t) = LiveParts(t) /\ DOMAIN orders' = DOMAIN orders
    BY FinishOrders DEF RowParts, LiveParts, Part
  <1>3. Backed(orders', rewards', wallet')
    BY <1>1, <1>2 DEF SolventInv, Backed
  <1> QED BY <1>1, <1>3, IdleSolventInv DEF SolventInv

LEMMA NextSolventInv ==
    ASSUME IsFiniteSet(Users), \A c \in Configs : RewardsFit(c),
           TypeInv, TypeInv', LimitInv, ListingInv, DealsInv, SolventInv, [Next]_vars
    PROVE  SolventInv'
  <1>1. ASSUME Idle, UNCHANGED <<orders, rewards, wallet, phase>>, RewardsFit(config')
        PROVE  SolventInv'
    BY <1>1, IdleIsBacked, IdleSolventInv DEF Idle
  <1>2. CASE Administer
    <2>1. Idle /\ UNCHANGED <<books, money, loop>> /\ (config' = config \/ config' \in Configs)
      BY <1>2 DEF Administer, InitDex, SetConfig, SetSymPair, OnOffSymPair, DelSymPair
    <2>2. RewardsFit(config')
      BY <2>1 DEF SolventInv
    <2> QED BY <1>1, <2>1, <2>2 DEF books, money, loop
  <1>3. CASE Place
    <2>1. ASSUME NEW r \in Requests, NEW signers, CreateOrder(r, signers)
          PROVE  SolventInv'
      <3>1. Idle /\ UNCHANGED <<admin, orders, money, loop>>
        BY <2>1 DEF CreateOrder
      <3> QED BY <1>1, <3>1 DEF admin, money, loop, SolventInv
    <2>2. ASSUME NEW u \in Users, DelQueueOrd(u) PROVE SolventInv'
      <3>1. Idle /\ UNCHANGED <<admin, orders, money, loop>>
        BY <2>2 DEF DelQueueOrd
      <3> QED BY <1>1, <3>1 DEF admin, money, loop, SolventInv
    <2>3. ASSUME NEW u \in Users, NEW t \in Tokens, NEW q \in 1 .. wallet[u][t],
                 OnTransfer(u, t, q)
          PROVE  SolventInv'
      <3>1. q \in Nat
        BY DEF TypeInv, TypeOK, Balances, Accounts
      <3> QED BY <2>3, <3>1, OnTransferSolventInv
    <2> QED BY <1>3, <2>1, <2>2, <2>3 DEF Place, NewOrder, Buy, Sell
  <1>4. CASE MatchAny
    <2>1. PICK p \in DOMAIN sympair, n \in MatchCounts : Match(p, n)
      BY <1>4 DEF MatchAny
    <2>2. /\ Idle /\ config' = config /\ orders' = orders /\ rewards' = rewards
          /\ wallet' = wallet /\ BeginMatching("match", p, n, orders')
      BY <2>1 DEF Match, admin, books, money
    <2>3. Backed(orders', rewards', wallet')
      BY <2>2, IdleIsBacked
    <2> QED BY <2>2, <2>3, BeginSolventInv
  <1>5. CASE Leave
    BY <1>5, CancelSolventInv, WithdrawSolventInv DEF Leave
  <1>6. CASE Round
    BY <1>6, RoundSolventInv DEF Round
  <1>7. CASE Finish
    BY <1>7, FinishSolventInv DEF Finish
  <1>8. CASE Abort
    <2>1. /\ phase = "matching" /\ phase' = "idle" /\ config' = config
          /\ orders' = undo.orders /\ rewards' = undo.rewards /\ wallet' = undo.wallet
      BY <1>8 DEF Abort, EndTransaction, admin
    <2>2. RewardsFit(config') /\ Backed(orders', rewards', wallet')
      BY <2>1 DEF SolventInv
    <2> QED BY <2>1, <2>2, IdleSolventInv
  <1>9. CASE UNCHANGED vars
    <2>1. UNCHANGED <<config, orders, rewards, wallet, phase, buyIt, sellIt, undo>>
      BY <1>9 DEF vars, admin, books, money, loop
    <2>2. \A t : LiveParts(t)' = LiveParts(t)
      BY <2>1 DEF LiveParts, Part, Fill
    <2>3. phase' = "matching" => Backed(undo'.orders, undo'.rewards, undo'.wallet)
      BY <2>1 DEF SolventInv
    <2>4. \A t \in Tokens : wallet'[Dex][t]
             = SumFunctionOnSet(LiveParts(t)', DOMAIN orders') + OwedOf(rewards', t)
      BY <2>1, <2>2 DEF SolventInv
    <2>5. RewardsFit(config')
      BY <2>1 DEF SolventInv
    <2> QED BY <2>3, <2>4, <2>5 DEF SolventInv, Backed, OwedOf, RewardsFit
  <1> QED BY <1>2, <1>3, <1>4, <1>5, <1>6, <1>7, <1>8, <1>9 DEF Next

LEMMA SolventInvInvariant ==
    ASSUME FitSetting
    PROVE  Spec => []SolventInv
  <1>1. Init => SolventInv
    <2> SUFFICES ASSUME Init PROVE SolventInv
      OBVIOUS
    <2>1. /\ phase = "idle" /\ orders = EmptyTable /\ config = StartConfig
          /\ rewards = [a \in Accounts |-> [t \in Tokens |-> 0]]
          /\ wallet[Dex] = [t \in Tokens |-> 0]
      BY AccountsAssumption DEF Init, Accounts
    <2>2. ASSUME NEW t \in Tokens
          PROVE  wallet[Dex][t] = SumFunctionOnSet(LiveParts(t), DOMAIN orders) + OwedOf(rewards, t)
      <3>1. DOMAIN orders = {}
        BY <2>1 DEF EmptyTable
      <3>2. SumFunctionOnSet(LiveParts(t), DOMAIN orders) = 0
        BY <3>1, SumEmpty
      <3>3. OwedOf(rewards, t) = 0
        <4>1. \A a \in Accounts : [e \in Accounts |-> rewards[e][t]][a] = 0
          BY <2>1
        <4> QED BY <4>1, AccountsAreFinite, SumZero DEF OwedOf, FitSetting
      <3> QED BY <2>1, <3>2, <3>3
    <2> QED BY <2>1, <2>2 DEF SolventInv, FitSetting
  <1>2. TypeInv /\ TypeInv' /\ LimitInv /\ ListingInv /\ DealsInv /\ SolventInv /\ [Next]_vars
           => SolventInv'
    BY NextSolventInv DEF FitSetting
  <1> QED BY <1>1, <1>2, TypeInvInvariant, LimitInvInvariant, ListingInvInvariant,
             DealsInvInvariant, PTL DEF Spec

(* The contract holds of every token exactly what its orders have left of  *)
(* their frozen amount and the rewards it owes, between the rounds of a    *)
(* transaction too: no rounding, split, refund, cancellation or rollback   *)
(* creates or strands money, as long as the reward ratios fit.             *)
THEOREM ContractIsSolvent ==
    ASSUME FitSetting
    PROVE  Spec => []Solvent
  <1>1. TypeInv /\ SolventInv => Solvent
    BY LockedIsSum DEF SolventInv, Solvent, Owed, OwedOf
  <1> QED BY <1>1, TypeInvInvariant, SolventInvInvariant, PTL

LEMMA OrdersAreCancellable ==
    ASSUME IsFiniteSet(Users), TypeInv, LimitInv, SolventInv
    PROVE  Cancellable
  <1> SUFFICES ASSUME Idle, NEW i \in DOMAIN orders
               PROVE  \/ CanPay(Dex, orders[i].owner, orders[i].token, Remainder(orders[i]))
                      \/ orders[i].side = BUY /\ Remainder(orders[i]) = 0
    BY DEF Cancellable
  <1> DEFINE t == orders[i].token
             f == RowParts(orders, t)
  <1>1. /\ IsTable(orders, 1 .. orderId, OrderType) /\ orderId \in Nat
        /\ rewards \in Balances
    BY BoundsAssumption DEF TypeInv, TypeOK
  <1>2. /\ IsFiniteSet(DOMAIN orders)
        /\ \A j \in DOMAIN orders : orders[j] \in QueuedType
    BY <1>1, RowPartsType
  <1>3. ASSUME NEW j \in DOMAIN orders
        PROVE  /\ Remainder(orders[j]) \in 0 .. MaxAmount
               /\ orders[j].side # BUY => Remainder(orders[j]) > 0
    <2>1. Within(orders[j], orders[j])
      BY DEF LimitInv, RowsWithin
    <2>2. /\ orders[j].frozen \in Int /\ orders[j].total \in Int
          /\ orders[j].matched_asset \in Nat /\ orders[j].matched_coin \in Nat
      BY <1>2 DEF QueuedType
    <2>3. orders[j].frozen <= MaxAmount /\ MaxAmount \in Int
      BY <1>1, MaxInt64Assumption DEF IsTable, OrderType, MaxAmount
    <2> QED BY <2>1, <2>2, <2>3 DEF Within, Whole, Remainder
  <1>4. \A j \in DOMAIN orders :
           f[j] = IF orders[j].token = t THEN Remainder(orders[j]) ELSE 0
    BY DEF RowParts, Part, Remainder
  <1>5. t \in Tokens /\ orders[i].owner \in Users /\ Dex # orders[i].owner
    BY <1>2, AccountsAssumption DEF QueuedType
  <1>6. wallet[Dex][t] = SumFunctionOnSet(f, DOMAIN orders) + OwedOf(rewards, t)
    BY <1>5, IdleIsBacked DEF Backed
  <1> HIDE DEF f
  <1>7. \A j \in DOMAIN orders : f[j] \in Nat
    BY <1>3, <1>4
  <1>8. f[i] <= SumFunctionOnSet(f, DOMAIN orders) /\ SumFunctionOnSet(f, DOMAIN orders) \in Nat
    BY <1>2, <1>7, SumAtLeast, SumIsNat
  <1>9. OwedOf(rewards, t) \in Nat
    BY <1>1, <1>5, OwedIsNat
  <1>10. f[i] = Remainder(orders[i])
    BY <1>4
  <1> HIDE DEF t
  <1>11. wallet[Dex][t] >= Remainder(orders[i])
    BY <1>3, <1>6, <1>8, <1>9, <1>10
  <1>12. CASE Remainder(orders[i]) > 0
    <2>1. Remainder(orders[i]) \in 1 .. MaxAmount
      BY <1>3, <1>12
    <2> QED BY <1>5, <1>11, <2>1 DEF CanPay, t
  <1>13. CASE Remainder(orders[i]) = 0
    BY <1>3, <1>13
  <1> QED BY <1>3, <1>12, <1>13

(* So whatever its fills were rounded to, an order of a traded pair can be *)
(* cancelled, or it is a buy order whose coins are used up.                *)
THEOREM OrdersCanBeCancelled ==
    ASSUME FitSetting
    PROVE  Spec => []Cancellable
  <1>1. TypeInv /\ LimitInv /\ SolventInv => Cancellable
    BY OrdersAreCancellable DEF FitSetting
  <1> QED BY <1>1, TypeInvInvariant, LimitInvInvariant, SolventInvInvariant, PTL

-----------------------------------------------------------------------------
(***************************************************************************)
(* Only deals move value.  A transaction without a deal can still be       *)
(* rolled back, so inside the matching loop the invariant compares what a  *)
(* user owns with what he would own after the rollback.                    *)
(***************************************************************************)
Of(os, u) == {i \in DOMAIN os : os[i].owner = u}

Worth(u, t) ==
    wallet[u][t] + rewards[u][t] + SumFunctionOnSet(LiveParts(t), Of(orders, u))

WorthIn(os, rw, w, u, t) ==
    w[u][t] + rw[u][t] + SumFunctionOnSet(RowParts(os, t), Of(os, u))

Owned(q) == \A u \in DOMAIN q : q[u].owner = u

ValueInv ==
    /\ Owned(queue)
    /\ phase = "matching" => Owned(undo.queue)
    /\ phase = "matching" /\ Len(deals) = Len(undo.deals) =>
          \A u \in Users, t \in Tokens :
             Worth(u, t) = WorthIn(undo.orders, undo.rewards, undo.wallet, u, t)

LEMMA IdleWorth ==
    ASSUME Idle, NEW u, NEW t
    PROVE  Worth(u, t) = WorthIn(orders, rewards, wallet, u, t)
  BY IdleParts DEF Worth, WorthIn

(* The same after a step that leaves no fill unsaved. *)
LEMMA SavedWorth ==
    ASSUME \A i \in DOMAIN orders' : SameFill(Fill(i)', orders'[i]), NEW u, NEW t
    PROVE  Worth(u, t)' = WorthIn(orders', rewards', wallet', u, t)
  <1>1. LiveParts(t)' = RowParts(orders', t)
    BY DEF LiveParts, RowParts, Part, SameFill
  <1> QED BY <1>1 DEF Worth, WorthIn, Of

LEMMA IdleFills ==
    ASSUME phase' = "idle"
    PROVE  \A i \in DOMAIN orders' : SameFill(Fill(i)', orders'[i])
  BY DEF Fill, SameFill

(* Rows that stay keep their parts. *)
LEMMA KeptRows ==
    ASSUME NEW os, NEW n \in Nat, IsTable(os, 1 .. n, OrderType), NEW ot, NEW t,
           NEW S \in SUBSET DOMAIN os, \A i \in S : i \in DOMAIN ot /\ ot[i] = os[i]
    PROVE  SumFunctionOnSet(RowParts(ot, t), S) = SumFunctionOnSet(RowParts(os, t), S)
  <1>1. IsFiniteSet(S) /\ \A i \in S : RowParts(os, t)[i] \in Int
    BY RowPartsType, FS_Subset
  <1>2. \A i \in S : RowParts(os, t)[i] = RowParts(ot, t)[i]
    BY DEF RowParts
  <1>3. SumFunctionOnSet(RowParts(os, t), S) = SumFunctionOnSet(RowParts(ot, t), S)
    BY <1>1, <1>2, SumSame
  <1> QED BY <1>3

LEMMA OnTransferWorth ==
    ASSUME TypeInv, TypeInv', DealsInv, ValueInv, NEW a \in Users, NEW c \in Tokens,
           NEW q \in Nat, OnTransfer(a, c, q), NEW u \in Users, NEW t \in Tokens
    PROVE  Worth(u, t)' = Worth(u, t)
  <1> DEFINE order == queue[a]
             id    == NewId(orderId)
             mine  == Of(orders, u)
             locked == SumFunctionOnSet(RowParts(orders, t), mine)
  <1>1. /\ Idle /\ a \in DOMAIN queue /\ orderId < MaxOrders
        /\ orders' = Put(orders, id, order) /\ rewards' = rewards
        /\ c = order.token /\ q = order.frozen
        /\ wallet' = Pay(wallet, a, Dex, c, q)
        /\ BeginMatching("ontransfer", order.pair, config.max_match_count, orders')
    BY DEF OnTransfer
  <1>2. orderId \in Nat /\ id = orderId + 1
    BY <1>1, BoundsAssumption DEF TypeInv, TypeOK, NewId
  <1>3. /\ IsTable(orders, 1 .. orderId, OrderType) /\ order \in QueuedType
        /\ wallet \in Balances /\ rewards \in Balances
    BY <1>1 DEF TypeInv, TypeOK, IsTable
  <1>4. order.matched_asset = 0 /\ order.matched_coin = 0 /\ order.owner = a
    BY <1>1 DEF DealsInv, Blank, SameFill, NoIt, ValueInv, Owned
  <1>5. /\ u \in Accounts /\ a \in Accounts /\ Dex \in Accounts /\ a # Dex /\ u # Dex
    BY AccountsAssumption DEF Accounts
  <1>6. Worth(u, t)' = WorthIn(orders', rewards', wallet', u, t)
    BY <1>1, BeginFills, SavedWorth
  <1>7. Worth(u, t) = wallet[u][t] + rewards[u][t] + locked
    BY <1>1, IdleWorth DEF WorthIn
  <1> HIDE DEF order, id
  <1>8. id \notin DOMAIN orders
    BY <1>2, <1>3 DEF IsTable
  <1>9. Of(orders', u) = IF u = a THEN mine \cup {id} ELSE mine
    BY <1>1, <1>4, <1>8 DEF Put, Of
  <1>10. mine \in SUBSET DOMAIN orders
    BY DEF Of
  <1>11. \A i \in mine : i \in DOMAIN orders' /\ orders'[i] = orders[i]
    BY <1>1, <1>8, <1>10 DEF Put
  <1>12. order.frozen \in Int
    BY <1>3 DEF QueuedType
  <1>13. Part(order, order, t) = IF t = c THEN q ELSE 0
    BY <1>1, <1>4, <1>12 DEF Part
  <1>14. wallet[u][t] \in Int /\ rewards[u][t] \in Int
    BY <1>3, <1>5 DEF Balances
  <1>15. wallet'[u][t] = wallet[u][t] - (IF u = a /\ t = c THEN q ELSE 0)
    <2>1. wallet'[u][t] = IF t # c THEN wallet[u][t]
                          ELSE IF u = a THEN wallet[u][t] - q
                          ELSE IF u = Dex THEN wallet[u][t] + q ELSE wallet[u][t]
      BY <1>1, <1>3, <1>5, PayMoves
    <2> QED BY <1>5, <1>14, <2>1
  <1>16. locked \in Int
    <2>1. IsFiniteSet(mine) /\ \A i \in mine : RowParts(orders, t)[i] \in Int
      BY <1>2, <1>3, <1>10, RowPartsType, FS_Subset
    <2> QED BY <2>1, SumIsInt
  <1>17. SumFunctionOnSet(RowParts(orders', t), Of(orders', u))
           = locked + (IF u = a /\ t = c THEN q ELSE 0)
    <2> HIDE DEF mine
    <2>1. CASE u = a
      <3>1. SumFunctionOnSet(RowParts(Put(orders, id, order), t), mine \cup {id})
              = Part(order, order, t) + locked
        BY <1>2, <1>3, <1>8, <1>10, AddedRow
      <3> HIDE DEF locked
      <3> QED BY <1>1, <1>9, <1>13, <1>16, <2>1, <3>1
    <2>2. CASE u # a
      <3>1. SumFunctionOnSet(RowParts(orders', t), mine) = locked
        BY <1>2, <1>3, <1>10, <1>11, KeptRows
      <3> HIDE DEF locked
      <3> QED BY <1>9, <1>16, <2>2, <3>1
    <2> QED BY <2>1, <2>2
  <1> HIDE DEF locked, mine
  <1>18. WorthIn(orders', rewards', wallet', u, t) = wallet[u][t] + rewards[u][t] + locked
    BY <1>1, <1>14, <1>15, <1>16, <1>17 DEF WorthIn
  <1> QED BY <1>6, <1>7, <1>18

LEMMA CancelWorth ==
    ASSUME TypeInv, NEW e \in DOMAIN orders, NEW a \in Users,
           Cancel(a, orders[e].pair, orders[e].side, e), NEW u \in Users, NEW t \in Tokens
    PROVE  Worth(u, t)' = Worth(u, t)
  <1> DEFINE o == orders[e]
             c == o.token
             r == Remainder(o)
             mine == Of(orders, u)
             locked == SumFunctionOnSet(RowParts(orders, t), mine)
             left   == SumFunctionOnSet(RowParts(orders', t), Of(orders', u))
  <1>1. /\ Idle /\ phase' = "idle" /\ rewards' = rewards /\ a = o.owner
        /\ orders' = Delete(orders, e) /\ wallet' = Pay(wallet, Dex, a, c, r)
    BY DEF Cancel, Idle, loop
  <1>2. /\ IsTable(orders, 1 .. orderId, OrderType) /\ orderId \in Nat
        /\ wallet \in Balances /\ rewards \in Balances
    BY BoundsAssumption DEF TypeInv, TypeOK
  <1>3. o \in QueuedType
    BY <1>2 DEF IsTable, OrderType
  <1>4. /\ u \in Accounts /\ a \in Accounts /\ Dex \in Accounts /\ a # Dex /\ u # Dex
    BY AccountsAssumption DEF Accounts
  <1>5. r \in Int /\ c \in Tokens
    BY <1>3 DEF Remainder, QueuedType
  <1>6. Part(o, o, t) = IF t = c THEN r ELSE 0
    BY DEF Part, Remainder
  <1>7. Worth(u, t)' = wallet'[u][t] + rewards[u][t] + left
    BY <1>1, IdleFills, SavedWorth DEF WorthIn
  <1>8. Worth(u, t) = wallet[u][t] + rewards[u][t] + locked
    BY <1>1, IdleWorth DEF WorthIn
  <1> HIDE DEF r, c
  <1>9. wallet[u][t] \in Int /\ rewards[u][t] \in Int
    BY <1>2, <1>4 DEF Balances
  <1>10. wallet'[u][t] = wallet[u][t] + (IF u = a /\ t = c THEN r ELSE 0)
    <2>1. wallet'[u][t] = IF t # c THEN wallet[u][t]
                          ELSE IF u = Dex THEN wallet[u][t] - r
                          ELSE IF u = a THEN wallet[u][t] + r ELSE wallet[u][t]
      BY <1>1, <1>2, <1>4, <1>5, PayMoves
    <2> QED BY <1>4, <1>5, <1>9, <2>1
  <1>11. mine \in SUBSET DOMAIN orders /\ IsFiniteSet(mine)
         /\ \A i \in mine : RowParts(orders, t)[i] \in Int
    <2>1. mine \in SUBSET DOMAIN orders
      BY DEF Of
    <2> QED BY <1>2, <2>1, RowPartsType, FS_Subset
  <1>12. Of(orders', u) = mine \ {e} /\ (u = a <=> e \in mine)
    BY <1>1 DEF Delete, Of
  <1>13. left \in Int /\ locked = left + (IF u = a /\ t = c THEN r ELSE 0)
    <2> HIDE DEF mine
    <2>1. CASE u = a
      <3>1. e \in mine
        BY <1>12, <2>1
      <3>2. /\ SumFunctionOnSet(RowParts(orders, t), mine)
                 = Part(orders[e], orders[e], t)
                     + SumFunctionOnSet(RowParts(Delete(orders, e), t), mine \ {e})
            /\ SumFunctionOnSet(RowParts(Delete(orders, e), t), mine \ {e}) \in Int
        BY <1>2, <1>11, <3>1, RemovedRow
      <3>3. left \in Int /\ locked = Part(o, o, t) + left
        BY <1>1, <1>12, <3>2
      <3> HIDE DEF left, locked, o
      <3> QED BY <1>5, <1>6, <2>1, <3>3
    <2>2. CASE u # a
      <3>1. mine \ {e} = mine /\ \A i \in mine : i \in DOMAIN orders' /\ orders'[i] = orders[i]
        BY <1>1, <1>11, <1>12, <2>2 DEF Delete
      <3>2. left = SumFunctionOnSet(RowParts(orders', t), mine)
        BY <1>12, <3>1
      <3>3. SumFunctionOnSet(RowParts(orders', t), mine) = locked
        BY <1>2, <1>11, <3>1, KeptRows
      <3>4. locked \in Int
        BY <1>11, SumIsInt
      <3> HIDE DEF left, locked, o
      <3> QED BY <2>2, <3>2, <3>3, <3>4
    <2> QED BY <2>1, <2>2
  <1> HIDE DEF left, locked
  <1> QED BY <1>5, <1>7, <1>8, <1>9, <1>10, <1>13

LEMMA WithdrawWorth ==
    ASSUME TypeInv, NEW a \in Accounts, NEW c \in Tokens,
           NEW q \in 1 .. rewards[a][c], Withdraw(a, c, q), NEW u \in Users, NEW t \in Tokens
    PROVE  Worth(u, t)' = Worth(u, t)
  <1> DEFINE locked == SumFunctionOnSet(RowParts(orders, t), Of(orders, u))
  <1>1. /\ Idle /\ phase' = "idle" /\ orders' = orders /\ Dex # a
        /\ rewards' = [rewards EXCEPT ![a][c] = @ - q]
        /\ wallet' = Pay(wallet, Dex, a, c, q)
    BY DEF Withdraw, Idle, loop, books, CanPay
  <1>2. /\ wallet \in Balances /\ rewards \in Balances
        /\ IsTable(orders, 1 .. orderId, OrderType) /\ orderId \in Nat
    BY BoundsAssumption DEF TypeInv, TypeOK
  <1>3. /\ Dex \in Accounts /\ u \in Accounts /\ u # Dex /\ q \in Int
    BY <1>2, AccountsAssumption DEF Accounts, Balances
  <1>4. Worth(u, t)' = wallet'[u][t] + rewards'[u][t] + locked
    BY <1>1, IdleFills, SavedWorth DEF WorthIn
  <1>5. Worth(u, t) = wallet[u][t] + rewards[u][t] + locked
    BY <1>1, IdleWorth DEF WorthIn
  <1>6. wallet[u][t] \in Int /\ rewards[u][t] \in Int
    BY <1>2, <1>3 DEF Balances
  <1>7. wallet'[u][t] = wallet[u][t] + (IF u = a /\ t = c THEN q ELSE 0)
    <2>1. wallet'[u][t] = IF t # c THEN wallet[u][t]
                          ELSE IF u = Dex THEN wallet[u][t] - q
                          ELSE IF u = a THEN wallet[u][t] + q ELSE wallet[u][t]
      BY <1>1, <1>2, <1>3, PayMoves
    <2> QED BY <1>3, <1>6, <2>1
  <1>8. rewards'[u][t] = rewards[u][t] - (IF u = a /\ t = c THEN q ELSE 0)
    <2>1. /\ \A e \in Accounts : rewards[e] \in [Tokens -> Nat]
          /\ rewards' = [e \in Accounts |->
                IF e = a THEN [rewards[a] EXCEPT ![c] = rewards[a][c] - q] ELSE rewards[e]]
      BY <1>1, <1>2 DEF Balances
    <2> QED BY <1>3, <1>6, <2>1
  <1>9. locked \in Int
    <2>1. Of(orders, u) \in SUBSET DOMAIN orders
      BY DEF Of
    <2>2. IsFiniteSet(Of(orders, u)) /\ \A i \in Of(orders, u) : RowParts(orders, t)[i] \in Int
      BY <1>2, <2>1, RowPartsType, FS_Subset
    <2> QED BY <2>2, SumIsInt
  <1> HIDE DEF locked
  <1> QED BY <1>3, <1>4, <1>5, <1>6, <1>7, <1>8, <1>9

(* A step without a deal. *)
LEMMA NextWorth ==
    ASSUME TypeInv, TypeInv', DealsInv, ValueInv, [Next]_vars, deals' = deals,
           NEW u \in Users, NEW t \in Tokens
    PROVE  Worth(u, t)' = Worth(u, t)
  <1>1. ASSUME Idle, UNCHANGED <<orders, rewards, wallet, phase>>
        PROVE  Worth(u, t)' = Worth(u, t)
    <2>1. Worth(u, t)' = WorthIn(orders', rewards', wallet', u, t)
      BY <1>1, IdleFills, SavedWorth DEF Idle
    <2> QED BY <1>1, <2>1, IdleWorth
  <1>2. CASE Administer
    <2>1. Idle /\ UNCHANGED <<books, money, loop>>
      BY <1>2 DEF Administer, InitDex, SetConfig, SetSymPair, OnOffSymPair, DelSymPair
    <2> QED BY <1>1, <2>1 DEF books, money, loop
  <1>3. CASE Place
    <2>1. ASSUME NEW r \in Requests, NEW signers, CreateOrder(r, signers)
          PROVE  Worth(u, t)' = Worth(u, t)
      BY <1>1, <2>1 DEF CreateOrder, money, loop
    <2>2. ASSUME NEW a \in Users, DelQueueOrd(a) PROVE Worth(u, t)' = Worth(u, t)
      BY <1>1, <2>2 DEF DelQueueOrd, money, loop
    <2>3. ASSUME NEW a \in Users, NEW c \in Tokens, NEW q \in 1 .. wallet[a][c],
                 OnTransfer(a, c, q)
          PROVE  Worth(u, t)' = Worth(u, t)
      <3>1. q \in Nat
        BY DEF TypeInv, TypeOK, Balances, Accounts
      <3> QED BY <2>3, <3>1, OnTransferWorth
    <2> QED BY <1>3, <2>1, <2>2, <2>3 DEF Place, NewOrder, Buy, Sell
  <1>4. CASE MatchAny
    <2>1. PICK p \in DOMAIN sympair, n \in MatchCounts : Match(p, n)
      BY <1>4 DEF MatchAny
    <2>2. /\ Idle /\ orders' = orders /\ rewards' = rewards /\ wallet' = wallet
          /\ BeginMatching("match", p, n, orders')
      BY <2>1 DEF Match, books, money
    <2>3. Worth(u, t)' = WorthIn(orders', rewards', wallet', u, t)
      BY <2>2, BeginFills, SavedWorth
    <2> QED BY <2>2, <2>3, IdleWorth
  <1>5. CASE Leave
    BY <1>5, CancelWorth, WithdrawWorth DEF Leave
  <1>6. CASE Round
    <2>1. deals' = Append(deals, Deal) /\ Deal \in DealType /\ deals \in Seq(DealType)
      BY <1>6, RoundAmounts DEF Round, TypeInv, TypeOK
    <2>2. Len(deals) \in Nat /\ Len(Append(deals, Deal)) = Len(deals) + 1
      BY <2>1, AppendDeal
    <2> QED BY <2>1, <2>2
  <1>7. CASE Finish
    <2>1. /\ phase = "matching" /\ phase' = "idle" /\ rewards' = rewards /\ wallet' = wallet
      BY <1>7 DEF Finish, EndTransaction, money
    <2>2. RowParts(orders', t) = LiveParts(t) /\ Of(orders', u) = Of(orders, u)
      BY <1>7, <2>1, FinishOrders DEF RowParts, LiveParts, Part, Of
    <2>3. Worth(u, t)' = WorthIn(orders', rewards', wallet', u, t)
      BY <2>1, IdleFills, SavedWorth
    <2> QED BY <2>1, <2>2, <2>3 DEF Worth, WorthIn
  <1>8. CASE Abort
    <2>1. /\ phase = "matching" /\ phase' = "idle" /\ deals' = undo.deals
          /\ orders' = undo.orders /\ rewards' = undo.rewards /\ wallet' = undo.wallet
      BY <1>8 DEF Abort, EndTransaction
    <2>2. Worth(u, t)' = WorthIn(orders', rewards', wallet', u, t)
      BY <2>1, IdleFills, SavedWorth
    <2>3. Worth(u, t) = WorthIn(undo.orders, undo.rewards, undo.wallet, u, t)
      BY <2>1 DEF ValueInv
    <2> QED BY <2>1, <2>2, <2>3
  <1>9. CASE UNCHANGED vars
    <2>1. UNCHANGED <<orders, rewards, wallet, phase, buyIt, sellIt>>
      BY <1>9 DEF vars, books, money, loop
    <2>2. LiveParts(t)' = LiveParts(t)
      BY <2>1 DEF LiveParts, Part, Fill
    <2> QED BY <2>1, <2>2 DEF Worth, Of
  <1> QED BY <1>2, <1>3, <1>4, <1>5, <1>6, <1>7, <1>8, <1>9 DEF Next

LEMMA NextValueInv ==
    ASSUME TypeInv, TypeInv', DealsInv, LoopInv, LoopInv', ValueInv, [Next]_vars
    PROVE  ValueInv'
  <1>1. Owned(queue') /\ (phase' = "matching" => Owned(undo'.queue))
    <2>1. CASE Administer
      BY <2>1 DEF Administer, InitDex, SetConfig, SetSymPair, OnOffSymPair, DelSymPair,
                  books, loop, Idle, ValueInv
    <2>2. CASE Place
      <3>1. ASSUME NEW r \in Requests, NEW signers, CreateOrder(r, signers)
            PROVE  Owned(queue') /\ phase' = "idle"
        <4>1. \E row : queue' = Put(queue, r.user, row) /\ row.owner = r.user
          BY <3>1 DEF CreateOrder
        <4> QED BY <3>1, <4>1 DEF CreateOrder, Put, Owned, ValueInv, Idle, loop
      <3>2. ASSUME NEW a \in Users, DelQueueOrd(a)
            PROVE  Owned(queue') /\ phase' = "idle"
        BY <3>2 DEF DelQueueOrd, Delete, Owned, ValueInv, Idle, loop
      <3>3. ASSUME NEW a \in Users, NEW c \in Tokens, NEW q, OnTransfer(a, c, q)
            PROVE  Owned(queue') /\ Owned(undo'.queue)
        <4>1. queue' = Delete(queue, a) /\ undo'.queue = queue
          BY <3>3 DEF OnTransfer, BeginMatching
        <4> QED BY <4>1 DEF Delete, Owned, ValueInv
      <3> QED BY <2>2, <3>1, <3>2, <3>3 DEF Place, NewOrder, Buy, Sell
    <2>3. CASE MatchAny
      <3>1. queue' = queue /\ undo'.queue = queue
        BY <2>3 DEF MatchAny, Match, BeginMatching, books
      <3> QED BY <3>1 DEF ValueInv
    <2>4. CASE Leave
      BY <2>4 DEF Leave, Cancel, Withdraw, books, loop, Idle, ValueInv
    <2>5. CASE Round
      BY <2>5 DEF Round, ValueInv
    <2>6. CASE Finish
      BY <2>6 DEF Finish, EndTransaction, ValueInv
    <2>7. CASE Abort
      BY <2>7 DEF Abort, EndTransaction, ValueInv
    <2>8. CASE UNCHANGED vars
      BY <2>8 DEF vars, books, loop, ValueInv
    <2> QED BY <2>1, <2>2, <2>3, <2>4, <2>5, <2>6, <2>7, <2>8 DEF Next
  <1>2. ASSUME phase' = "matching", Len(deals') = Len(undo'.deals),
               NEW u \in Users, NEW t \in Tokens
        PROVE  Worth(u, t)' = WorthIn(undo'.orders, undo'.rewards, undo'.wallet, u, t)
    <2>1. CASE phase = "matching"
      <3>1. Round \/ UNCHANGED vars
        BY <1>2, <2>1 DEF Next, Administer, InitDex, SetConfig, SetSymPair, OnOffSymPair,
           DelSymPair, Place, NewOrder, Buy, Sell, CreateOrder, DelQueueOrd, OnTransfer,
           MatchAny, Match, Leave, Cancel, Withdraw, Finish, Abort, EndTransaction, Idle
      <3>2. ~Round
        <4> SUFFICES ASSUME Round PROVE FALSE
          OBVIOUS
        <4>1. txn'.count = txn.count + 1 /\ txn.count \in Nat
          BY RoundOrders DEF Round, TxnType
        <4>2. Len(deals') = Len(undo'.deals) + txn'.count /\ Len(deals') \in Nat
          BY <1>2 DEF LoopInv, TypeInv, TypeOK
        <4>3. Len(undo'.deals) \in Nat
          BY <1>2, <4>2
        <4> QED BY <1>2, <4>1, <4>2, <4>3
      <3>3. UNCHANGED <<deals, undo, phase>>
        BY <3>1, <3>2 DEF vars, money, loop
      <3>4. Worth(u, t)' = Worth(u, t)
        BY <3>3, NextWorth
      <3> QED BY <1>2, <2>1, <3>3, <3>4 DEF ValueInv
    <2>2. CASE phase # "matching"
      <3>1. /\ Idle /\ deals' = deals
            /\ undo'.orders = orders /\ undo'.rewards = rewards /\ undo'.wallet = wallet
        <4>1. Idle
          BY <2>2 DEF TypeInv, TypeOK, Idle
        <4>2. (\E a, c, q : OnTransfer(a, c, q)) \/ (\E p, n : Match(p, n))
          BY <1>2, <2>2, <4>1 DEF Next, Administer, InitDex, SetConfig, SetSymPair,
             OnOffSymPair, DelSymPair, Place, NewOrder, Buy, Sell, CreateOrder, DelQueueOrd,
             MatchAny, Leave, Cancel, Withdraw, Round, Finish, Abort, EndTransaction,
             Idle, loop, vars
        <4> QED BY <4>1, <4>2 DEF OnTransfer, Match, BeginMatching, money
      <3>2. Worth(u, t)' = Worth(u, t)
        BY <3>1, NextWorth
      <3> QED BY <3>1, <3>2, IdleWorth
    <2> QED BY <2>1, <2>2
  <1> QED BY <1>1, <1>2 DEF ValueInv, Owned, Worth, WorthIn, RowParts, Part, Of

LEMMA ValueInvInvariant == Spec => []ValueInv
  <1>1. Init => ValueInv
    BY DEF Init, ValueInv, Owned, EmptyTable
  <1>2. TypeInv /\ TypeInv' /\ DealsInv /\ LoopInv /\ LoopInv' /\ ValueInv /\ [Next]_vars
           => ValueInv'
    BY NextValueInv
  <1> QED BY <1>1, <1>2, TypeInvInvariant, DealsInvInvariant, LoopInvInvariant, PTL DEF Spec

Worths == \A u \in Users, t \in Tokens : Holdings(u, t) = Worth(u, t)

(* Nothing but a deal changes what a user owns in the wallet, in booked    *)
(* orders and in rewards together: payments, cancellations, withdrawals    *)
(* and rollbacks only move it.                                             *)
THEOREM ValueMovesInDeals == Spec => OnlyDealsMoveValue
  <1>1. TypeInv => Worths
    <2> SUFFICES ASSUME TypeInv, NEW u \in Users, NEW t \in Tokens
                 PROVE  Holdings(u, t) = Worth(u, t)
      BY DEF Worths
    <2>1. Of(orders, u) \in SUBSET DOMAIN orders
      BY DEF Of
    <2>2. Locked(Of(orders, u), t) = SumFunctionOnSet(LiveParts(t), Of(orders, u))
      BY <2>1, LockedIsSum
    <2> QED BY <2>2 DEF Holdings, Worth, Of
  <1>2. TypeInv /\ TypeInv' /\ DealsInv /\ ValueInv /\ Worths /\ Worths' /\ [Next]_vars
           => [deals' = deals =>
                 \A u \in Users, t \in Tokens : Holdings(u, t)' = Holdings(u, t)]_vars
    <2> SUFFICES ASSUME TypeInv, TypeInv', DealsInv, ValueInv, Worths, Worths', [Next]_vars,
                        deals' = deals, NEW u \in Users, NEW t \in Tokens
                 PROVE  Holdings(u, t)' = Holdings(u, t)
      OBVIOUS
    <2>1. Worth(u, t)' = Worth(u, t)
      BY NextWorth
    <2> QED BY <2>1 DEF Worths
  <1> QED BY <1>1, <1>2, TypeInvInvariant, DealsInvInvariant, ValueInvInvariant, PTL
          DEF Spec, OnlyDealsMoveValue
=============================================================================
