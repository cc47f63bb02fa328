--------------------------- MODULE OrderBookProofs ---------------------------
(***************************************************************************)
(* Theorems about the order book, for every set of users, tokens, orders   *)
(* and configurations.                                                     *)
(***************************************************************************)
EXTENDS OrderBook, DexMathLemmas, WellFoundedInduction

-----------------------------------------------------------------------------
(***************************************************************************)
(* Tables.                                                                 *)
(***************************************************************************)
LEMMA PutTable ==
    ASSUME NEW table, NEW keys, NEW rows, IsTable(table, keys, rows),
           NEW key \in keys, NEW row \in rows
    PROVE  /\ IsTable(Put(table, key, row), keys, rows)
           /\ DOMAIN Put(table, key, row) = DOMAIN table \cup {key}
  BY DEF IsTable, Put

LEMMA DeleteTable ==
    ASSUME NEW table, NEW keys, NEW rows, IsTable(table, keys, rows), NEW key
    PROVE  /\ IsTable(Delete(table, key), keys, rows)
           /\ DOMAIN Delete(table, key) = DOMAIN table \ {key}
  BY DEF IsTable, Delete

LEMMA WidenTable ==
    ASSUME NEW table, NEW keys, NEW wider, NEW rows, IsTable(table, keys, rows),
           keys \subseteq wider
    PROVE  IsTable(table, wider, rows)
  BY DEF IsTable

LEMMA NatMin ==
    ASSUME NEW S \in SUBSET Nat, S # {}
    PROVE  \E m \in S : \A n \in S : m <= n
  <1>1. \E m \in S : \A n \in S : ~(<<n, m>> \in OpToRel(<, Nat))
    BY NatLessThanWellFounded, WFMin
  <1>2. PICK m \in S : \A n \in S : ~(<<n, m>> \in OpToRel(<, Nat))
    BY <1>1
  <1>3. ASSUME NEW n \in S PROVE m <= n
    <2>1. ~(n < m)
      BY <1>2 DEF OpToRel
    <2> QED BY <2>1
  <1> QED BY <1>3

(* The index of an order table has a first row as long as it has any.      *)
LEMMA FirstIsMember ==
    ASSUME NEW table, NEW S \in SUBSET Nat, S # {},
           \A i \in S : table[i] \in QueuedType
    PROVE  /\ First(table, S) \in S
           /\ \A j \in S \ {First(table, S)} : Before(table, First(table, S), j)
  <1> DEFINE key(i) == PriceKey(table[i])
             keys   == {key(i) : i \in S}
  <1>1. ASSUME NEW i \in S PROVE key(i) \in Nat
    <2>1. table[i].price \in 1 .. MaxInt64
      BY DEF QueuedType
    <2> QED BY <2>1, MaxInt64Assumption, BoundsAssumption DEF PriceKey
  <1> HIDE DEF key
  <1>2. PICK k \in keys : \A n \in keys : k <= n
    <2>1. keys \in SUBSET Nat /\ keys # {}
      BY <1>1
    <2> QED BY <2>1, NatMin
  <1> DEFINE ties == {i \in S : key(i) = k}
  <1>3. PICK i \in ties : \A j \in ties : i <= j
    <2>1. ties \in SUBSET Nat /\ ties # {}
      BY <1>2
    <2> QED BY <2>1, NatMin
  <1>4. ASSUME NEW j \in S \ {i} PROVE Before(table, i, j)
    <2>1. k <= key(j) /\ key(i) = k /\ key(j) \in Nat /\ k \in Nat
      BY <1>1, <1>2, <1>3
    <2>2. CASE key(j) = k
      <3>1. i <= j /\ i # j /\ i \in Nat /\ j \in Nat
        BY <1>3, <2>2
      <3> QED BY <2>1, <2>2, <3>1 DEF Before, key
    <2>3. CASE key(j) # k
      BY <2>1, <2>3 DEF Before, key
    <2> QED BY <2>2, <2>3
  <1>5. i \in S
    BY <1>3
  <1> QED BY <1>4, <1>5 DEF First

LEMMA LoadType ==
    ASSUME NEW table, NEW S \in SUBSET Nat,
           \A i \in S : table[i] \in QueuedType
    PROVE  /\ Load(table, S) \in ItType
           /\ S = {} => Load(table, S) = NoIt
           /\ S # {} =>
                LET i == Load(table, S).id
                IN  /\ i \in S
                    /\ Load(table, S).matched_asset = table[i].matched_asset
                    /\ Load(table, S).matched_coin = table[i].matched_coin
                    /\ Load(table, S).matched_fee = table[i].matched_fee
                    /\ Load(table, S).last_deal_id = table[i].last_deal_id
  <1>1. CASE S = {}
    BY <1>1 DEF Load, NoIt, ItType
  <1>2. CASE S # {}
    <2> DEFINE i == First(table, S)
    <2>1. i \in S
      BY <1>2, FirstIsMember
    <2>2. table[i] \in QueuedType /\ i \in Nat
      BY <2>1
    <2> HIDE DEF i
    <2>3. Load(table, S) = [id |-> i,
                            matched_asset |-> table[i].matched_asset,
                            matched_coin  |-> table[i].matched_coin,
                            matched_fee   |-> table[i].matched_fee,
                            last_deal_id  |-> table[i].last_deal_id]
      BY <1>2 DEF Load, i
    <2>4. /\ table[i].matched_asset \in Nat /\ table[i].matched_coin \in Nat
          /\ table[i].matched_fee \in Nat /\ table[i].last_deal_id \in Nat
      BY <2>2 DEF QueuedType
    <2> QED BY <1>2, <2>1, <2>2, <2>3, <2>4 DEF ItType
  <1> QED BY <1>1, <1>2
-----------------------------------------------------------------------------
(***************************************************************************)
(* Money.                                                                  *)
(***************************************************************************)
LEMMA PayType ==
    ASSUME NEW w \in Balances, NEW from \in Accounts, NEW to \in Accounts,
           from # to, NEW token \in Tokens, NEW amount \in Nat,
           w[from][token] >= amount
    PROVE  /\ Pay(w, from, to, token, amount) \in Balances
           /\ \A t \in Tokens :
                Pay(w, from, to, token, amount)[from][t] =
                  IF t = token THEN w[from][t] - amount ELSE w[from][t]
  <1>1. w[from] \in [Tokens -> Nat] /\ w[to] \in [Tokens -> Nat]
    BY DEF Balances
  <1>2. w[from][token] - amount \in Nat /\ w[to][token] + amount \in Nat
    BY <1>1
  <1>3. Pay(w, from, to, token, amount) =
           [a \in Accounts |->
              IF a = from THEN [w[from] EXCEPT ![token] = w[from][token] - amount]
              ELSE IF a = to THEN [w[to] EXCEPT ![token] = w[to][token] + amount]
              ELSE w[a]]
    BY <1>1 DEF Pay, Balances
  <1>4. /\ [w[from] EXCEPT ![token] = w[from][token] - amount] \in [Tokens -> Nat]
        /\ [w[to] EXCEPT ![token] = w[to][token] + amount] \in [Tokens -> Nat]
    BY <1>1, <1>2
  <1>5. \A a \in Accounts : w[a] \in [Tokens -> Nat]
    BY DEF Balances
  <1>6. Pay(w, from, to, token, amount) \in Balances
    BY <1>3, <1>4, <1>5 DEF Balances
  <1>7. Pay(w, from, to, token, amount)[from]
           = [w[from] EXCEPT ![token] = w[from][token] - amount]
    BY <1>3
  <1> QED BY <1>1, <1>6, <1>7

LEMMA CreditType ==
    ASSUME NEW r \in Balances, NEW token \in Tokens,
           NEW shares \in [Accounts -> Nat]
    PROVE  Credit(r, token, shares) \in Balances
  <1>1. ASSUME NEW a \in Accounts
        PROVE  [r[a] EXCEPT ![token] = @ + shares[a]] \in [Tokens -> Nat]
    <2>1. r[a] \in [Tokens -> Nat] /\ shares[a] \in Nat
      BY DEF Balances
    <2>2. r[a][token] + shares[a] \in Nat
      BY <2>1
    <2> QED BY <2>1, <2>2
  <1> QED BY <1>1 DEF Credit, Balances

LEMMA FeeSharesType ==
    ASSUME config \in ConfigType, NEW user \in Users, NEW fee \in Nat
    PROVE  FeeShares(user, fee) \in [Accounts -> Nat]
  <1> DEFINE parent == Creator[user]
             pays   == config.parent_reward > 0 /\ parent # Sys
             grand  == Creator[parent]
             toParent == IF pays THEN RewardShare(fee, config.parent_reward) ELSE 0
             toGrand  == IF pays THEN RewardShare(fee, config.grand_reward) ELSE 0
             rest     == fee - toParent - toGrand
  <1>1. toParent \in Nat /\ toGrand \in Nat
    <2>1. config.parent_reward \in Nat /\ config.grand_reward \in Nat
      BY DEF ConfigType
    <2> QED BY <2>1, ShareIsNatural
  <1>2. rest \in Int
    BY <1>1
  <1>3. FeeShares(user, fee) = [a \in Accounts |->
            (IF a = parent THEN toParent ELSE 0)
          + (IF pays /\ a = grand THEN toGrand ELSE 0)
          + (IF a = config.collector /\ rest > 0 THEN rest ELSE 0)]
    BY DEF FeeShares
  <1> HIDE DEF parent, pays, grand, toParent, toGrand, rest
  <1>4. ASSUME NEW a \in Accounts
        PROVE  (IF a = parent THEN toParent ELSE 0)
             + (IF pays /\ a = grand THEN toGrand ELSE 0)
             + (IF a = config.collector /\ rest > 0 THEN rest ELSE 0) \in Nat
    <2>1. (IF a = parent THEN toParent ELSE 0) \in Nat
      BY <1>1
    <2>2. (IF pays /\ a = grand THEN toGrand ELSE 0) \in Nat
      BY <1>1
    <2>3. (IF a = config.collector /\ rest > 0 THEN rest ELSE 0) \in Nat
      BY <1>2
    <2> QED BY <2>1, <2>2, <2>3
  <1> QED BY <1>3, <1>4
-----------------------------------------------------------------------------
(***************************************************************************)
(* Type correctness.  The types are inductive together with the fact that  *)
(* the two tokens of a listed pair differ: a round pays in both of them.   *)
(***************************************************************************)
PairsDiffer == \A p \in DOMAIN sympair : sympair[p].asset # sympair[p].coin

TypeInv == TypeOK /\ PairsDiffer

LEMMA InitTypeInv == Init => TypeInv
  <1> SUFFICES ASSUME Init PROVE TypeInv
    OBVIOUS
  <1>1. config \in ConfigType /\ ValidConfig(config)
    BY ConfigsAssumption DEF Init
  <1>2. /\ IsTable(sympair, 1 .. sympairId, PairType)
        /\ IsTable(queue, Users, QueuedType)
        /\ IsTable(orders, 1 .. orderId, OrderType)
        /\ sympairId \in 0 .. MaxPairs /\ orderId \in 0 .. MaxOrders
        /\ PairsDiffer
    BY BoundsAssumption DEF Init, IsTable, EmptyTable, PairsDiffer
  <1>3. rewards \in Balances
    BY DEF Init, Balances
  <1>4. wallet \in Balances
    <2>1. ASSUME NEW a \in Accounts
          PROVE  (IF a \in Users THEN Funds[a] ELSE [t \in Tokens |-> 0])
                    \in [Tokens -> Nat]
      BY TokensAssumption
    <2> QED BY <2>1 DEF Init, Balances
  <1>5. deals \in Seq(DealType)
    BY DEF Init
  <1>6. phase = "idle" /\ txn \in TxnType /\ buyIt \in ItType /\ sellIt \in ItType
    BY DEF Init, NoTxn, NoIt, TxnType, ItType
  <1> QED BY <1>1, <1>2, <1>3, <1>4, <1>5, <1>6 DEF TypeInv, TypeOK

LEMMA StutterTypeInv ==
    ASSUME TypeInv, UNCHANGED vars
    PROVE  TypeInv'
  BY DEF TypeInv, TypeOK, PairsDiffer, UndoTypeOK, OnBook, Book, IsTable,
         ValidConfig, vars, admin, books, money, loop

(* Outside the matching loop only the tables have to be looked at. *)
LEMMA IdleTypeInv ==
    ASSUME TypeInv, Idle, UNCHANGED loop,
           config' \in ConfigType, ValidConfig(config)',
           IsTable(sympair', 1 .. sympairId', PairType),
           sympairId' \in 0 .. MaxPairs,
           IsTable(queue', Users, QueuedType),
           IsTable(orders', 1 .. orderId', OrderType),
           orderId' \in 0 .. MaxOrders,
           rewards' \in Balances, deals' \in Seq(DealType), wallet' \in Balances,
           PairsDiffer'
    PROVE  TypeInv'
  <1>1. phase' = "idle" /\ txn' \in TxnType /\ buyIt' \in ItType /\ sellIt' \in ItType
    BY DEF TypeInv, TypeOK, Idle, loop
  <1> QED BY <1>1 DEF TypeInv, TypeOK

LEMMA ConfigTypeInv ==
    ASSUME TypeInv,
           InitDex \/ \E conf \in Configs : SetConfig(conf)
    PROVE  TypeInv'
  <1>1. config' \in ConfigType /\ ValidConfig(config)'
    <2>1. CASE InitDex
      <3>1. ValidConfig(InitConfig)
        BY DEF ValidConfig, ValidFeeRatio, FeeRatioMax, InitConfig
      <3> QED BY <2>1, <3>1, ConfigsAssumption DEF InitDex, ValidConfig
    <2>2. ASSUME NEW conf \in Configs, SetConfig(conf)
          PROVE  config' \in ConfigType /\ ValidConfig(config)'
      BY <2>2, ConfigsAssumption DEF SetConfig, ValidConfig
    <2> QED BY <2>1, <2>2
  <1>2. Idle /\ UNCHANGED <<sympair, sympairId, books, money, loop>>
    BY DEF InitDex, SetConfig
  <1>3. UNCHANGED loop /\ PairsDiffer'
    BY <1>2 DEF TypeInv, PairsDiffer
  <1> QED BY <1>1, <1>2, <1>3, IdleTypeInv DEF TypeInv, TypeOK, IsTable, books, money

LEMMA SetSymPairTypeInv ==
    ASSUME TypeInv, NEW asset \in Tokens, NEW coin \in Tokens, NEW on \in BOOLEAN,
           SetSymPair(asset, coin, on)
    PROVE  TypeInv'
  <1> DEFINE id  == NewId(sympairId)
             row == [asset |-> asset, coin |-> coin, enabled |-> on, latest |-> 0]
             listed(a, c) ==
                {p \in DOMAIN sympair : sympair[p].asset = a /\ sympair[p].coin = c}
  <1>1. /\ Idle /\ Code[asset] # Code[coin]
        /\ UNCHANGED <<config, books, money, loop>>
    BY DEF SetSymPair
  <1>2. /\ IsTable(sympair, 1 .. sympairId, PairType)
        /\ sympairId \in 0 .. MaxPairs /\ PairsDiffer
    BY DEF TypeInv, TypeOK
  <1>3. /\ IsTable(sympair', 1 .. sympairId', PairType)
        /\ sympairId' \in 0 .. MaxPairs /\ PairsDiffer'
    <2>1. CASE /\ sympairId < MaxPairs /\ sympairId' = id
               /\ sympair' = Put(sympair, id, row)
      <3>1. id = sympairId + 1
        BY <1>2, BoundsAssumption DEF NewId
      <3>2. id \in 1 .. sympairId' /\ 1 .. sympairId \subseteq 1 .. sympairId'
            /\ sympairId' \in 0 .. MaxPairs
        BY <1>2, <2>1, <3>1, BoundsAssumption
      <3>3. row \in PairType
        BY DEF PairType
      <3>4. IsTable(sympair', 1 .. sympairId', PairType)
        BY <1>2, <2>1, <3>2, <3>3, PutTable, WidenTable
      <3>5. PairsDiffer'
        BY <1>1, <1>2, <2>1 DEF PairsDiffer, Put
      <3> QED BY <3>2, <3>4, <3>5
    <2>2. ASSUME NEW p \in listed(asset, coin),
                 sympair' = [sympair EXCEPT ![p].enabled = on], UNCHANGED sympairId
          PROVE  /\ IsTable(sympair', 1 .. sympairId', PairType)
                 /\ sympairId' \in 0 .. MaxPairs /\ PairsDiffer'
      <3>1. p \in DOMAIN sympair /\ sympair[p] \in PairType
        BY <1>2 DEF IsTable
      <3>2. [sympair[p] EXCEPT !.enabled = on] \in PairType
        BY <3>1 DEF PairType
      <3>3. /\ DOMAIN sympair' = DOMAIN sympair
            /\ \A q \in DOMAIN sympair : sympair'[q] =
                  IF q = p THEN [sympair[p] EXCEPT !.enabled = on] ELSE sympair[q]
        BY <2>2
      <3>4. \A q \in DOMAIN sympair :
              sympair'[q].asset = sympair[q].asset /\ sympair'[q].coin = sympair[q].coin
        BY <3>1, <3>3 DEF PairType
      <3> QED BY <1>2, <2>2, <3>2, <3>3, <3>4 DEF IsTable, PairsDiffer
    <2> QED BY <2>1, <2>2 DEF SetSymPair
  <1>4. /\ config' \in ConfigType /\ ValidConfig(config)'
        /\ IsTable(queue', Users, QueuedType)
        /\ IsTable(orders', 1 .. orderId', OrderType)
        /\ orderId' \in 0 .. MaxOrders
        /\ rewards' \in Balances /\ deals' \in Seq(DealType) /\ wallet' \in Balances
    BY <1>1 DEF TypeInv, TypeOK, IsTable, ValidConfig, books, money
  <1> QED BY <1>1, <1>3, <1>4, IdleTypeInv

LEMMA SwitchTypeInv ==
    ASSUME TypeInv, NEW p \in DOMAIN sympair,
           (\E on \in BOOLEAN : OnOffSymPair(p, on)) \/ DelSymPair(p)
    PROVE  TypeInv'
  <1>1. Idle /\ UNCHANGED <<config, sympairId, books, money, loop>>
    BY DEF OnOffSymPair, DelSymPair
  <1>2. IsTable(sympair, 1 .. sympairId, PairType) /\ PairsDiffer
    BY DEF TypeInv, TypeOK
  <1>3. IsTable(sympair', 1 .. sympairId, PairType) /\ PairsDiffer'
    <2>1. CASE DelSymPair(p)
      BY <1>2, <2>1, DeleteTable DEF DelSymPair, PairsDiffer, Delete
    <2>2. ASSUME NEW on \in BOOLEAN, OnOffSymPair(p, on)
          PROVE  IsTable(sympair', 1 .. sympairId, PairType) /\ PairsDiffer'
      <3>1. sympair[p] \in PairType
        BY <1>2 DEF IsTable
      <3>2. [sympair[p] EXCEPT !.enabled = on] \in PairType
        BY <3>1 DEF PairType
      <3>3. /\ DOMAIN sympair' = DOMAIN sympair
            /\ \A q \in DOMAIN sympair : sympair'[q] =
                  IF q = p THEN [sympair[p] EXCEPT !.enabled = on] ELSE sympair[q]
        BY <2>2 DEF OnOffSymPair
      <3>4. \A q \in DOMAIN sympair :
              sympair'[q].asset = sympair[q].asset /\ sympair'[q].coin = sympair[q].coin
        BY <3>1, <3>3 DEF PairType
      <3> QED BY <1>2, <3>2, <3>3, <3>4 DEF IsTable, PairsDiffer
    <2> QED BY <2>1, <2>2
  <1>4. /\ config' \in ConfigType /\ ValidConfig(config)'
        /\ sympairId' \in 0 .. MaxPairs /\ sympairId' = sympairId
        /\ IsTable(queue', Users, QueuedType)
        /\ IsTable(orders', 1 .. orderId', OrderType)
        /\ orderId' \in 0 .. MaxOrders
        /\ rewards' \in Balances /\ deals' \in Seq(DealType) /\ wallet' \in Balances
    BY <1>1 DEF TypeInv, TypeOK, IsTable, ValidConfig, books, money
  <1> QED BY <1>1, <1>3, <1>4, IdleTypeInv

LEMMA CreateOrderTypeInv ==
    ASSUME TypeInv, NEW r \in Requests, NEW signers, CreateOrder(r, signers)
    PROVE  TypeInv'
  <1> DEFINE pair == sympair[r.pair]
             row == [owner |-> r.user, pair |-> r.pair, side |-> r.side,
                     price |-> r.price, total |-> r.total, frozen |-> Frozen(r),
                     token |-> IF r.side = BUY THEN pair.coin ELSE pair.asset,
                     taker |-> IF r.ex = NoConfigEx THEN config.taker ELSE r.ex.taker,
                     maker |-> IF r.ex = NoConfigEx THEN config.maker ELSE r.ex.maker,
                     matched_asset |-> 0, matched_coin |-> 0, matched_fee |-> 0,
                     last_deal_id |-> 0]
  <1>1. Idle /\ UNCHANGED <<admin, orders, orderId, money, loop>>
    BY DEF CreateOrder
  <1>2. r \in RequestType /\ r.price \in 1 .. MaxInt64
    <2>1. r \in RequestType /\ r.price <= MaxInt64
      BY InputsAssumption
    <2>2. r.price \in Int /\ r.price > 0
      BY <2>1 DEF RequestType, CreateOrder
    <2> QED BY <2>1, <2>2, MaxInt64Assumption
  <1>3. r.user \in Users /\ r.pair \in Nat /\ r.side \in Sides /\ r.total \in Int
    BY <1>2 DEF RequestType
  <1>4. pair \in PairType
    BY DEF CreateOrder, Tradable, TypeInv, TypeOK, IsTable
  <1>5. pair.asset \in Tokens /\ pair.coin \in Tokens
    BY <1>4 DEF PairType
  <1>6. Frozen(r) \in Int
    <2>1. Unit[pair.asset] \in Nat \ {0} /\ r.price \in Int
      BY <1>2, <1>5, TokensAssumption DEF RequestType
    <2> QED BY <1>3, <2>1, CoinIsInteger DEF Frozen
  <1>7. row.taker \in 0 .. FeeRatioMax /\ row.maker \in 0 .. FeeRatioMax
    <2>1. config.taker \in 0 .. FeeRatioMax /\ config.maker \in 0 .. FeeRatioMax
      BY DEF TypeInv, TypeOK, ValidConfig, ValidFeeRatio
    <2>2. r.ex # NoConfigEx => /\ r.ex.taker \in 0 .. FeeRatioMax
                               /\ r.ex.maker \in 0 .. FeeRatioMax
      BY DEF CreateOrder, ValidFeeRatio
    <2> QED BY <2>1, <2>2
  <1>8. row \in QueuedType
    BY <1>2, <1>3, <1>5, <1>6, <1>7 DEF QueuedType
  <1>9. IsTable(queue', Users, QueuedType)
    <2>1. queue' = Put(queue, r.user, row)
      BY DEF CreateOrder
    <2> HIDE DEF row
    <2>2. IsTable(queue, Users, QueuedType)
      BY DEF TypeInv, TypeOK
    <2> QED BY <1>3, <1>8, <2>1, <2>2, PutTable
  <1>10. /\ config' \in ConfigType /\ ValidConfig(config)' /\ PairsDiffer'
         /\ IsTable(sympair', 1 .. sympairId', PairType)
         /\ sympairId' \in 0 .. MaxPairs
         /\ IsTable(orders', 1 .. orderId', OrderType)
         /\ orderId' \in 0 .. MaxOrders
         /\ rewards' \in Balances /\ deals' \in Seq(DealType) /\ wallet' \in Balances
    BY <1>1 DEF TypeInv, TypeOK, IsTable, ValidConfig, PairsDiffer, admin, money
  <1> QED BY <1>1, <1>9, <1>10, IdleTypeInv

LEMMA DelQueueOrdTypeInv ==
    ASSUME TypeInv, NEW u \in Users, DelQueueOrd(u)
    PROVE  TypeInv'
  <1>1. Idle /\ UNCHANGED <<admin, orders, orderId, money, loop>>
    BY DEF DelQueueOrd
  <1>2. IsTable(queue', Users, QueuedType)
    BY DeleteTable DEF DelQueueOrd, TypeInv, TypeOK
  <1>3. /\ config' \in ConfigType /\ ValidConfig(config)' /\ PairsDiffer'
        /\ IsTable(sympair', 1 .. sympairId', PairType)
        /\ sympairId' \in 0 .. MaxPairs
        /\ IsTable(orders', 1 .. orderId', OrderType)
        /\ orderId' \in 0 .. MaxOrders
        /\ rewards' \in Balances /\ deals' \in Seq(DealType) /\ wallet' \in Balances
    BY <1>1 DEF TypeInv, TypeOK, IsTable, ValidConfig, PairsDiffer, admin, money
  <1> QED BY <1>1, <1>2, <1>3, IdleTypeInv

LEMMA CancelTypeInv ==
    ASSUME TypeInv, NEW i \in DOMAIN orders, NEW u \in Users,
           Cancel(u, orders[i].pair, orders[i].side, i)
    PROVE  TypeInv'
  <1> DEFINE rest  == Remainder(orders[i])
             token == orders[i].token
  <1>1. Idle /\ UNCHANGED <<admin, queue, orderId, rewards, deals, loop>>
    BY DEF Cancel
  <1>2. orders[i] \in QueuedType
    BY DEF TypeInv, TypeOK, IsTable, OrderType
  <1>3. token \in Tokens /\ rest \in Int
    BY <1>2 DEF QueuedType, Remainder
  <1>4. Dex \in Accounts /\ u \in Accounts /\ Dex # u
    BY AccountsAssumption DEF Accounts
  <1>5. wallet' \in Balances
    <2>1. CanPay(Dex, u, token, rest) /\ wallet' = Pay(wallet, Dex, u, token, rest)
      BY DEF Cancel
    <2>2. rest \in Nat /\ wallet[Dex][token] >= rest
      BY <1>3, <2>1 DEF CanPay
    <2>3. wallet \in Balances
      BY DEF TypeInv, TypeOK
    <2> HIDE DEF rest, token
    <2> QED BY <1>3, <1>4, <2>1, <2>2, <2>3, PayType
  <1>6. IsTable(orders', 1 .. orderId', OrderType)
    <2>1. IsTable(orders, 1 .. orderId, OrderType)
      BY DEF TypeInv, TypeOK
    <2>2. orders' = Delete(orders, i) /\ orderId' = orderId
      BY DEF Cancel
    <2> QED BY <2>1, <2>2, DeleteTable
  <1>7. /\ config' \in ConfigType /\ ValidConfig(config)' /\ PairsDiffer'
        /\ IsTable(sympair', 1 .. sympairId', PairType)
        /\ sympairId' \in 0 .. MaxPairs
        /\ IsTable(queue', Users, QueuedType)
        /\ orderId' \in 0 .. MaxOrders
        /\ rewards' \in Balances /\ deals' \in Seq(DealType)
    BY <1>1 DEF TypeInv, TypeOK, IsTable, ValidConfig, PairsDiffer, admin
  <1> QED BY <1>1, <1>5, <1>6, <1>7, IdleTypeInv

LEMMA WithdrawTypeInv ==
    ASSUME TypeInv, NEW a \in Accounts, NEW t \in Tokens,
           NEW q \in 1 .. rewards[a][t], Withdraw(a, t, q)
    PROVE  TypeInv'
  <1>1. Idle /\ UNCHANGED <<admin, books, deals, loop>>
    BY DEF Withdraw
  <1>2. rewards \in Balances /\ wallet \in Balances
    BY DEF TypeInv, TypeOK
  <1>3. rewards[a] \in [Tokens -> Nat]
    BY <1>2 DEF Balances
  <1>4. q \in Nat /\ rewards[a][t] - q \in Nat
    BY <1>3
  <1>5. rewards' \in Balances
    <2>1. rewards' = [rewards EXCEPT ![a] = [rewards[a] EXCEPT ![t] = rewards[a][t] - q]]
      BY DEF Withdraw
    <2>2. [rewards[a] EXCEPT ![t] = rewards[a][t] - q] \in [Tokens -> Nat]
      BY <1>3, <1>4
    <2> QED BY <1>2, <2>1, <2>2 DEF Balances
  <1>6. wallet' \in Balances
    <2>1. CanPay(Dex, a, t, q) /\ wallet' = Pay(wallet, Dex, a, t, q)
      BY DEF Withdraw
    <2>2. Dex \in Accounts
      BY DEF Accounts
    <2> QED BY <1>2, <1>4, <2>1, <2>2, PayType DEF CanPay
  <1>7. /\ config' \in ConfigType /\ ValidConfig(config)' /\ PairsDiffer'
        /\ IsTable(sympair', 1 .. sympairId', PairType)
        /\ sympairId' \in 0 .. MaxPairs
        /\ IsTable(queue', Users, QueuedType)
        /\ IsTable(orders', 1 .. orderId', OrderType)
        /\ orderId' \in 0 .. MaxOrders /\ deals' \in Seq(DealType)
    BY <1>1 DEF TypeInv, TypeOK, IsTable, ValidConfig, PairsDiffer, admin, books
  <1> QED BY <1>1, <1>5, <1>6, <1>7, IdleTypeInv
-----------------------------------------------------------------------------
(***************************************************************************)
(* The matching loop.                                                      *)
(***************************************************************************)
LEMMA BookType ==
    ASSUME NEW table, NEW n \in Nat, IsTable(table, 1 .. n, OrderType),
           NEW pair, NEW side
    PROVE  /\ Book(table, pair, side) \in SUBSET Nat
           /\ \A i \in Book(table, pair, side) : table[i] \in QueuedType
  BY DEF IsTable, Book, OrderType

LEMMA BeginTypeInv ==
    ASSUME TypeInv, Idle, NEW action \in {"ontransfer", "match"},
           NEW pair \in DOMAIN sympair, NEW limit \in Nat,
           BeginMatching(action, pair, limit, orders'),
           UNCHANGED <<admin, rewards, deals>>,
           IsTable(queue', Users, QueuedType),
           IsTable(orders', 1 .. orderId', OrderType),
           orderId' \in 0 .. MaxOrders, wallet' \in Balances
    PROVE  TypeInv'
  <1>1. /\ phase' = "matching"
        /\ txn' = [action |-> action, pair |-> pair, limit |-> limit,
                   count |-> 0, price |-> 0]
        /\ buyIt' = Load(orders', Book(orders', pair, BUY))
        /\ sellIt' = Load(orders', Book(orders', pair, SELL))
        /\ undo' = [queue |-> queue, orders |-> orders, orderId |-> orderId,
                    rewards |-> rewards, deals |-> deals, wallet |-> wallet]
    BY DEF BeginMatching
  <1>2. orderId' \in Nat
    BY BoundsAssumption
  <1>3. ASSUME NEW side
        PROVE  LET it == Load(orders', Book(orders', pair, side))
               IN  /\ it \in ItType
                   /\ it.id # 0 => it.id \in Book(orders', pair, side)
    <2> DEFINE S == Book(orders', pair, side)
    <2>1. S \in SUBSET Nat /\ \A i \in S : orders'[i] \in QueuedType
      BY <1>2, BookType
    <2> HIDE DEF S
    <2>2. Load(orders', S) \in ItType
      BY <2>1, LoadType
    <2>3. S = {} => Load(orders', S).id = 0
      BY <2>1, LoadType DEF NoIt
    <2>4. S # {} => Load(orders', S).id \in S
      BY <2>1, LoadType
    <2> QED BY <2>2, <2>3, <2>4 DEF S
  <1>4. pair \in Nat
    BY DEF TypeInv, TypeOK, IsTable
  <1>5. txn' \in TxnType /\ txn'.pair = pair
    BY <1>1, <1>4 DEF TxnType
  <1>6. buyIt' \in ItType /\ sellIt' \in ItType
    BY <1>1, <1>3
  <1>7. OnBook(buyIt, BUY)' /\ OnBook(sellIt, SELL)'
    <2>1. buyIt'.id # 0 => buyIt'.id \in Book(orders', pair, BUY)
      BY <1>1, <1>3
    <2>2. sellIt'.id # 0 => sellIt'.id \in Book(orders', pair, SELL)
      BY <1>1, <1>3
    <2> QED BY <1>5, <2>1, <2>2 DEF OnBook, Book
  <1>8. UndoTypeOK'
    BY <1>1 DEF UndoTypeOK, TypeInv, TypeOK, IsTable
  <1>9. /\ config' \in ConfigType /\ ValidConfig(config)' /\ PairsDiffer'
        /\ IsTable(sympair', 1 .. sympairId', PairType)
        /\ sympairId' \in 0 .. MaxPairs /\ sympair' = sympair
        /\ rewards' \in Balances /\ deals' \in Seq(DealType)
    BY DEF TypeInv, TypeOK, IsTable, ValidConfig, PairsDiffer, admin
  <1> QED BY <1>1, <1>5, <1>6, <1>7, <1>8, <1>9 DEF TypeInv, TypeOK

LEMMA OnTransferTypeInv ==
    ASSUME TypeInv, NEW u \in Users, NEW t \in Tokens,
           NEW q \in 1 .. wallet[u][t], OnTransfer(u, t, q)
    PROVE  TypeInv'
  <1> DEFINE order == queue[u]
             id    == NewId(orderId)
  <1>1. wallet \in Balances /\ Dex \in Accounts /\ u \in Accounts /\ u # Dex
    BY AccountsAssumption DEF TypeInv, TypeOK, Accounts
  <1>2. q \in Nat /\ q \in 1 .. MaxAmount /\ wallet[u][t] >= q
    BY <1>1 DEF OnTransfer, CanPay, Balances
  <1>3. wallet' \in Balances
    <2>1. wallet' = Pay(wallet, u, Dex, t, q)
      BY DEF OnTransfer
    <2> QED BY <1>1, <1>2, <2>1, PayType
  <1>4. order \in QueuedType /\ order.frozen = q
    BY DEF OnTransfer, TypeInv, TypeOK, IsTable
  <1>5. order \in OrderType
    BY <1>2, <1>4 DEF OrderType
  <1>6. id = orderId + 1 /\ orderId' = id /\ orderId' \in 0 .. MaxOrders
    BY BoundsAssumption DEF OnTransfer, NewId, TypeInv, TypeOK
  <1>7. IsTable(orders', 1 .. orderId', OrderType)
    <2>1. orders' = Put(orders, id, order)
      BY DEF OnTransfer
    <2>2. IsTable(orders, 1 .. orderId, OrderType) /\ orderId \in Nat
      BY BoundsAssumption DEF TypeInv, TypeOK
    <2>3. 1 .. orderId \subseteq 1 .. orderId' /\ id \in 1 .. orderId'
      BY <1>6, <2>2
    <2> HIDE DEF order, id
    <2>4. IsTable(orders, 1 .. orderId', OrderType)
      BY <2>2, <2>3, WidenTable
    <2> QED BY <1>5, <2>1, <2>3, <2>4, PutTable
  <1>8. IsTable(queue', Users, QueuedType)
    BY DeleteTable DEF OnTransfer, TypeInv, TypeOK
  <1>9. /\ Idle /\ order.pair \in DOMAIN sympair
        /\ UNCHANGED <<admin, rewards, deals>>
        /\ BeginMatching("ontransfer", order.pair, config.max_match_count, orders')
    BY DEF OnTransfer, Tradable
  <1>10. config.max_match_count \in Nat
    BY DEF TypeInv, TypeOK, ConfigType
  <1> HIDE DEF order, id
  <1> QED BY <1>3, <1>6, <1>7, <1>8, <1>9, <1>10, BeginTypeInv

LEMMA MatchTypeInv ==
    ASSUME TypeInv, NEW p \in DOMAIN sympair, NEW n \in MatchCounts, Match(p, n)
    PROVE  TypeInv'
  <1>1. Idle /\ UNCHANGED <<admin, books, money>>
    BY DEF Match
  <1>2. UNCHANGED <<admin, rewards, deals>>
    BY <1>1 DEF money
  <1>3. BeginMatching("match", p, n, orders')
    BY <1>1 DEF Match, books
  <1>4. n \in Nat
    BY InputsAssumption
  <1>5. /\ IsTable(queue', Users, QueuedType)
        /\ IsTable(orders', 1 .. orderId', OrderType)
        /\ orderId' \in 0 .. MaxOrders /\ wallet' \in Balances
    BY <1>1 DEF TypeInv, TypeOK, IsTable, books, money
  <1> QED BY <1>1, <1>2, <1>3, <1>4, <1>5, BeginTypeInv

(* The orders that a round is about, and the amounts of its deal. *)
LEMMA RoundOrders ==
    ASSUME TypeInv, phase = "matching", InLoop
    PROVE  /\ buyIt \in ItType /\ sellIt \in ItType
           /\ buyIt.id \in Book(orders, txn.pair, BUY)
           /\ sellIt.id \in Book(orders, txn.pair, SELL)
           /\ buyIt.id \in DOMAIN orders /\ sellIt.id \in DOMAIN orders
           /\ buyIt.id # sellIt.id
           /\ orders[buyIt.id] \in QueuedType /\ orders[sellIt.id] \in QueuedType
           /\ txn.pair \in DOMAIN sympair /\ sympair[txn.pair] \in PairType
           /\ txn \in TxnType
  <1>1. /\ buyIt \in ItType /\ sellIt \in ItType /\ txn \in TxnType
        /\ buyIt.id \in Book(orders, txn.pair, BUY)
        /\ sellIt.id \in Book(orders, txn.pair, SELL)
        /\ txn.pair \in DOMAIN sympair /\ sympair[txn.pair] \in PairType
    BY DEF TypeInv, TypeOK, OnBook, InLoop, CanMatch, IsTable
  <1>2. orders[buyIt.id].side = BUY /\ orders[sellIt.id].side = SELL /\ BUY # SELL
    BY <1>1 DEF Book, BUY, SELL
  <1>3. \A i \in DOMAIN orders : orders[i] \in QueuedType
    BY DEF TypeInv, TypeOK, IsTable, OrderType
  <1> QED BY <1>1, <1>2, <1>3 DEF Book

LEMMA RoundAmounts ==
    ASSUME TypeInv, phase = "matching", InLoop, RoundPasses(Deal)
    PROVE  /\ Deal \in DealType
           /\ Deal.coin - Deal.sell_fee \in Nat /\ Deal.asset - Deal.buy_fee \in Nat
           /\ Deal.pair = txn.pair /\ Deal.buy = buyIt.id /\ Deal.sell = sellIt.id
           /\ Deal.asset <= FreeAsset(buyIt) /\ Deal.asset <= FreeAsset(sellIt)
           /\ buyIt.matched_coin + Deal.coin <= orders[buyIt.id].frozen
  <1> DEFINE buy   == orders[buyIt.id]
             sell  == orders[sellIt.id]
             freeB == FreeAsset(buyIt)
             freeS == FreeAsset(sellIt)
             price == orders[MakerId].price
             asset == IF freeB < freeS THEN freeB ELSE freeS
             unit  == Unit[sympair[txn.pair].asset]
             coin  == CalcCoin(asset, price, unit)
             bfee  == MatchFee(FeeRatio(buy), asset)
             sfee  == MatchFee(FeeRatio(sell), coin)
             refund == Refund(asset, coin)
  <1>1. Deal = [pair |-> txn.pair, buy |-> buyIt.id, sell |-> sellIt.id,
                price |-> price, asset |-> asset, coin |-> coin,
                buy_fee |-> bfee, sell_fee |-> sfee, refund |-> refund]
    BY DEF Deal
  <1>2. /\ buyIt \in ItType /\ sellIt \in ItType
        /\ buy \in QueuedType /\ sell \in QueuedType
        /\ sympair[txn.pair] \in PairType /\ txn \in TxnType
    BY RoundOrders
  <1>3. freeB \in Int /\ freeS \in Int
    BY <1>2 DEF FreeAsset, QueuedType, ItType
  <1>4. freeB > 0 /\ freeS > 0
    BY DEF RoundPasses
  <1>5. price \in 1 .. MaxInt64
    BY <1>2 DEF MakerId, QueuedType
  <1>6. unit \in Nat \ {0}
    BY <1>2, TokensAssumption DEF PairType
  <1>7. FeeRatio(buy) \in 0 .. FeeRatioMax /\ FeeRatio(sell) \in 0 .. FeeRatioMax
    BY <1>2 DEF FeeRatio, QueuedType
  <1> HIDE DEF freeB, freeS, price, unit, buy, sell
  <1>8. asset \in Nat \ {0} /\ asset <= freeB /\ asset <= freeS
    BY <1>3, <1>4
  <1> HIDE DEF asset
  <1>9. price \in Nat
    BY <1>5, MaxInt64Assumption
  <1>10. coin \in Nat
    BY <1>6, <1>8, <1>9, CoinRounds
  <1> HIDE DEF coin
  <1>11. bfee \in Nat /\ bfee < asset
    BY <1>7, <1>8, FeeBelowQuant
  <1>12. sfee \in Nat /\ sfee <= coin
    <2>1. CASE coin = 0
      BY <2>1 DEF MatchFee
    <2>2. CASE coin # 0
      <3>1. sfee \in Nat /\ sfee < coin
        BY <1>7, <1>10, <2>2, FeeBelowQuant
      <3> QED BY <1>10, <3>1
    <2> QED BY <2>1, <2>2
  <1> HIDE DEF bfee, sfee
  <1>13. buyIt.matched_coin + coin <= buy.frozen
    BY <1>1 DEF RoundPasses, buy
  <1>14. refund \in Nat
    <2>1. buy.frozen \in Int /\ buyIt.matched_coin \in Nat
      BY <1>2 DEF QueuedType, ItType
    <2>2. refund = IF asset = freeB THEN buy.frozen - (buyIt.matched_coin + coin) ELSE 0
      BY DEF Refund, freeB, buy
    <2> HIDE DEF refund
    <2> QED BY <1>10, <1>13, <2>1, <2>2
  <1> HIDE DEF refund
  <1>15. txn.pair \in Nat /\ buyIt.id \in Nat /\ sellIt.id \in Nat
    BY <1>2 DEF TxnType, ItType
  <1>16. Deal \in DealType
    BY <1>1, <1>8, <1>9, <1>10, <1>11, <1>12, <1>14, <1>15 DEF DealType
  <1>17. coin - sfee \in Nat /\ asset - bfee \in Nat
    BY <1>8, <1>10, <1>11, <1>12
  <1> QED BY <1>1, <1>8, <1>13, <1>16, <1>17 DEF freeB, freeS, buy

(* The three transfers of a round. *)
LEMMA RoundWalletType ==
    ASSUME TypeInv, phase = "matching", Round
    PROVE  wallet' \in Balances
  <1> DEFINE buyer  == orders[buyIt.id].owner
             seller == orders[sellIt.id].owner
             asset  == sympair[txn.pair].asset
             coin   == sympair[txn.pair].coin
             x == Deal.coin - Deal.sell_fee
             y == Deal.asset - Deal.buy_fee
             z == Deal.refund
             w1 == Pay(wallet, Dex, seller, coin, x)
             w2 == Pay(w1, Dex, buyer, asset, y)
             w3 == Pay(w2, Dex, buyer, coin, z)
  <1>1. InLoop /\ RoundPasses(Deal) /\ wallet' = w3
    BY DEF Round
  <1>2. /\ asset \in Tokens /\ coin \in Tokens /\ asset # coin
        /\ buyer \in Accounts /\ seller \in Accounts /\ Dex \in Accounts
        /\ buyer # Dex /\ seller # Dex
    BY <1>1, RoundOrders, AccountsAssumption
    DEF PairType, QueuedType, Accounts, TypeInv, PairsDiffer
  <1>3. x \in Nat /\ y \in Nat /\ z \in Nat
    BY <1>1, RoundAmounts DEF DealType
  <1>4. wallet[Dex][coin] >= x + z /\ wallet[Dex][asset] >= y
    BY <1>1 DEF RoundPasses
  <1>5. wallet \in Balances
    BY DEF TypeInv, TypeOK
  <1> HIDE DEF buyer, seller, asset, coin, x, y, z
  <1>6. wallet[Dex] \in [Tokens -> Nat]
    BY <1>2, <1>5 DEF Balances
  <1>7. wallet[Dex][coin] >= x /\ wallet[Dex][coin] - x >= z
    BY <1>2, <1>3, <1>4, <1>6
  <1>8. /\ w1 \in Balances
        /\ w1[Dex][coin] = wallet[Dex][coin] - x
        /\ w1[Dex][asset] = wallet[Dex][asset]
    BY <1>2, <1>3, <1>5, <1>7, PayType
  <1> HIDE DEF w1
  <1>9. w2 \in Balances /\ w2[Dex][coin] = w1[Dex][coin]
    BY <1>2, <1>3, <1>4, <1>8, PayType
  <1> HIDE DEF w2
  <1>10. w3 \in Balances
    BY <1>2, <1>3, <1>7, <1>8, <1>9, PayType
  <1> QED BY <1>1, <1>10

(* The row that follows an order in its index is another one. *)
LEMMA NextOfType ==
    ASSUME NEW table, NEW n \in Nat, IsTable(table, 1 .. n, OrderType),
           NEW it, it.id \in DOMAIN table
    PROVE  LET next == NextOf(table, it)
           IN  /\ next \in ItType
               /\ next.id # 0 =>
                    /\ next.id # it.id
                    /\ next.id \in Book(table, table[it.id].pair, table[it.id].side)
                    /\ next.matched_asset = table[next.id].matched_asset
                    /\ next.matched_coin = table[next.id].matched_coin
                    /\ next.matched_fee = table[next.id].matched_fee
                    /\ next.last_deal_id = table[next.id].last_deal_id
  <1> DEFINE B == Book(table, table[it.id].pair, table[it.id].side)
             S == {j \in B : Before(table, it.id, j)}
  <1>1. B \in SUBSET Nat /\ \A i \in B : table[i] \in QueuedType
    BY BookType
  <1>2. S \in SUBSET Nat /\ \A i \in S : table[i] \in QueuedType
    BY <1>1
  <1>3. NextOf(table, it) = Load(table, S)
    BY DEF NextOf
  <1>4. ~Before(table, it.id, it.id)
    <2>1. table[it.id] \in QueuedType /\ it.id \in Nat
      BY DEF IsTable, OrderType
    <2>2. table[it.id].price \in Int /\ MaxUint64 \in Int
      BY <2>1, BoundsAssumption DEF QueuedType
    <2>3. PriceKey(table[it.id]) \in Int
      BY <2>2 DEF PriceKey
    <2>4. \A k \in Int : ~(k < k)
      OBVIOUS
    <2> QED BY <2>1, <2>3, <2>4 DEF Before
  <1>5. it.id \notin S /\ S \subseteq B
    BY <1>4
  <1> HIDE DEF S, B
  <1>6. Load(table, S) \in ItType /\ (S = {} => Load(table, S).id = 0)
    BY <1>2, LoadType DEF NoIt
  <1>7. S # {} => LET i == Load(table, S).id
                  IN  /\ i \in S
                      /\ Load(table, S).matched_asset = table[i].matched_asset
                      /\ Load(table, S).matched_coin = table[i].matched_coin
                      /\ Load(table, S).matched_fee = table[i].matched_fee
                      /\ Load(table, S).last_deal_id = table[i].last_deal_id
    BY <1>2, LoadType
  <1> QED BY <1>3, <1>5, <1>6, <1>7 DEF B

LEMMA ItRecord ==
    ASSUME NEW a \in Nat, NEW b \in Nat, NEW c \in Nat, NEW d \in Nat, NEW e \in Nat
    PROVE  LET it == [id |-> a, matched_asset |-> b, matched_coin |-> c,
                      matched_fee |-> d, last_deal_id |-> e]
           IN  /\ it \in ItType
               /\ it.id = a /\ it.matched_asset = b /\ it.matched_coin = c
               /\ it.matched_fee = d /\ it.last_deal_id = e
  BY DEF ItType

LEMMA FilledType ==
    ASSUME NEW it \in ItType, NEW deal \in DealType, NEW fee \in Nat,
           deals \in Seq(DealType)
    PROVE  /\ Filled(it, deal, fee) \in ItType
           /\ Filled(it, deal, fee).id = it.id
           /\ Filled(it, deal, fee).matched_asset = it.matched_asset + deal.asset
           /\ Filled(it, deal, fee).matched_coin = it.matched_coin + deal.coin
           /\ Filled(it, deal, fee).matched_fee = it.matched_fee + fee
           /\ Filled(it, deal, fee).last_deal_id = Len(deals) + 1
  <1> DEFINE b == it.matched_asset + deal.asset
             c == it.matched_coin + deal.coin
             d == it.matched_fee + fee
             e == Len(deals) + 1
  <1>1. /\ deal.asset \in Nat /\ deal.coin \in Nat /\ Len(deals) \in Nat
    BY DEF DealType
  <1>2. /\ it.id \in Nat /\ it.matched_asset \in Nat /\ it.matched_coin \in Nat
        /\ it.matched_fee \in Nat
    BY DEF ItType
  <1>3. b \in Nat /\ c \in Nat /\ d \in Nat /\ e \in Nat
    <2>1. 1 \in Nat /\ \A p, q \in Nat : p + q \in Nat
      OBVIOUS
    <2> QED BY <1>1, <1>2, <2>1, Zenon
  <1>4. Filled(it, deal, fee) =
          [id |-> it.id, matched_asset |-> b, matched_coin |-> c,
           matched_fee |-> d, last_deal_id |-> e]
    BY Zenon DEF Filled
  <1> HIDE DEF b, c, d, e
  <1>5. /\ Filled(it, deal, fee) \in ItType
        /\ Filled(it, deal, fee).id = it.id
        /\ Filled(it, deal, fee).matched_asset = b
        /\ Filled(it, deal, fee).matched_coin = c
        /\ Filled(it, deal, fee).matched_fee = d
        /\ Filled(it, deal, fee).last_deal_id = e
    BY <1>2, <1>3, <1>4, ItRecord
  <1> QED BY <1>5, Zenon DEF b, c, d, e

(* Where the iterators are after a round: on an order that it has left in  *)
(* the book, with the fill of the row or with that of the round.           *)
LEMMA RoundIterators ==
    ASSUME TypeInv, phase = "matching", Round
    PROVE  LET newBuy  == Filled(buyIt, Deal, Deal.buy_fee)
               newSell == Filled(sellIt, Deal, Deal.sell_fee)
           IN  /\ buyIt' \in ItType /\ sellIt' \in ItType
               /\ orders' = Restrict(orders, DOMAIN orders \
                     {i \in {buyIt.id, sellIt.id} :
                        Completed(IF i = buyIt.id THEN newBuy ELSE newSell)})
               /\ IF Completed(newBuy) THEN buyIt' = NextOf(orders, buyIt)
                                       ELSE buyIt' = newBuy
               /\ IF Completed(newSell) THEN sellIt' = NextOf(orders, sellIt)
                                        ELSE sellIt' = newSell
               /\ OnBook(buyIt, BUY)' /\ OnBook(sellIt, SELL)'
  <1> DEFINE newBuy  == Filled(buyIt, Deal, Deal.buy_fee)
             newSell == Filled(sellIt, Deal, Deal.sell_fee)
             gone == {i \in {buyIt.id, sellIt.id} :
                        Completed(IF i = buyIt.id THEN newBuy ELSE newSell)}
  <1>1. /\ InLoop /\ RoundPasses(Deal)
        /\ orders' = Restrict(orders, DOMAIN orders \ gone)
        /\ buyIt' = IF Completed(newBuy) THEN NextOf(orders, buyIt) ELSE newBuy
        /\ sellIt' = IF Completed(newSell) THEN NextOf(orders, sellIt) ELSE newSell
        /\ txn' = [txn EXCEPT !.count = @ + 1, !.price = Deal.price]
    BY DEF Round
  <1>2. /\ buyIt \in ItType /\ sellIt \in ItType /\ buyIt.id # sellIt.id
        /\ buyIt.id \in Book(orders, txn.pair, BUY)
        /\ sellIt.id \in Book(orders, txn.pair, SELL)
        /\ txn \in TxnType
    BY <1>1, RoundOrders
  <1>3. IsTable(orders, 1 .. orderId, OrderType) /\ orderId \in Nat /\ deals \in Seq(DealType)
    BY BoundsAssumption DEF TypeInv, TypeOK
  <1>4. /\ newBuy \in ItType /\ newBuy.id = buyIt.id
        /\ newSell \in ItType /\ newSell.id = sellIt.id
    <2>1. Deal \in DealType
      BY <1>1, RoundAmounts
    <2>2. Deal.buy_fee \in Nat /\ Deal.sell_fee \in Nat
      BY <2>1 DEF DealType
    <2> HIDE DEF gone
    <2>3. newBuy \in ItType /\ newBuy.id = buyIt.id
      BY <1>2, <1>3, <2>1, <2>2, FilledType
    <2>4. newSell \in ItType /\ newSell.id = sellIt.id
      BY <1>2, <1>3, <2>1, <2>2, FilledType
    <2> QED BY <2>3, <2>4
  <1> DEFINE nextBuy  == NextOf(orders, buyIt)
             nextSell == NextOf(orders, sellIt)
  <1>5. /\ nextBuy \in ItType
        /\ nextBuy.id # 0 => /\ nextBuy.id # buyIt.id
                             /\ nextBuy.id \in Book(orders, txn.pair, BUY)
    BY <1>2, <1>3, NextOfType DEF Book
  <1>6. /\ nextSell \in ItType
        /\ nextSell.id # 0 => /\ nextSell.id # sellIt.id
                              /\ nextSell.id \in Book(orders, txn.pair, SELL)
    BY <1>2, <1>3, NextOfType DEF Book
  <1>7. Book(orders, txn.pair, BUY) \cap Book(orders, txn.pair, SELL) = {}
    BY DEF Book, BUY, SELL
  <1>8. txn'.pair = txn.pair
    BY <1>1, <1>2 DEF TxnType
  <1>9. \A side : Book(orders, txn.pair, side) \ gone = Book(orders', txn.pair, side)
    BY <1>1 DEF Book, Restrict
  <1>10. buyIt.id \in gone <=> Completed(newBuy)
    OBVIOUS
  <1>11. sellIt.id \in gone <=> Completed(newSell)
    BY <1>2
  <1> HIDE DEF newBuy, newSell, nextBuy, nextSell
  <1>12. OnBook(buyIt, BUY)'
    <2>1. CASE Completed(newBuy)
      <3>1. buyIt' = nextBuy
        BY <1>1, <2>1 DEF newBuy, nextBuy
      <3>2. buyIt'.id # 0 => buyIt'.id \in Book(orders', txn.pair, BUY)
        BY <1>2, <1>5, <1>7, <1>9, <3>1
      <3> QED BY <1>8, <3>2 DEF OnBook, Book
    <2>2. CASE ~Completed(newBuy)
      <3>1. buyIt' = newBuy
        BY <1>1, <2>2 DEF newBuy
      <3>2. buyIt'.id \in Book(orders', txn.pair, BUY)
        BY <1>2, <1>4, <1>9, <1>10, <2>2, <3>1
      <3> QED BY <1>8, <3>2 DEF OnBook, Book
    <2> QED BY <2>1, <2>2
  <1>13. OnBook(sellIt, SELL)'
    <2>1. CASE Completed(newSell)
      <3>1. sellIt' = nextSell
        BY <1>1, <2>1 DEF newSell, nextSell
      <3>2. sellIt'.id # 0 => sellIt'.id \in Book(orders', txn.pair, SELL)
        BY <1>2, <1>6, <1>7, <1>9, <3>1
      <3> QED BY <1>8, <3>2 DEF OnBook, Book
    <2>2. CASE ~Completed(newSell)
      <3>1. sellIt' = newSell
        BY <1>1, <2>2 DEF newSell
      <3>2. sellIt'.id \in Book(orders', txn.pair, SELL)
        BY <1>2, <1>4, <1>9, <1>11, <2>2, <3>1
      <3> QED BY <1>8, <3>2 DEF OnBook, Book
    <2> QED BY <2>1, <2>2
  <1>14. buyIt' \in ItType /\ sellIt' \in ItType
    BY <1>1, <1>4, <1>5, <1>6 DEF newBuy, newSell, nextBuy, nextSell
  <1> QED BY <1>1, <1>12, <1>13, <1>14 DEF newBuy, newSell

LEMMA RoundTypeInv ==
    ASSUME TypeInv, phase = "matching", Round
    PROVE  TypeInv'
  <1>1. InLoop /\ RoundPasses(Deal) /\ UNCHANGED <<admin, queue, orderId, phase, undo>>
    BY DEF Round
  <1>2. /\ txn.pair \in DOMAIN sympair /\ txn \in TxnType
        /\ sympair[txn.pair].asset \in Tokens /\ sympair[txn.pair].coin \in Tokens
        /\ orders[buyIt.id].owner \in Users /\ orders[sellIt.id].owner \in Users
    BY <1>1, RoundOrders DEF PairType, QueuedType
  <1>3. /\ Deal \in DealType
        /\ Deal.price \in Nat /\ Deal.buy_fee \in Nat /\ Deal.sell_fee \in Nat
    BY <1>1, RoundAmounts DEF DealType
  <1>4. rewards' \in Balances
    <2> DEFINE b == FeeShares(orders[buyIt.id].owner, Deal.buy_fee)
               s == FeeShares(orders[sellIt.id].owner, Deal.sell_fee)
    <2>1. rewards' = Credit(Credit(rewards, sympair[txn.pair].asset, b),
                            sympair[txn.pair].coin, s)
      BY DEF Round
    <2>2. rewards \in Balances /\ config \in ConfigType
      BY DEF TypeInv, TypeOK
    <2>3. b \in [Accounts -> Nat] /\ s \in [Accounts -> Nat]
      BY <1>2, <1>3, <2>2, FeeSharesType
    <2> HIDE DEF b, s
    <2>4. Credit(rewards, sympair[txn.pair].asset, b) \in Balances
      BY <1>2, <2>2, <2>3, CreditType
    <2> QED BY <1>2, <2>1, <2>3, <2>4, CreditType
  <1>5. wallet' \in Balances
    BY RoundWalletType
  <1>6. deals' \in Seq(DealType)
    <2>1. deals' = Append(deals, Deal) /\ deals \in Seq(DealType)
      BY DEF Round, TypeInv, TypeOK
    <2> QED BY <1>3, <2>1
  <1>7. /\ buyIt' \in ItType /\ sellIt' \in ItType
        /\ OnBook(buyIt, BUY)' /\ OnBook(sellIt, SELL)'
    BY RoundIterators
  <1>8. IsTable(orders', 1 .. orderId', OrderType)
    <2>1. IsTable(orders, 1 .. orderId, OrderType) /\ orderId' = orderId
      BY <1>1 DEF TypeInv, TypeOK
    <2>2. \E gone : orders' = Restrict(orders, DOMAIN orders \ gone)
      BY RoundIterators
    <2> QED BY <2>1, <2>2 DEF IsTable, Restrict
  <1>9. txn' \in TxnType /\ txn'.pair = txn.pair
    <2>1. txn' = [txn EXCEPT !.count = @ + 1, !.price = Deal.price]
      BY DEF Round
    <2>2. txn.count + 1 \in Nat
      BY <1>2 DEF TxnType
    <2> QED BY <1>2, <1>3, <2>1, <2>2 DEF TxnType
  <1>10. UndoTypeOK'
    BY <1>1 DEF UndoTypeOK, TypeInv, TypeOK
  <1>11. /\ config' \in ConfigType /\ ValidConfig(config)' /\ PairsDiffer'
         /\ IsTable(sympair', 1 .. sympairId', PairType)
         /\ sympairId' \in 0 .. MaxPairs /\ sympair' = sympair
         /\ IsTable(queue', Users, QueuedType)
         /\ orderId' \in 0 .. MaxOrders /\ phase' = "matching"
    BY <1>1 DEF TypeInv, TypeOK, IsTable, ValidConfig, PairsDiffer, admin
  <1> QED BY <1>2, <1>4, <1>5, <1>6, <1>7, <1>8, <1>9, <1>10, <1>11
          DEF TypeInv, TypeOK

(* Between transactions the locals are those of no transaction. *)
LEMMA EndTypeInv ==
    ASSUME TypeInv, EndTransaction, UNCHANGED <<config, sympairId>>,
           IsTable(sympair', 1 .. sympairId', PairType), PairsDiffer',
           IsTable(queue', Users, QueuedType),
           IsTable(orders', 1 .. orderId', OrderType),
           orderId' \in 0 .. MaxOrders,
           rewards' \in Balances, deals' \in Seq(DealType), wallet' \in Balances
    PROVE  TypeInv'
  <1>1. phase' = "idle" /\ txn' \in TxnType /\ buyIt' \in ItType /\ sellIt' \in ItType
    BY DEF EndTransaction, NoTxn, NoIt, TxnType, ItType
  <1>2. /\ config' \in ConfigType /\ ValidConfig(config)'
        /\ sympairId' \in 0 .. MaxPairs
    BY DEF TypeInv, TypeOK, ValidConfig
  <1> QED BY <1>1, <1>2 DEF TypeInv, TypeOK

(* PutTable, for the order tables. *)
LEMMA PutInOrders ==
    ASSUME NEW table, NEW n \in Nat, IsTable(table, 1 .. n, OrderType),
           NEW key \in 1 .. n, NEW row \in OrderType
    PROVE  /\ IsTable(Put(table, key, row), 1 .. n, OrderType)
           /\ DOMAIN Put(table, key, row) = DOMAIN table \cup {key}
  BY DEF IsTable, Put

LEMMA SaveType ==
    ASSUME NEW table, NEW n \in Nat, IsTable(table, 1 .. n, OrderType),
           NEW it \in ItType, it.id # 0 => it.id \in DOMAIN table
    PROVE  /\ IsTable(Save(table, it), 1 .. n, OrderType)
           /\ DOMAIN Save(table, it) = DOMAIN table
           /\ \A i \in DOMAIN table : i # it.id => Save(table, it)[i] = table[i]
           /\ it.id # 0 =>
                LET row == Save(table, it)[it.id]
                IN  /\ row.matched_asset = it.matched_asset
                    /\ row.matched_coin = it.matched_coin
                    /\ row.matched_fee = it.matched_fee
                    /\ row.last_deal_id = it.last_deal_id
                    /\ row.pair = table[it.id].pair /\ row.side = table[it.id].side
                    /\ row.token = table[it.id].token
                    /\ row.total = table[it.id].total
                    /\ row.price = table[it.id].price
                    /\ row.frozen = table[it.id].frozen
                    /\ row.owner = table[it.id].owner
  <1>1. CASE it.id = 0
    <2>1. 0 \notin DOMAIN table
      BY DEF IsTable
    <2> QED BY <1>1, <2>1 DEF Save
  <1>2. CASE it.id # 0
    <2> DEFINE r0 == table[it.id]
               r1 == [r0 EXCEPT !.matched_asset = it.matched_asset]
               r2 == [r1 EXCEPT !.matched_coin = it.matched_coin]
               r3 == [r2 EXCEPT !.matched_fee = it.matched_fee]
               r4 == [r3 EXCEPT !.last_deal_id = it.last_deal_id]
               row == [table[it.id] EXCEPT !.matched_asset = it.matched_asset,
                                           !.matched_coin  = it.matched_coin,
                                           !.matched_fee   = it.matched_fee,
                                           !.last_deal_id  = it.last_deal_id]
    <2>1. it.id \in DOMAIN table /\ it.id \in 1 .. n /\ r0 \in QueuedType
          /\ r0.frozen \in 1 .. MaxAmount
      BY <1>2 DEF IsTable, OrderType
    <2>2. /\ it.matched_asset \in Nat /\ it.matched_coin \in Nat
          /\ it.matched_fee \in Nat /\ it.last_deal_id \in Nat
      BY DEF ItType
    <2>3. Save(table, it) = Put(table, it.id, row)
      BY <1>2 DEF Save
    <2>4. row = r4
      BY <2>1 DEF QueuedType
    <2> HIDE DEF row
    <2>5. r1 \in QueuedType /\ r1.matched_asset = it.matched_asset
          /\ r1.pair = r0.pair /\ r1.side = r0.side /\ r1.token = r0.token
          /\ r1.total = r0.total /\ r1.frozen = r0.frozen
          /\ r1.price = r0.price /\ r1.owner = r0.owner
      BY <2>1, <2>2 DEF QueuedType
    <2> HIDE DEF r1, r0
    <2>6. r2 \in QueuedType /\ r2.matched_asset = r1.matched_asset
          /\ r2.matched_coin = it.matched_coin
          /\ r2.pair = r1.pair /\ r2.side = r1.side /\ r2.token = r1.token
          /\ r2.total = r1.total /\ r2.frozen = r1.frozen
          /\ r2.price = r1.price /\ r2.owner = r1.owner
      BY <2>2, <2>5 DEF QueuedType
    <2> HIDE DEF r2
    <2>7. r3 \in QueuedType /\ r3.matched_asset = r2.matched_asset
          /\ r3.matched_coin = r2.matched_coin
          /\ r3.pair = r2.pair /\ r3.side = r2.side /\ r3.token = r2.token
          /\ r3.total = r2.total /\ r3.frozen = r2.frozen
          /\ r3.price = r2.price /\ r3.owner = r2.owner
          /\ r3.matched_fee = it.matched_fee
      BY <2>2, <2>6 DEF QueuedType
    <2> HIDE DEF r3
    <2>8. r4 \in QueuedType /\ r4.matched_asset = r3.matched_asset
          /\ r4.matched_coin = r3.matched_coin
          /\ r4.pair = r3.pair /\ r4.side = r3.side /\ r4.token = r3.token
          /\ r4.total = r3.total /\ r4.frozen = r3.frozen
          /\ r4.price = r3.price /\ r4.owner = r3.owner
          /\ r4.matched_fee = r3.matched_fee /\ r4.last_deal_id = it.last_deal_id
      BY <2>2, <2>7 DEF QueuedType
    <2> HIDE DEF r4
    <2>9. r4 \in OrderType
      BY <2>1, <2>5, <2>6, <2>7, <2>8 DEF OrderType
    <2>10. /\ IsTable(Save(table, it), 1 .. n, OrderType)
           /\ DOMAIN Save(table, it) = DOMAIN table
      <3>1. Save(table, it) = Put(table, it.id, r4)
        BY <2>3, <2>4
      <3>2. /\ IsTable(Put(table, it.id, r4), 1 .. n, OrderType)
            /\ DOMAIN Put(table, it.id, r4) = DOMAIN table \cup {it.id}
        BY <2>1, <2>9, PutInOrders
      <3> QED BY <2>1, <3>1, <3>2
    <2>11. /\ \A i \in DOMAIN table : i # it.id => Save(table, it)[i] = table[i]
           /\ Save(table, it)[it.id] = r4
      BY <2>1, <2>3, <2>4 DEF Put
    <2> QED BY <2>5, <2>6, <2>7, <2>8, <2>10, <2>11 DEF r0
  <1> QED BY <1>1, <1>2

(* The two iterators save different rows. *)
LEMMA FinishOrders ==
    ASSUME TypeInv, phase = "matching", Finish
    PROVE  /\ IsTable(orders', 1 .. orderId, OrderType)
           /\ DOMAIN orders' = DOMAIN orders
           /\ \A i \in DOMAIN orders :
                /\ orders'[i].pair = orders[i].pair /\ orders'[i].side = orders[i].side
                /\ orders'[i].token = orders[i].token
                /\ orders'[i].total = orders[i].total
                /\ orders'[i].price = orders[i].price
                /\ orders'[i].frozen = orders[i].frozen
                /\ orders'[i].owner = orders[i].owner
                /\ orders'[i].matched_asset = Fill(i).matched_asset
                /\ orders'[i].matched_coin = Fill(i).matched_coin
                /\ orders'[i].matched_fee = Fill(i).matched_fee
                /\ orders'[i].last_deal_id = Fill(i).last_deal_id
  <1> DEFINE t1 == Save(orders, buyIt)
             t2 == Save(t1, sellIt)
  <1>1. /\ IsTable(orders, 1 .. orderId, OrderType) /\ orderId \in Nat
        /\ buyIt \in ItType /\ sellIt \in ItType
    BY BoundsAssumption DEF TypeInv, TypeOK
  <1>2. /\ buyIt.id # 0 => buyIt.id \in Book(orders, txn.pair, BUY)
        /\ sellIt.id # 0 => sellIt.id \in Book(orders, txn.pair, SELL)
    BY DEF TypeInv, TypeOK, OnBook
  <1>3. buyIt.id # 0 /\ sellIt.id # 0 => buyIt.id # sellIt.id
    BY <1>2 DEF Book, BUY, SELL
  <1>4. 0 \notin DOMAIN orders
    BY <1>1 DEF IsTable
  <1>5. /\ IsTable(t1, 1 .. orderId, OrderType) /\ DOMAIN t1 = DOMAIN orders
        /\ \A i \in DOMAIN orders : i # buyIt.id => t1[i] = orders[i]
        /\ buyIt.id # 0 =>
              /\ t1[buyIt.id].matched_asset = buyIt.matched_asset
              /\ t1[buyIt.id].matched_coin = buyIt.matched_coin
              /\ t1[buyIt.id].matched_fee = buyIt.matched_fee
              /\ t1[buyIt.id].last_deal_id = buyIt.last_deal_id
              /\ t1[buyIt.id].pair = orders[buyIt.id].pair
              /\ t1[buyIt.id].side = orders[buyIt.id].side
              /\ t1[buyIt.id].token = orders[buyIt.id].token
              /\ t1[buyIt.id].total = orders[buyIt.id].total
              /\ t1[buyIt.id].price = orders[buyIt.id].price
              /\ t1[buyIt.id].frozen = orders[buyIt.id].frozen
              /\ t1[buyIt.id].owner = orders[buyIt.id].owner
    <2>1. buyIt.id # 0 => buyIt.id \in DOMAIN orders
      BY <1>2 DEF Book
    <2> QED BY <1>1, <2>1, SaveType
  <1> HIDE DEF t1
  <1>6. /\ IsTable(t2, 1 .. orderId, OrderType) /\ DOMAIN t2 = DOMAIN t1
        /\ \A i \in DOMAIN t1 : i # sellIt.id => t2[i] = t1[i]
        /\ sellIt.id # 0 =>
              /\ t2[sellIt.id].matched_asset = sellIt.matched_asset
              /\ t2[sellIt.id].matched_coin = sellIt.matched_coin
              /\ t2[sellIt.id].matched_fee = sellIt.matched_fee
              /\ t2[sellIt.id].last_deal_id = sellIt.last_deal_id
              /\ t2[sellIt.id].pair = t1[sellIt.id].pair
              /\ t2[sellIt.id].side = t1[sellIt.id].side
              /\ t2[sellIt.id].token = t1[sellIt.id].token
              /\ t2[sellIt.id].total = t1[sellIt.id].total
              /\ t2[sellIt.id].price = t1[sellIt.id].price
              /\ t2[sellIt.id].frozen = t1[sellIt.id].frozen
              /\ t2[sellIt.id].owner = t1[sellIt.id].owner
    <2>1. sellIt.id # 0 => sellIt.id \in DOMAIN t1
      BY <1>2, <1>5 DEF Book
    <2> QED BY <1>1, <1>5, <2>1, SaveType
  <1>7. orders' = t2
    BY DEF Finish, t1
  <1> HIDE DEF t2
  <1>8. ASSUME NEW i \in DOMAIN orders
        PROVE  /\ orders'[i].pair = orders[i].pair /\ orders'[i].side = orders[i].side
               /\ orders'[i].token = orders[i].token
               /\ orders'[i].total = orders[i].total
               /\ orders'[i].price = orders[i].price
               /\ orders'[i].frozen = orders[i].frozen
               /\ orders'[i].owner = orders[i].owner
               /\ orders'[i].matched_asset = Fill(i).matched_asset
               /\ orders'[i].matched_coin = Fill(i).matched_coin
               /\ orders'[i].matched_fee = Fill(i).matched_fee
               /\ orders'[i].last_deal_id = Fill(i).last_deal_id
    <2>1. i # 0
      BY <1>4
    <2>2. CASE i = buyIt.id
      <3>1. i # sellIt.id /\ Fill(i) = buyIt
        BY <1>3, <2>1, <2>2 DEF Fill
      <3> QED BY <1>5, <1>6, <1>7, <2>1, <2>2, <3>1
    <2>3. CASE i # buyIt.id /\ i = sellIt.id
      <3>1. Fill(i) = sellIt
        BY <2>3 DEF Fill
      <3> QED BY <1>5, <1>6, <1>7, <2>1, <2>3, <3>1
    <2>4. CASE i # buyIt.id /\ i # sellIt.id
      <3>1. Fill(i) = orders[i]
        BY <2>4 DEF Fill
      <3> QED BY <1>5, <1>6, <1>7, <2>4, <3>1
    <2> QED BY <2>2, <2>3, <2>4
  <1> QED BY <1>5, <1>6, <1>7, <1>8

LEMMA FinishTypeInv ==
    ASSUME TypeInv, phase = "matching", Finish
    PROVE  TypeInv'
  <1>1. /\ EndTransaction /\ UNCHANGED <<config, sympairId, queue, orderId, money>>
        /\ sympair' = UpdateLatestDealPrice(txn.pair, txn.price)
    BY DEF Finish
  <1>2. IsTable(orders', 1 .. orderId', OrderType)
    BY <1>1, FinishOrders
  <1>3. IsTable(sympair', 1 .. sympairId', PairType) /\ PairsDiffer'
    <2>1. IsTable(sympair, 1 .. sympairId, PairType) /\ PairsDiffer
          /\ txn.pair \in DOMAIN sympair /\ txn.price \in Nat /\ sympairId' = sympairId
      BY <1>1 DEF TypeInv, TypeOK, TxnType
    <2>2. CASE sympair' = sympair
      BY <2>1, <2>2 DEF IsTable, PairsDiffer
    <2>3. CASE sympair' = [sympair EXCEPT ![txn.pair].latest = txn.price]
      <3>1. sympair[txn.pair] \in PairType
        BY <2>1 DEF IsTable
      <3>2. [sympair[txn.pair] EXCEPT !.latest = txn.price] \in PairType
        BY <2>1, <3>1 DEF PairType
      <3>3. /\ DOMAIN sympair' = DOMAIN sympair
            /\ \A q \in DOMAIN sympair : sympair'[q] =
                  IF q = txn.pair THEN [sympair[txn.pair] EXCEPT !.latest = txn.price]
                  ELSE sympair[q]
        BY <2>3
      <3>4. \A q \in DOMAIN sympair :
              sympair'[q].asset = sympair[q].asset /\ sympair'[q].coin = sympair[q].coin
        BY <3>1, <3>3 DEF PairType
      <3> QED BY <2>1, <3>2, <3>3, <3>4 DEF IsTable, PairsDiffer
    <2> QED BY <1>1, <2>2, <2>3 DEF UpdateLatestDealPrice
  <1>4. /\ IsTable(queue', Users, QueuedType) /\ orderId' \in 0 .. MaxOrders
        /\ rewards' \in Balances /\ deals' \in Seq(DealType) /\ wallet' \in Balances
    BY <1>1 DEF TypeInv, TypeOK, IsTable, money
  <1> QED BY <1>1, <1>2, <1>3, <1>4, EndTypeInv

LEMMA AbortTypeInv ==
    ASSUME TypeInv, phase = "matching", Abort
    PROVE  TypeInv'
  <1>1. EndTransaction /\ UNCHANGED admin
    BY DEF Abort
  <1>2. /\ IsTable(queue', Users, QueuedType)
        /\ IsTable(orders', 1 .. orderId', OrderType)
        /\ orderId' \in 0 .. MaxOrders
        /\ rewards' \in Balances /\ deals' \in Seq(DealType) /\ wallet' \in Balances
    BY DEF Abort, TypeInv, TypeOK, UndoTypeOK
  <1>3. /\ UNCHANGED <<config, sympairId>> /\ PairsDiffer'
        /\ IsTable(sympair', 1 .. sympairId', PairType)
    BY <1>1 DEF TypeInv, TypeOK, IsTable, PairsDiffer, admin
  <1> QED BY <1>1, <1>2, <1>3, EndTypeInv

LEMMA NextTypeInv ==
    ASSUME TypeInv, [Next]_vars
    PROVE  TypeInv'
  <1>1. CASE Administer
    BY <1>1, ConfigTypeInv, SetSymPairTypeInv, SwitchTypeInv DEF Administer
  <1>2. CASE Place
    BY <1>2, CreateOrderTypeInv, DelQueueOrdTypeInv, OnTransferTypeInv
    DEF Place, NewOrder, Buy, Sell
  <1>3. CASE MatchAny
    BY <1>3, MatchTypeInv DEF MatchAny
  <1>4. CASE Leave
    BY <1>4, CancelTypeInv, WithdrawTypeInv DEF Leave
  <1>5. CASE Round
    BY <1>5, RoundTypeInv DEF Round
  <1>6. CASE Finish
    BY <1>6, FinishTypeInv DEF Finish
  <1>7. CASE Abort
    BY <1>7, AbortTypeInv DEF Abort
  <1>8. CASE UNCHANGED vars
    BY <1>8, StutterTypeInv
  <1> QED BY <1>1, <1>2, <1>3, <1>4, <1>5, <1>6, <1>7, <1>8 DEF Next

LEMMA TypeInvInvariant == Spec => []TypeInv
  <1>1. Init => TypeInv
    BY InitTypeInv
  <1>2. TypeInv /\ [Next]_vars => TypeInv'
    BY NextTypeInv
  <1> QED BY <1>1, <1>2, PTL DEF Spec

(* The tables keep their types through every transaction, every round of   *)
(* one and every rollback: in particular no balance and no reward becomes  *)
(* negative and no iterator leaves the book of its own side.               *)
THEOREM TypeCorrectness == Spec => []TypeOK
  <1>1. TypeInv => TypeOK
    BY DEF TypeInv
  <1> QED BY <1>1, TypeInvInvariant, PTL
=============================================================================
