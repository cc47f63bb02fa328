# Verification of dex.contracts

TLA+ models of the exchange contracts in this repository, TLC configurations
that check them on small instances, and proofs of their most important
properties for every instance, checked by TLAPS. Source paths are relative to
the repository's `src/`.

## 1. The system

The repository holds two exchanges for an EOSIO chain. They share no state and
do not call each other.

| Part | Source | State it keeps | Operations | Talks to |
|---|---|---|---|---|
| Order book contract | `contracts/orderbookdex/src/dex.cpp`, `include/dex_match.hpp`, `include/dex_states.hpp` | singletons `config` and `global` (the last ids), tables `sympair`, `queue`, one table of orders per pair and side with an index by price, `deals`, `rewards` | `init`, `setconfig`, `setsympair`, `onoffsympair`, `delsympair`, `neworder`, `buy`, `sell`, `delqueueord`, `match`, `cancel`, `withdraw`, the notification `ontransfer` | token contracts: is notified of payments, sends inline transfers; reads the creator of an account from the chain |
| Its arithmetic | `include/utils.hpp`, `include/dex_const.hpp`, `include/dex_match.hpp` 21-60 | none | `multiply_decimal`, `calc_coin_quant`, `calc_match_fee` | |
| Swap contract | `contracts/swapdex/evolutiondex.cpp`, `token_functions.cpp` | pools with their two reserves, supply, fee and fee contract; deposits per user; balances of pool tokens; an index of pools | `openext`, `closeext`, `withdraw`, `addliquidity`, `remliquidity`, `exchange`, `inittoken`, `indexpair`, `changefee`, `transfer`, `open`, `close`, the notification `ontransfer` | token contracts; notifies the fee contract |
| Fee voting | `contracts/swapdex/wevotethefee/` | the vote of a user per pool, the sum of the votes per pool and fee | `votefee`, `closevote`, `openfeetable`, `closefeetable`, `updatefee`, three notifications | reads pool token balances of the swap contract; sends it `changefee` |
| Surroundings | tests, `scripts/`, build files, `safe.hpp` | none | | |

### How the order book works

A user *queues* an order: one row per user in `queue`, with the amount it will
freeze. He *pays* for it with a token transfer of exactly this amount; the
notification moves the row from the queue into the table of its pair and side,
under a new order id, and runs `match_sympair`. Its loop has an iterator on the
best buy order and one on the best sell order. Every round makes a deal at the
price of the order with the smaller id (the maker): fees, transfers to both
owners, a row in `deals`; an order that is completed is erased, the refund of a
buy order is paid, and its iterator moves on. What a round adds to an order that
is *not* completed stays in the iterator's cache and is written to the row only
after the loop. The loop stops after `max_match_count` rounds, so that a crossed
book may be left behind; anyone may ask for more with `match`.

### What is hard about it

* All actions are atomic, so the interleavings that matter are those of the
  *rounds* of one transaction with the state they have not written yet, and
  those of whole transactions in an order nobody thought of: a pair delisted
  while orders are queued for it, a fee ratio changed between queueing and
  payment, a match limit that leaves half filled orders for a later transaction.
* Failure is roll-back: a check in a late round undoes the booking, the payment
  and all deals of the transaction.
* Amounts are rounded three times and in different ways: the frozen coins once,
  the coins of each fill, the fee, the shares of the fee.
* Nothing in the contract compares its token balance with what it owes. If a
  fill, a fee share, a refund or a cancellation were off by one unit, the last
  user to leave would find the till empty.

In the swap contract:

* Three ways lead tokens in and out (deposits, withdrawals, exchanges by memo),
  pool tokens are deposited and may be reserves of other pools, and again nothing
  compares what the contract holds with what it owes.
* `compute` rounds twice. What a pool token is worth must survive every order of
  exchanges, purchases and sales of liquidity, and fee changes, down to reserves
  of a few units.

Between the swap contract and the fee contract:

* Nobody counts the votes: the fee contract keeps sums, and changes them by what
  it is told. Every way in which pool tokens move must tell it, and every vote
  that is changed or closed must take back exactly what has been added to it
  since, under a table that may have been closed and opened in between.
* The fee contract is notified inside the transfer. If it fails, the transfer
  fails: pool tokens can be locked up by a table that is missing.
* The new fee is computed in the notification, and written by an inline action
  afterwards.

`PROJECT.json` lists each of these hazards at its line with the properties that
cover it.

### What makes each part correct

* Order book: solvency; row = sum of its deals; limits respected; price-time
  priority; a transaction either uses up its limit or uncrosses the book; an
  order leaves the book only settled; value moves by deals alone; a listed pair
  does not inherit rows of a delisted one; a crossed book is eventually matched;
  an order gets its limit price over all of its fills; matching fails for no
  other reason than amounts that are too small or too large; seen from the users, a transaction happens as a
  whole or not at all.
* Arithmetic: round to nearest, bounded drift over many fills, no overflow.
* Swap contract: it holds exactly deposits and reserves; the value of a pool
  token never falls; the balances of a pool token add up to its supply; a share
  can always be sold; a pair has one pool in the index (not in the
  table of pools: one that is older than the index may get a twin as long as
  it is not indexed); seen from the users, only
  its owner gives a token away, and every step is with one pool, at a price its
  reserves allow.
* Fee voting: votes per fee are the sum of the voters' balances; a voter can
  always give away what he holds; the fee of a pool only changes to the median of
  the ballots that stand, weighed by the balances of that moment.

## 2. The modules

| Module | What it is |
|---|---|
| `DexMath` | The arithmetic, as operators: `Scaled`, `MultiplyDecimal`, `CalcCoin`, `MatchFee`, `RewardShare`, `Fits` (the int64 intermediate), `MaxAmount` (the range of an `asset`, half of an int64), truncating division. |
| `FillRounding` | An order filled in several rounds at its own price, to relate the sum of the rounded fills to what was frozen. |
| `OrderBook` | The contract: 13 variables, one action per contract action, the matching loop step by step, properties. |
| `TradeLedger` | The abstract specification of the order book: what users can dispose of, what their open orders hold, and trades that settle as a whole. |
| `SwapMath` | `compute` of the swap contract: rate, fee, and the checks. |
| `PoolMarket` | The abstract specification of the swap contract: what users own, wherever they keep it, and pools that are exchanged with, bought into, sold out of and founded at fair prices. |
| `EvoDex` | The swap contract: 4 variables, one action per contract action, properties; the refinement of `PoolMarket`. |
| `FeeElection` | The abstract specification of the fee: ballots and shares, and a fee that is elected. |
| `WeVoteTheFee` | The fee contract composed with `EvoDex`: 3 more variables, each action of the swap contract together with its notification, the voters' actions, the inline action; the refinement of `FeeElection`. |
| `MCFillRounding`, `MCOrderBook`, `MCEvoDex`, `MCWeVote` | Values of the constants for TLC. |
| `SumTheory` | What the fold over a finite set computes: the sum of a table, when one row changes, comes or goes. |
| `DexMathLemmas`, `FillRoundingProofs`, `OrderBookProofs`, `OrderBookSafety`, `OrderBookPromises`, `EvoDexProofs`, `WeVoteProofs` | Lemmas, theorems and proofs (section 5). |

`OrderBook` and `FillRounding` extend `DexMath`, `EvoDex` extends `SwapMath`,
`OrderBook` instantiates `TradeLedger` and `EvoDex` `PoolMarket`, `WeVoteTheFee`
extends `EvoDex` and instantiates `FeeElection`; each proof module extends the
module it is about. An operator whose comment starts with "Fault" is a plausible
bug, defined next to the operator it would replace and used by no action:
`PROJECT.json` lists for every property a fault that breaks it.

### OrderBook and the code

| Model | Code |
|---|---|
| `config`, `sympair`, `sympairId`, `queue`, `rewards` | the singletons and tables of those names; `sympairId` and `orderId` are the fields of `global` |
| `orders` | all order tables together; scope and index are `Book(orders, pair, side)` and the order `Before`, by `PriceKey` (`get_price`), then by id |
| `deals` | the `deals` table; its id is the position |
| `wallet` | external: the balances at the token contracts, as far as the dex can see them: a transfer needs a valid, positive amount, two parties and cover (`CanPay`) |
| `phase`, `txn`, `buyIt`, `sellIt` | a running `match_sympair`: its arguments and locals, and both `matching_order_iterator`s with their caches |
| `undo` | what the chain restores when a check fails |
| `InitDex` ... `DelSymPair` | the administrator's actions |
| `NewOrder`, `Buy`, `Sell` | `new_order` and its three entry points; `signers` are the accounts that authorised the transaction |
| `OnTransfer`, `Match` | up to and including the head of `match_sympair` |
| `Round` | one iteration of its loop, with the checks of the iterators, `calc_match_fee`, `_allot_fee`, transfers, `complete_and_next` |
| `RoundPasses` | all that can fail in it: the checks of the contract, those of the operations on `asset`s (the free amounts, `FillFits`, `AllotPasses`), and those of the transfers |
| `Finish` | its tail: both caches saved, latest price, and the check of `match` that something was matched |
| `Abort` | any check of the loop fails (`~RoundPasses`), or `match` matched nothing: everything is rolled back |
| `Cancel`, `Withdraw`, `DelQueueOrd` | the actions of those names; a transfer of zero is refused by the bank and rolls `cancel` back |

An action whose checks fail at once changes nothing, and is not a step. The
steps of a transaction are visible to the invariants, which therefore hold
between the rounds, with the caches in the place of the rows (`Fill`, `Held`).

The users see none of these steps: they see the tables between transactions.
`Ledger` is the refinement mapping that says so. While the loop runs it shows
what `undo` holds, so that `OnTransfer`, `Match`, `Round` and `Abort` are
stutters of `TradeLedger` and `Finish` is its whole step: `Place` for a payment
(the new order is paid for, booked, and trades), `Trade` for a call of `match`.
`Cancel` is the action of that name, and `withdraw` a stutter, since rewards
count as being at their owner's disposal (`Free`). An open order is its owner,
its token and what it still holds (`Open`, by `Remainder`). The ledger says what
an order gives in its trades, that a completed one leaves nothing behind, that
no account has less and that other orders keep what they hold; it leaves open
how much of what an order gives is its counterparty's, a refund or a fee.

Abstractions: an amount is an integer in the smallest unit of its token; an
extended symbol is a model value with a symbol code and a unit; names are model
values. Order types, memos, timestamps, external ids, block times, the balance
log, the notifications to users and the payer of RAM are left out: no table of
the contract depends on them. `order_side` is checked nowhere in `new_order`, so
the model has orders of the empty side (`NONE`, booked in a table of its own and
never matched) and of an unknown one (whose payment fails).

External, and taken from how the contract uses them: the token contracts (`Pay`,
`CanPay`) and `get_account_creator` (`Creator`).

### EvoDex and the code

| Model | Code |
|---|---|
| `stat` | the `stat` table: supply, `pool1` and `pool2` as one function from the two tokens, fee |
| `evodexacnts` | the deposits; a row exists from `openext` to `closeext` |
| `accounts` | the balances of pool tokens; for a token of another contract, external, its balances there |
| `evoindex` | the index; `make256key` is the same for both orders of a pair, so the entry is the set of the two |
| `OpenExt`, `CloseExt`, `Deposit`, `Withdraw` | `openext`, `closeext`, `ontransfer` with the default or the "deposit to:" memo, `withdraw`, each with its token transfer |
| `AddLiquidity`, `RemLiquidity` | the actions, both by `AddSignedLiq` |
| `Exchange`, `MemoExchange` | `exchange`, in both directions, and the "exchange:" memo of `ontransfer`, both by `process_exch` (`CanExchange`, `Out`, `PoolAfter`) |
| `InitToken`, `IndexPair`, `ChangeFee` | `inittoken` (with both signatures), `indexpair`, `changefee` |
| `Transfer`, `Open`, `Close` | the token functions; a transfer of pool tokens to the contract is `Deposit` or `MemoExchange`, because it calls `ontransfer` |

Every action is a whole transaction with its inline transfers. Memos appear as
what they say. Left out: precisions of symbols, payers of RAM, `max_supply`. By
itself `EvoDex` knows nothing of votes: `ChangeFee` may happen at any time, with
any of `Fees`. In `WeVoteTheFee` it happens only when the fee contract sends it.
The square root of `inittoken` is exact, as it is for the small products of the
runs. What is assumed of other token contracts is that a transfer needs cover
and that no token has more units than an `asset` can say (`max_supply`).

The users see none of the four tables as such. `Market` is the refinement mapping
to what they see: the wealth of a user in a token is his balance and his deposit
together (`Owned`), a pool is its supply and its reserves (`PoolsOf`), without the
fee. `Deposit`, `Withdraw`, `CloseExt` and `Transfer` are a `Give` of
`PoolMarket`, or a stutter when a user moves his own. `Exchange` and
`MemoExchange` are its `Exchange`, `AddLiquidity` and `RemLiquidity` its
`Provide`, `InitToken` its `Found`; all else is a stutter. That nothing may be
made or lost is part of each of them: what one user gives is in the reserves of
one pool, or in its supply.

### WeVoteTheFee and the code

| Model | Code |
|---|---|
| `feeaccounts` | the `feeaccount` tables of all users: the place in `FEE_VECTOR` each votes for |
| `feetables` | the `feetable` tables: the votes per place of the vector |
| `changefees` | the inline action `changefee` that has been sent in this transaction and not executed yet |
| `OnTransfer`, `OnLiquidity` | `ontransfer`; `onaddliquidity` and `onremliquidity`, all by `AddVotes` (`add_balance`, `addvote`) |
| `NotifiedDepositing` ... `Founding` | the actions of `EvoDex`, each conjoined with the notification it sends, or with `NotConcerned` |
| `OnMemoExchange` | the two notifications of an exchange by memo, when the token paid, the token bought or both are pool tokens |
| `VoteFee`, `CloseVote`, `OpenFeeTable`, `CloseFeeTable`, `UpdateFee` | the actions of those names |
| `IsMedianIndex`, `UpdateFeeBy` | `median`, `updatefee` |
| `RunChangeFee` | the execution of the inline action, `ChangeFee` of the swap contract |

A notification that fails takes the transfer back with it, so its checks
(`CanAddVotes`) are conjuncts of the transfer. `changefee` is sent within a
transaction and executed before the next one begins: `VotingNext` starts a
transaction only when `changefees` is empty, and the step between the two is
visible to the properties. `lower_bound` over the partial sums is the least place
that reaches the half: the partial sums ascend because no votes are negative,
which is a consequence of `VotesAreBalances`. Votes are integers of any size
except in `closefeetable`, whose lambda takes them as `int`: there they are
compared modulo `IntSpan`, which is 2^32 in the code. Every pool has the fee
contract for its fee contract, as `inittoken` demands.

## 3. The runs

All users are model values without symmetry: they have different creators, hence
pay different rewards.

| Run | Question | Bounds |
|---|---|---|
| `rounding` | How far does the sum of the rounded fills drift from the frozen amount, and is each one the nearest integer, in spite of two divisions? | totals to 6, prices to 25, units 1, 10 and 100: below, at and above one coin per unit of asset |
| `trade` | Is every trade right: solvency, rows against deals, limits, overflow, priority, settlement, conservation, prices, reasons to fail? Does the contract implement `TradeLedger`? | 3 users, one pair in either direction, 9 orders to choose from, 3 booked; limit 2 by payment, 1 by `match`; no int64 above 29999 |
| `backlog` | Is what a limit leaves behind taken up correctly by later transactions, is a crossed book eventually matched, and does every round pass where prices are whole and amounts small? | 3 kinds of orders, 4 booked, limit 1 by payment, 1 or 2 by `match`; with fairness |
| `listing` | Do delisting, listing again, switching, and setting the configuration at any moment between an order's steps leave the books sound? | 2 users, 3 tokens (two share a symbol code), 2 pair ids, 2 orders of each kind of side |
| `swap` | Is one pool right down to its last units: custody, shares, value per share, redemption? Does the contract implement `PoolMarket`? | 1 user, reserves 3 and 5, amounts 1, 2 and 4, fees of 0.1 % and 3 %, limits 0 and 3; no amount above 12 |
| `pools` | Do several pools, pool tokens as deposits and reserves, and the index fit together, as one `PoolMarket`? | 2 users, 2 plain and 2 pool tokens, amounts of 1 |
| `voting` | Do the votes follow the balances, is nobody locked up, and is every new fee the elected one? | 2 voters, a pool of 4 units, a second pool with 3 of them for a reserve; fees 7, 12 and 100 asked for; a table for one pool |
| `frozen_check`, `disabled` | Findings: section 4. | 2 or 3 orders |
| `fee_votable`, `stale_fee` | Findings: section 4. | those of `voting` |
| `closed_table` | Finding: section 4. | those of `voting`, with 2 for the width of an `int` |

Why these bounds are enough to meet the interesting cases. The unit of A is ten
and its prices 5, 15, 50 and 7500: with one decimal of asset, half a coin per
unit is the smallest amount where rounding matters, and totals of one to four
already show rounding down, up, and to zero. Fee ratios are near their maximum
(4000 and 4999 of 10000), reward ratios 5000 and 4000, so that fees of one to
three units and rewards of one occur and are split unevenly; the creators include
one chain of two generations and one that ends at the system account. Three
booked orders allow one order to be filled by two others within a transaction and
across two, an iterator to move while the other stays, a roll-back of a booking,
and a maker on either side.

The widths are scaled down together, in their order: the largest int64 is 29999,
the largest amount (`MaxAmount`) half of it as in the code, 14999, which lies
between two and three times the larger reward ratio, so that the reward of a fee
of three overflows, the buyer's (`Req(u1, BUY, 7, 7500)`) as well as the seller's.
A sale of 4 at 7500 could not pass the check of a purchase and is
accepted. The pair may be listed the other way round, with C as the asset, whose
unit is 10000: there a purchase of 15000, which is no amount, costs 75 and is
booked, and every round with it fails. Of the seven causes of
`OnlyAmountsFail`, TLC meets five, each as the only one of some state: coins of
nothing, coins above the frozen ones, such a total, and the rewards of
either side. The other two, the fee of an asset amount above a fifth of an int64
and the coins that a sale has gathered, take more units than the instance has;
that no eighth cause exists is proved for all of them.
`MaxUint64` (60000) is above `MaxInt64` as in the code; ids stay far below it.
The prices of `backlog`, 10 and 20, are whole coins for one unit of asset, and
its amounts are within `SmallAmounts`, both of which TLC evaluates as well
(`WholePricesAssumption`).

In `swap`, reserves of 3 to 12 units make every rounding visible (the exact
value of a share is met to the unit), a large exchange takes a reserve down to
one unit, and sums reach `MaxAmount`. `pools` begins with a pool that is older
than the index, so that `indexpair` and `inittoken` compete for its pair; the
second pool may be made of the same pair, or of a token and the first pool
token, which is then deposited, exchanged and withdrawn. `ExtRows` bounds which
deposits are opened and closed, `Amounts` which amounts of each token are
moved. `swap` has one user, so that gifts between users are in `pools` alone. The
tables the runs start from are ones the contract reaches: custody holds in them,
and the product of the reserves is at least the square of the supply.

In `voting`, pool tokens of the voters move in every way the swap contract has:
transfers between voters, deposits of them and withdrawals to the other,
liquidity bought and sold, and an exchange by memo of one pool token out of the
reserve of another pool. Of the fees asked for, 7 is refused, 12 is rounded
upwards to 15, and 100 is the largest. `IntSpan` is 8, above all the votes of
this instance: with as many votes as `IntSpan` a table is closed over them, as in
the code with 2^32, and what `voting` says would be false; that is the run
`closed_table`, and the theorems about votes have the hypothesis `[]VotesFit`.
`VotersAreFree` follows from `VotesAreBalances`; it is stated for what it means
to a voter. `Elections` bounds which pools get a table. The fee
`votefee` computes changes with every vote, so that 2 voters with up to 4 units
meet medians below, at and between their votes, and no votes at all.

`MaxOrders` and `MaxPairs` cap the ids and are the only bounds in guards of
`OrderBook`; the amounts are bounded by `Funds`. `EvoDex` has none but
`MaxAmount`, which the code has too (`asset::max_amount`).

Deadlock is not checked: users are free to stop, and the bounded ids end every
behaviour.

Fairness. Only `backlog` states it (`MatcherSpec`), for `CrossedIsMatched`; its
safety properties do not depend on it. `WF` of `Round`, `Finish` and `Abort`: a
transaction that the chain has begun is executed to its end. `SF` of `Match` for
every listed pair: somebody keeps calling it. It is the documented duty of an
operator's script, not of the contract, and it is strong because the action is
disabled while another transaction is executing. The property gives up when the
exchange or the pair is switched off, or the pair is delisted.

## 4. Findings

Each is a run that must find a counterexample.

* `frozen_check`: `dex_match.hpp:129` checks that the matched coins of a buy
  order stay within its frozen coins. They do not always: the coins of each fill
  are rounded on their own. An order for 2 units at half a coin freezes 1 coin,
  and two fills of 1 unit cost 1 coin each. The check then fails in the middle
  of matching and rolls the whole transaction back, also the booking of the
  innocent order that triggered it. `CostDriftBounded` says how far it can go,
  `OnlyAmountsFail` that it is one of seven ways to fail, and `RoundsPass`
  that it does not happen at whole prices.
* `disabled`: `dex_states.hpp:104` says that a disabled exchange disables all
  operations of users; `delqueueord` does not ask.
* `fee_votable`: `wevotethefee/README.md` says that the possible fees are 10 to
  100 (in units of 0.01 %). `median` looks for the first partial sum that reaches
  half of the votes, rounded down: with a single unit of votes that is zero, and
  the first fee of the vector, 1, is set.
* `stale_fee`: `wevotethefee.contracts.md` says that it is always unnecessary to
  run `updatefee`, and the README that the fee is updated whenever a voter's
  balance is modified. `ontransfer` updates it only if the receiver votes.
  `FeesAreElected` says what is still true: when a fee changes, it changes to the
  median of that moment.
* `closed_table`: `wevotethefee.contracts.md` says that `closefeetable` fails if
  the table stores a vote. It looks at 64-bit votes through `const int &`, that
  is at their lower 32 bits: a table is closed over a multiple of 2^32 votes. The
  run scales this width down to 2, since no instance of TLC has 2^32 units.

Not a run of its own, but causes in `OnlyAmountsFail`: a round whose coins round to
zero, which `dex.cpp:273` lets pass as dust and the seller's payment of zero then
rolls back; a purchase with a total above 2^62 - 1, which `new_order` accepts; and
a deal so large that the product of its fee and a reward ratio overflows. Each
blocks the book at the order it concerns until that order is cancelled.

Not a run of its own, but named in `Cancellable`: a booked buy order of which the
fills have used up all coins cannot be cancelled, because the transfer of zero is
refused, and after `frozen_check` it cannot be filled either. And a voter without
pool tokens cannot receive any while the table of his pool is closed; anyone may
open it again.

## 5. The theorems

They hold for all values of the constants that satisfy the assumptions of the
modules: for the order book `AccountsAssumption` ... `BoundsAssumption`,
`RoundingAssumption`, `MaxInt64Assumption`, hence any number of users, tokens and
orders and any precision; for the swap contract `NamesAssumption` (finitely many
users and pool tokens), `InputsAssumption`, `StartAssumption` and
`IndexAssumption` (the tables it starts from, which may be empty, are sound);
for the fee contract `VotingAssumption` (it starts without votes, every pool has
the default fee). `ContractIsSolvent` and what rests on it
(`OrdersCanBeCancelled`, `FailuresAreAmounts`, `WholePricesPass` and
`LedgerIsKept`) have the hypothesis `FitSetting` besides: there are finitely many
users, and the two reward ratios of a configuration are not more than 100 %
together. `setconfig`
does not check the second part, so it is no assumption of the module; TLC
evaluates it for the configurations of the runs (`FitSettingAssumption`).
`WholePricesPass` is about the instances with `WholePrices` and `SmallAmounts`:
nobody asks for a price that is not a multiple of the unit of every token, and no
total times a price (of any two orders) times a reward ratio is beyond
the range of an amount. Without the second part the theorem is false of the code:
large fees and totals fail a round at any price.

* `DexMathLemmas`: signs and bounds of the truncating division, of
  `MultiplyDecimal` and of fees; `FitsMonotone`, that a smaller amount at a
  smaller price fits when a larger one does; `FeeFits` and `CoinIsSmall`, below
  which amounts nothing overflows; `CoinIsExact`, that nothing is rounded at
  whole prices; `SmallProduct`, that a product which is small in coins is small
  in assets.
* `FillRoundingProofs`: the type invariant and all four properties of the run
  `rounding`. The drift is proved by induction over the fills: every step adds
  an error of at most half a unit.
* `OrderBookProofs`: `TypeCorrectness`, `Spec => []TypeOK`. `TypeOK` is
  inductive together with `PairsDiffer` (asset and coin of a pair are different
  tokens): a round pays coin and then asset, and only for different tokens do
  the two checks of cover imply that no balance becomes negative. One lemma per
  action; `NextOfType` and `FinishOrders` carry the iterators through a round
  and their caches into the rows.
* `OrderBookSafety`, on top of it, the safety properties of the contract's tables.
  None of them is inductive alone. Each has an invariant of its own, with one
  lemma per action, and nearly all of these invariants say the same of `undo`,
  since a roll-back may bring the old tables back after any round:
  * `OrdersWithinLimits`, `Spec => []WithinLimits`. The strengthening `LimitInv`
    adds what a queued order must satisfy to become a booked one (nothing
    matched yet, a positive total, a sell order frozen as a whole).
  * `RowsNameTheirTokens`, `Spec => []RowsFitListing`. `ListingInv` adds that
    every pair id in any row is at most `sympairId`, so that a new id is in no
    row.
  * `CoinsNeverOverflow`, `Spec => []CoinsFit`: a sell order is accepted without
    the overflow check of a buy order, but the price of a deal is never above
    the buyer's, nor its amount above his total, whose product was checked.
    `ListingInv` therefore remembers of every buy order that it fits.
  * `FillsFollowDeals`, `Spec => []FillsAreDeals`, by `DealsInv`: queued rows are
    blank, and deals name only ids that are given already, so that a new order
    starts without deals. `OrdersLeaveSettled` follows for the steps in which an
    order leaves.
  * `LatestPriceIsLast`, `Spec => []LatestPrice`, by `PriceInv`: within a loop the
    row still has the price from before it, and `txn.price` is that of the last
    deal if there was one.
  * `BestOrdersMatch` and `MatchesToTheEnd`, by `LoopInv`: each iterator is on the
    first order of its index, no other order of the book comes before it, and the
    rounds counted are the deals that the roll-back would take back. That the loop
    stops only at its limit or uncrossed then needs only the two best orders.
  * `ContractIsSolvent`, `Spec => []Solvent`, by `SolventInv`. `Solvent` is a sum
    over all orders and all users; a round changes one row on each side, several
    balances and up to three rewards, and a fee must be split into exactly its
    parts (`SharesFit`). It rests on `LimitInv` and `ListingInv`: that
    asset and coin of a deal are the tokens which its two orders froze, and that
    a refund is what an order has left.
  * `OrdersCanBeCancelled`, `Spec => []Cancellable`: what one order has left is a
    part of the sum in `Solvent`, whose other parts are not negative by
    `WithinLimits`.
  * `ValueMovesInDeals`, `Spec => OnlyDealsMoveValue`, by `ValueInv`: as long as a
    transaction has made no deal, everybody owns what the roll-back would give
    him. The rows of the queue belong to the users they are filed under.

* `OrderBookPromises`, on top of `OrderBookSafety`:
  * `FailuresAreAmounts`, `Spec => []OnlyAmountsFail`. It needs no invariant of
    its own: `LimitInv`, `ListingInv` and `SolventInv` together imply that a round
    passes all checks of the loop, those of the operations on `asset`s included,
    but for the seven it names, and that each of its payments is covered
    (`RoundCanPass`; the contract has what the two orders hold by
    `PartIsCovered`, also after the payments before it). What was paid for an
    order was an amount, so the total of a sale is one, that of a purchase need
    not be; a fee is never above what it is taken from (`LimitInv`), so the sums
    of the fees fit where those of the fills do.
  * `WholePricesPass`, `Spec => []RoundsPass` under `WholePrices` and
    `SmallAmounts`, by `WholeInv`: a buy order has frozen exactly what its total
    costs, and the fills so far have cost at most their share at its limit price
    (`Exact`), so that neither of the two checks on coins can fail. That the fee
    fits follows since the coins of the order did when it was queued. The fills of
    a sell order have brought at most what they cost at the highest of the
    prices of their deals, which is one that somebody asked for (`RoundSold`),
    hence an amount; and so are a fee and its rewards (`RoundIsSmall`).
  * `LimitPricesKept`, `Spec => LimitPriceKept`, by `LimitPriceInv`: over all of
    its deals an order pays at most, or gets at least, its limit price, but for
    half a unit a deal. A deal adds to both sides of the inequality
    (`KeptArithmetic`); its price is within the limit because the loop deals only
    between crossed orders, and its coins are within half a unit by `CoinRounds`.
  * `LedgerIsKept`, `Spec => KeepsLedger`, the refinement of `TradeLedger`. The
    invariant `LedgerInv` says how far a transaction has come from where it began
    (`Follows`): what each order that is left has given since is the sum of its
    deals (`Gave`), nobody has less, and there is as much of every token. It
    begins with the tables of `undo`, or with those and the new order, paid for.
    `FinishTrades` turns it into the step of the ledger when the transaction
    commits; `CancelLedger` and `WithdrawLedger` are the other two; every other
    step is a stutter (`NextLedger`). That a completed order leaves no coins
    behind is `Solvent`, before and after: what the contract has is what the
    orders and rewards have, so the ledger's totals are those of the wallets
    (`LedgerTotal`).

* `SumTheory`: `SumUpdate`, `SumRemove`, `SumSame`, `SumPlus`,
  `SumAtLeast`, `SumOfPoint`, `SumWithoutZero`, `TwoParts`. The sums of the
  model are folds, defined by recursion over finite sets. The lemmas are proved
  by taking the least size of a set for which they would fail, since the
  induction theorems of the library cannot be instantiated here.
* `EvoDexProofs`: every property of the runs `swap` and `pools`.
  * About `compute`, for all amounts, reserves and fees: `RateCovers` and
    `ComputeCovers` (who pays, pays at least the exact price; the two roundings
    and the fee are all in favour of the pool), and from them
    `ExchangeKeepsValue`, `LiquidityKeepsValue` and `RedeemingPaysAPart`: what
    `PoolValueGrows` and `Redeemable` say of a single step. They need that a sale
    leaves part of the supply.
  * `TypesHold`, `SharesHold`, `CustodyHolds`: `TypeOK`, `SupplyIsHeld` and
    `Custody` are inductive together (`Inv`, with `PlainFits`) and none of them
    is alone. A sale is refused when it exceeds the balance or leaves no supply;
    that the supply does not become negative, and the reserves stay positive,
    follows only because no balance exceeds the sum of the balances, which is
    the supply. One lemma per action; `TokensMove` and `PoolMoves` carry what
    they have in common.
  * `ValueNeverFalls`: under `Inv`, every step keeps or raises the value of every
    pool, by the lemmas on `compute`.
  * `SharesCanBeSold`: `Inv` implies `Redeemable`. What is paid out fits into the
    deposit because both are in the custody of the contract, and nobody holds
    more of a token than there is.
  * `IndexIsUnique`, by an invariant of its own (`IndexInv`): no action changes
    the pair of a pool.
  * `MarketIsKept`, `Spec => KeepsMarket`, the refinement of `PoolMarket`, from
    `Inv` before and after a step. Balances and deposits are followed row by row
    (`TransferRows`, `BalanceRows`, `ExtRow`); `GiveStep` and `PoolStep` say when
    the sums of the rows are a step between two users, or of one user with one
    pool; one lemma per action shows that it is, at the prices of the lemmas on
    `compute`. `RootBounds` gives the first supply. A pool cannot be founded with
    its own shares for a reserve, because nobody has any (`NoShareBefore`, from
    `SupplyIsHeld` and `Custody`). The mapping leaves out the fee: the prices are
    fair at whatever fee the fee contract sets.
* `WeVoteProofs`: every property of the run `voting`.
  * `StillTheSwapContract`: `VotingSpec => Spec`. What is proved of the swap
    contract alone holds of both contracts together, with no second proof.
  * `VotingTypesHold`, from `Sound`: types, `Inv` of the swap contract, that
    accounts and voters name pools that exist, and that a queued fee is the median
    of its table (`QueuedFees`).
  * `VotesFollowBalances`, `NoVoterIsStuck`: `Counted`, the votes are the sums of
    the balances behind them, is inductive under `Sound`. `BalanceFollowed` shows
    it for one balance, and the lemmas on transfers, liquidity and exchanges are
    chains of it. They hold under the hypothesis `[]VotesFit`, no fee of a pool
    has `IntSpan` (2^32) votes: without it `closefeetable` can drop votes, and a
    proof would be one of a false statement. Only `CloseTableKeeps` uses it.
  * `ContractsElect`: `VotingSpec /\ []VotesFit => FeesAreElected`, the
    refinement of `FeeElection`. `shares` is the balance, `ballots` the votes;
    the tables of votes are not in the mapping. What `RunChangeFee` writes was
    computed from sums per fee; that it is what the ballots elect is an exchange
    of summations (`PartialSumIsWeight`: sums over places of sums over users).

The lemmas of `SumTheory` are about sums, not about the contracts.

Only model-checked: `CrossedIsMatched`, because liveness under fairness is out of
the provers' reach, as is everything with ENABLED; and the five counterexamples of
section 4. Nor is anything proved of what a recursive definition computes beyond
the sums.

## 6. What is not modelled

* In the runs of the swap contract, a pool of pool tokens gets no additional
  liquidity: that takes more tokens than a small instance has.
* `safe.hpp`, which is used nowhere in the matching loop. The amounts of the order
  book are `asset`s, whose arithmetic the chain checks: the checks that can fail
  in a round are conjuncts of `RoundPasses`. The rewards are plain integers; they
  are bounded by what the contract holds of a token (`Solvent`), hence by its
  supply.
* `global.new_auto_inc_id` at 2^64: `NewId` models the wrap-around, the bounds
  keep clear of it.
* Reward ratios above 100 %: `setconfig` accepts them; the configurations of the
  runs do not contain them. With more than 100 % together the rewards of a fee
  exceed it, and `Solvent` is false: it is a promise to administrators who do not,
  and its theorem says so (`FitSetting`).
* `inittoken` takes a root in floating point; the model takes the exact one. Only
  `KeepsMarket` says that a pool begins with the root, rounded down: where a double
  does not hold the product exactly, the code may mint one unit more.
* Scripts, tests and build files.

