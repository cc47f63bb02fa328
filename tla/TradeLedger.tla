----------------------------- MODULE TradeLedger -----------------------------
(***************************************************************************)
(* What the users of the order book are promised of their money: it is at  *)
(* their own disposal or in their open orders, and a transaction happens   *)
(* as a whole or not at all.  A transaction may take the payment for one   *)
(* new order and let orders trade with each other, or give an order back   *)
(* to its owner.  Nobody else's money decreases, an order that does not    *)
(* trade keeps what it holds, and no token is made or lost.                *)
(***************************************************************************)
EXTENDS Integers, Sequences, Functions, FiniteSets

CONSTANTS
    Accounts, Tokens,
    Ids                 \* the ids of orders

VARIABLES
    free,               \* account -> token -> what the account can dispose of
    open,               \* order id -> its owner, and what of a token it holds
    trades              \* the trades so far; each names two orders

vars == <<free, open, trades>>

(* What there is of a token, in accounts and orders. *)
Total(cash, book, t) ==
    SumFunctionOnSet([a \in Accounts |-> cash[a][t]], Accounts)
      + SumFunctionOnSet([i \in DOMAIN book |->
                             IF book[i].token = t THEN book[i].amount ELSE 0],
                         DOMAIN book)

IsNew(i) ==
    /\ i \notin DOMAIN open
    /\ \A n \in DOMAIN trades : i \notin {trades[n].buy, trades[n].sell}

(* The trades of this transaction, and the orders that they name. *)
NewTrades == Len(trades) + 1 .. Len(trades')

Traded == UNION {{trades'[n].buy, trades'[n].sell} : n \in NewTrades}

(* What an order gives in them: coins when it buys, assets when it sells. *)
Given(i) ==
    SumFunctionOnSet([n \in NewTrades |->
                         (IF trades'[n].buy = i THEN trades'[n].coin ELSE 0)
                       + (IF trades'[n].sell = i THEN trades'[n].asset ELSE 0)],
                     NewTrades)

(* Trades between the orders of `book', when the accounts have `cash': an  *)
(* order that trades gives what its trades say, and may leave; every other *)
(* one stays as it is.  Nobody's money decreases, and none is lost.        *)
Settle(cash, book) ==
    LET now  == open'
        paid == free'
    IN  /\ DOMAIN book \ Traded \subseteq DOMAIN now
        /\ Traded \cup DOMAIN now \subseteq DOMAIN book
        /\ \A n \in DOMAIN trades : n \in DOMAIN trades' /\ trades'[n] = trades[n]
        /\ \A i \in DOMAIN now :
              /\ now[i] = [book[i] EXCEPT !.amount = @ - Given(i)]
              /\ now[i].amount >= 0
        /\ \A a \in Accounts, t \in Tokens : paid[a][t] >= cash[a][t]
        /\ \A t \in Tokens : Total(paid, now, t) = Total(cash, book, t)
-----------------------------------------------------------------------------
Trade == trades' # trades /\ Settle(free, open)

Place(i) ==
    /\ i \in DOMAIN open' \cup Traded
    /\ IsNew(i)
    /\ \E a \in Accounts, t \in Tokens : \E amount \in 1 .. free[a][t] :
          Settle([free EXCEPT ![a][t] = @ - amount],
                 [k \in DOMAIN open \cup {i} |->
                     IF k = i THEN [owner |-> a, token |-> t, amount |-> amount]
                              ELSE open[k]])

Cancel(i) ==
    LET o == open[i]
    IN  /\ open' = [k \in DOMAIN open \ {i} |-> open[k]]
        /\ free' = [free EXCEPT ![o.owner][o.token] = @ + o.amount]
        /\ UNCHANGED trades

Init ==
    /\ free \in [Accounts -> [Tokens -> Nat]]
    /\ open = [i \in {} |-> 0]
    /\ trades = <<>>

Next ==
    \/ Trade
    \/ \E i \in DOMAIN open : Cancel(i)
    \/ \E i \in Ids : Place(i)

Spec == Init /\ [][Next]_vars
=============================================================================
