----------------------------- MODULE MCOrderBook -----------------------------
(***************************************************************************)
(* Small instances of the order book for TLC.  Unit is ten: the assets     *)
(* have one decimal, so that at a price of 5 one unit of asset costs half  *)
(* a coin and rounding happens at once.  The fee and reward ratios are     *)
(* near their limits, so that fees and rewards of a few units occur.  In   *)
(* the runs with rewards the largest amount lies between twice and thrice  *)
(* the larger reward ratio: the reward of a fee of three overflows.        *)
(***************************************************************************)
EXTENDS OrderBook

CONSTANTS u1, u2, u3,   \* users
          A, B, C       \* tokens; A and B have the same symbol code

MCUsers  == {u1, u2, u3}
MCTokens == {A, C}
AllTokens == {A, B, C}
MCCode == [t \in Tokens |-> IF t = C THEN "coin" ELSE "asset"]
MCUnit == [t \in Tokens |-> 10]
TradeUnit == [t \in Tokens |-> IF t = C THEN 10000 ELSE 10]

(* u1 was created by u2, u2 by the administrator, u3 and the administrator *)
(* by the system account: u1 and u2 pay rewards, u3 does not.              *)
MCCreator ==
    [a \in Accounts \ {Sys} |->
        CASE a = u1 -> u2 [] a = u2 -> Admin [] OTHER -> Sys]

MCFunds == [u \in Users |-> [t \in Tokens |-> 8]]
TradeFunds == [MCFunds EXCEPT ![u3][A] = 75, ![u1][C] = 100]

Req(user, side, total, price) ==
    [user |-> user, pair |-> 1, side |-> side, total |-> total, price |-> price,
     ex |-> NoConfigEx]

Conf(limit) ==
    [enabled |-> TRUE, admin |-> Admin, collector |-> Admin,
     maker |-> 4000, taker |-> 4999, max_match_count |-> limit,
     admin_sign_required |-> FALSE, parent_reward |-> 5000, grand_reward |-> 4000]

LimitOne == Conf(1)
LimitTwo == Conf(2)

(* Crossing and resting orders of every size, a sell order whose coins     *)
(* would overflow at its own price, a buy order that is refused for that,  *)
(* one with a total that is no amount, cheap enough where C is the asset,  *)
(* and an order that is refused for its fee ratio.                         *)
TradeRequests ==
    {Req(u1, BUY, 4, 15), Req(u1, BUY, 3, 5),
     Req(u1, BUY, 7, 7500), Req(u1, SELL, 100, 50),
     Req(u2, SELL, 4, 5), Req(u2, SELL, 4, 7500), Req(u3, SELL, 1, 5),
     Req(u3, BUY, 15000, 50),
     [Req(u3, SELL, 1, 5) EXCEPT !.ex = [taker |-> 5000, maker |-> 0]]}

(* Sell orders for several buy orders: a match limit of one leaves a rest. *)
BacklogRequests ==
    {Req(u1, BUY, 2, 20), Req(u1, BUY, 1, 10), Req(u2, SELL, 3, 10)}

(* Orders of every kind of side, one with its own fee ratios, on two pairs.*)
AdminRequests ==
    {Req(u1, BUY, 2, 15), Req(u1, UNKNOWN, 1, 5), Req(u2, NONE, 1, 5),
     [Req(u2, SELL, 1, 15) EXCEPT !.ex = [taker |-> 10, maker |-> 0]],
     [Req(u1, SELL, 2, 5) EXCEPT !.pair = 2]}

(* Orders need the administrator's signature, and u2 collects the fees.    *)
CosignedConfig ==
    [LimitTwo EXCEPT !.admin_sign_required = TRUE, !.collector = u2,
                     !.parent_reward = 0]

AdminConfigs == {InitConfig, [LimitTwo EXCEPT !.enabled = FALSE]}

(* Two sales of one unit at half a coin against one purchase of two.       *)
HalfCoinRequests ==
    {Req(u1, BUY, 2, 5), Req(u1, BUY, 3, 5), Req(u1, BUY, -1, 5),
     Req(u2, SELL, 1, 5)}

DisabledConfig == {[DefaultConfig EXCEPT !.enabled = FALSE]}

(* The hypotheses of the proofs hold here.                                 *)
ASSUME FitSettingAssumption == FitSetting
ASSUME WholePricesAssumption ==
    Requests = BacklogRequests => WholePrices /\ SmallAmounts
=============================================================================
