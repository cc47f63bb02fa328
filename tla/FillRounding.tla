---------------------------- MODULE FillRounding -----------------------------
(***************************************************************************)
(* What the rounding of dex_match.hpp does to an order that is filled in   *)
(* several rounds at its own price: matching_order_iterator::match adds up *)
(* the coins of the fills, each rounded by calc_coin_quant, while the      *)
(* coins frozen for the order are those of its total, rounded once.        *)
(***************************************************************************)
EXTENDS DexMath

CONSTANTS
    Prices,             \* prices of an order, in coin units per whole asset
    Units,              \* powers of ten, by the precision of the asset
    Totals,             \* amounts of an order
    Ratios              \* fee ratios

ASSUME RoundingAssumption ==
    /\ Prices \subseteq Nat \ {0}
    /\ Units \subseteq Nat \ {0}
    /\ Totals \subseteq Nat \ {0}
    /\ Ratios \subseteq 0 .. FeeRatioMax

VARIABLES
    order,              \* the terms of the order
    filled,             \* matched_asset_quant
    cost,               \* matched_coin_quant
    fills               \* the number of rounds

vars == <<order, filled, cost, fills>>

Init ==
    /\ order \in [price : Prices, unit : Units, total : Totals]
    /\ filled = 0 /\ cost = 0 /\ fills = 0

Fill(quant) ==
    /\ filled + quant <= order.total
    /\ filled' = filled + quant
    /\ cost' = cost + CalcCoin(quant, order.price, order.unit)
    /\ fills' = fills + 1
    /\ UNCHANGED order

Next == \E quant \in 1 .. order.total - filled : Fill(quant)

Spec == Init /\ [][Next]_vars
-----------------------------------------------------------------------------
TypeOK ==
    /\ order \in [price : Prices, unit : Units, total : Totals]
    /\ filled \in 0 .. order.total
    /\ cost \in Nat
    /\ fills \in 0 .. filled

(* calc_coin_quant rounds the exact quotient to the nearest integer, and a *)
(* half upwards, in spite of the two divisions that it takes.              *)
CoinIsNearest ==
    LET coin == CalcCoin(filled, order.price, order.unit)
    IN  /\ 2 * order.unit * coin <= 2 * filled * order.price + order.unit
        /\ 2 * filled * order.price + order.unit < 2 * order.unit * (coin + 1)

(* The coins of n fills differ from their exact price by at most n halves: *)
(* they may exceed what was frozen, but by no more than half a unit for    *)
(* every fill and one for the freezing.                                    *)
CostDriftBounded ==
    /\ 2 * order.unit * cost <= 2 * filled * order.price + fills * order.unit
    /\ 2 * filled * order.price <= 2 * order.unit * cost + fills * order.unit

(* At a price of whole coins for the smallest unit of asset nothing drifts:*)
(* however an order is filled, its coins are those of one fill, and never  *)
(* exceed the frozen ones.                                                 *)
WholePricesAreExact ==
    order.price % order.unit = 0 =>
        /\ cost = filled * (order.price \div order.unit)
        /\ cost <= CalcCoin(order.total, order.price, order.unit)

(* The fee on a fill leaves something of it, whatever the ratio: the check *)
(* of calc_match_fee never fails for the ratios that setconfig accepts.    *)
FeeLeavesSomething ==
    \A r \in Ratios : cost > 0 => MatchFee(r, cost) < cost
=============================================================================
