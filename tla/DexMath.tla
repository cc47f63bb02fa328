------------------------------- MODULE DexMath -------------------------------
(***************************************************************************)
(* The fixed-point arithmetic of the order book contract: utils.hpp and    *)
(* the free functions at the top of dex_match.hpp.  Amounts are integers   *)
(* in the smallest unit of their token; a price is an amount of coin for   *)
(* one whole unit of asset, so an amount of coin is a product divided by   *)
(* ten to the asset's precision (`unit' below) and rounded.                *)
(***************************************************************************)
EXTENDS Integers

CONSTANT
    MaxInt64            \* std::numeric_limits<int64_t>::max()

ASSUME MaxInt64Assumption == MaxInt64 \in Nat

(* asset::max_amount, 2^62 - 1: where an operation on assets fails.        *)
MaxAmount == MaxInt64 \div 2

RatioPrecision == 10000
FeeRatioMax    == 4999

(* The integer division of C++, which truncates towards zero. *)
Quotient(a, b) == IF a >= 0 THEN a \div b ELSE -((-a) \div b)

(* The intermediate `tmp' of multiply_decimal: the product with one more   *)
(* decimal digit.  It is tmp, not the result, that must fit an int64.      *)
Scaled(a, b, precision) == Quotient(10 * a * b, precision)

Fits(a, b, precision) == Scaled(a, b, precision) \in (-MaxInt64 - 1) .. MaxInt64

(* Faults: the result is truncated; it is rounded up; the last digit of    *)
(* tmp is taken for a digit of the result.                                 *)
TruncatedProduct(a, b, precision) == Quotient(Scaled(a, b, precision), 10)
RaisedProduct(a, b, precision)    == Quotient(Scaled(a, b, precision) + 9, 10)
UnscaledProduct(a, b, precision)  == Scaled(a, b, precision)

MultiplyDecimal(a, b, precision) == Quotient(Scaled(a, b, precision) + 5, 10)

(* calc_coin_quant: the coins that `asset' units cost at `price'. *)
CalcCoin(asset, price, unit) == MultiplyDecimal(asset, price, unit)

(* calc_match_fee: the fee on a fill of `quant'. *)
MatchFee(ratio, quant) ==
    IF quant = 0 THEN 0 ELSE MultiplyDecimal(quant, ratio, RatioPrecision)

(* A reward: a share of a fee, asset::operator* then operator/.  The       *)
(* product must be an amount.                                              *)
RewardFits(fee, ratio) == fee * ratio <= MaxAmount

RewardShare(fee, ratio) == Quotient(fee * ratio, RatioPrecision)

ValidFeeRatio(ratio) == ratio \in 0 .. FeeRatioMax
=============================================================================
