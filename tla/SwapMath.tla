------------------------------ MODULE SwapMath -------------------------------
(***************************************************************************)
(* evolutiondex::compute: what a user pays for x at the rate y/z, or, when *)
(* x is negative, minus what he gets for -x; with the fee.                 *)
(***************************************************************************)
EXTENDS Integers

CONSTANT
    MaxAmount           \* asset::max_amount, and MAX of the contract

ASSUME MaxAmountAssumption == MaxAmount \in Nat \ {0}

FeeBase == 10000

(* Fault: the rate is rounded in favour of the user. *)
RateRoundedDown(x, y, z) == (x * y) \div z

(* The quotient of C++ truncates: in the second case towards zero, so that *)
(* both are rounded upwards, in favour of the pool.                        *)
Rate(x, y, z) ==
    IF x > 0 THEN 1 + (x * y - 1) \div z ELSE -((-x * y) \div z)

FeeOn(rate, fee) ==
    ((IF rate > 0 THEN rate ELSE -rate) * fee + FeeBase - 1) \div FeeBase

(* The checks of compute, and that of the asset made of its result.  The   *)
(* cast of the result to an int64 comes between them and loses nothing, as *)
(* the fee is at most FeeBase and the sum at most twice MAX.               *)
Computable(x, y, z, fee) ==
    /\ x # 0 /\ y > 0 /\ z > 0
    /\ Rate(x, y, z) \in -MaxAmount .. MaxAmount
    /\ Rate(x, y, z) + FeeOn(Rate(x, y, z), fee) <= MaxAmount

Compute(x, y, z, fee) == Rate(x, y, z) + FeeOn(Rate(x, y, z), fee)
=============================================================================
