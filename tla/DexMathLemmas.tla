---------------------------- MODULE DexMathLemmas ----------------------------
(***************************************************************************)
(* What the arithmetic of DexMath computes, for all natural numbers.       *)
(***************************************************************************)
EXTENDS DexMath, TLAPS

(* The truncating division is the floor on natural numbers. *)
LEMMA QuotientBounds ==
    ASSUME NEW a \in Nat, NEW b \in Nat \ {0}
    PROVE  /\ Quotient(a, b) \in Nat
           /\ b * Quotient(a, b) <= a
           /\ a < b * Quotient(a, b) + b
  <1>1. Quotient(a, b) = a \div b
    BY DEF Quotient
  <1>2. a = b * (a \div b) + (a % b) /\ 0 <= a % b /\ a % b < b
    OBVIOUS
  <1>3. a \div b \in Nat
    OBVIOUS
  <1> QED BY <1>1, <1>2, <1>3

LEMMA QuotientIsInteger ==
    ASSUME NEW a \in Int, NEW b \in Nat \ {0}
    PROVE  Quotient(a, b) \in Int
  <1>1. a \div b \in Int /\ (-a) \div b \in Int
    OBVIOUS
  <1> QED BY <1>1 DEF Quotient

LEMMA CoinIsInteger ==
    ASSUME NEW a \in Int, NEW p \in Int, NEW u \in Nat \ {0}
    PROVE  CalcCoin(a, p, u) \in Int
  <1>1. 10 * a * p \in Int
    OBVIOUS
  <1>2. Scaled(a, p, u) \in Int
    BY <1>1, QuotientIsInteger DEF Scaled
  <1>3. Scaled(a, p, u) + 5 \in Int
    BY <1>2
  <1> QED BY <1>3, QuotientIsInteger DEF CalcCoin, MultiplyDecimal

LEMMA ShareIsNatural ==
    ASSUME NEW fee \in Nat, NEW ratio \in Nat
    PROVE  RewardShare(fee, ratio) \in Nat
  <1>1. fee * ratio \in Nat /\ RatioPrecision \in Nat \ {0}
    BY DEF RatioPrecision
  <1> QED BY <1>1, QuotientBounds DEF RewardShare

LEMMA ExactQuotient ==
    ASSUME NEW a \in Nat, NEW b \in Nat \ {0}, a % b = 0
    PROVE  a \div b \in Nat /\ a = b * (a \div b)
  <1>1. a = b * (a \div b) + (a % b)
    OBVIOUS
  <1>2. a \div b \in Nat
    OBVIOUS
  <1> QED BY <1>1, <1>2

(* calc_coin_quant rounds to the nearest integer, a half upwards. *)
LEMMA CoinRounds ==
    ASSUME NEW a \in Nat, NEW p \in Nat, NEW u \in Nat \ {0}
    PROVE  /\ CalcCoin(a, p, u) \in Nat
           /\ 2 * (u * CalcCoin(a, p, u)) <= 2 * (a * p) + u
           /\ 2 * (a * p) + u < 2 * (u * CalcCoin(a, p, u)) + 2 * u
  <1> DEFINE tmp == Scaled(a, p, u)
             c   == CalcCoin(a, p, u)
             ap  == a * p
  <1>1. ap \in Nat
    OBVIOUS
  <1>2. 10 * a * p = 10 * ap
    OBVIOUS
  <1>3. tmp \in Nat /\ u * tmp <= 10 * ap /\ 10 * ap < u * tmp + u
    <2>1. 10 * ap \in Nat /\ tmp = Quotient(10 * ap, u)
      BY <1>1, <1>2 DEF Scaled
    <2> QED BY <2>1, QuotientBounds
  <1>4. c \in Nat /\ 10 * c <= tmp + 5 /\ tmp + 5 < 10 * c + 10
    <2>1. tmp + 5 \in Nat /\ c = Quotient(tmp + 5, 10)
      BY <1>3 DEF CalcCoin, MultiplyDecimal
    <2> HIDE DEF tmp, c
    <2> QED BY <2>1, QuotientBounds
  <1> HIDE DEF tmp, c
  <1>5. u * tmp \in Nat /\ u * c \in Nat
    BY <1>3, <1>4
  <1>6. u * (10 * c) <= u * (tmp + 5)
    BY <1>3, <1>4
  <1>7. u * (tmp + 6) <= u * (10 * c + 10)
    BY <1>3, <1>4
  <1>8. u * (10 * c) = 10 * (u * c)
    BY <1>4
  <1>9. u * (tmp + 5) = u * tmp + 5 * u /\ u * (tmp + 6) = u * tmp + 6 * u
    BY <1>3
  <1>10. u * (10 * c + 10) = 10 * (u * c) + 10 * u
    BY <1>4
  <1>11. 10 * (u * c) <= 10 * ap + 5 * u
    BY <1>1, <1>3, <1>5, <1>6, <1>8, <1>9
  <1>12. 10 * ap + 5 * u < 10 * (u * c) + 10 * u
    BY <1>1, <1>3, <1>5, <1>7, <1>9, <1>10
  <1>13. 2 * (u * c) <= 2 * ap + u /\ 2 * ap + u < 2 * (u * c) + 2 * u
    BY <1>1, <1>5, <1>11, <1>12
  <1> QED BY <1>4, <1>13 DEF c

(* The same, in the form of the properties. *)
LEMMA CoinNearest ==
    ASSUME NEW a \in Nat, NEW p \in Nat, NEW u \in Nat \ {0}
    PROVE  /\ CalcCoin(a, p, u) \in Nat
           /\ 2 * u * CalcCoin(a, p, u) <= 2 * a * p + u
           /\ 2 * a * p + u < 2 * u * (CalcCoin(a, p, u) + 1)
  <1> DEFINE c == CalcCoin(a, p, u)
  <1>1. /\ c \in Nat
        /\ 2 * (u * c) <= 2 * (a * p) + u
        /\ 2 * (a * p) + u < 2 * (u * c) + 2 * u
    BY CoinRounds
  <1> HIDE DEF c
  <1>2. 2 * u * c = 2 * (u * c) /\ 2 * u * (c + 1) = 2 * (u * c) + 2 * u
    BY <1>1
  <1>3. 2 * a * p = 2 * (a * p)
    OBVIOUS
  <1> QED BY <1>1, <1>2, <1>3 DEF c

(* calc_match_fee leaves something of every amount, for every ratio that   *)
(* validate_fee_ratio accepts: its own check never fails.                  *)
LEMMA FeeBelowQuant ==
    ASSUME NEW ratio \in 0 .. FeeRatioMax, NEW quant \in Nat \ {0}
    PROVE  MatchFee(ratio, quant) \in Nat /\ MatchFee(ratio, quant) < quant
  <1> DEFINE fee == MatchFee(ratio, quant)
             part == quant * ratio
  <1>1. fee = CalcCoin(quant, ratio, RatioPrecision)
    BY DEF MatchFee, CalcCoin
  <1>2. ratio \in Nat /\ ratio <= 4999
    BY DEF FeeRatioMax
  <1>3. RatioPrecision \in Nat \ {0} /\ RatioPrecision = 10000
    BY DEF RatioPrecision
  <1>4. fee \in Nat /\ 2 * (10000 * fee) <= 2 * part + 10000
    BY <1>1, <1>2, <1>3, CoinRounds
  <1>5. part \in Nat /\ part <= quant * 4999
    BY <1>2
  <1> HIDE DEF fee, part
  <1>6. 2 * (10000 * fee) <= 2 * (quant * 4999) + 10000
    BY <1>4, <1>5
  <1>7. fee < quant
    BY <1>4, <1>6
  <1> QED BY <1>4, <1>7 DEF fee

(* Nothing or a negative amount costs nothing: new_order does not check    *)
(* the amount of a buy order, but the coins frozen for such an order are   *)
(* not positive, and no transfer can pay for it.                           *)
LEMMA CoinOfNothing ==
    ASSUME NEW a \in Int, a <= 0, NEW p \in Nat, NEW u \in Nat \ {0}
    PROVE  CalcCoin(a, p, u) <= 0
  <1> DEFINE tmp == Scaled(a, p, u)
             ap  == 10 * a * p
  <1>1. ap \in Int /\ ap <= 0
    <2>1. 10 * a \in Int /\ 10 * a <= 0
      OBVIOUS
    <2> QED BY <2>1
  <1>2. tmp = Quotient(ap, u)
    BY DEF Scaled
  <1> HIDE DEF ap, tmp
  <1>3. tmp \in Int /\ tmp <= 0
    <2>1. CASE ap = 0
      <3>1. 0 \div u = 0
        OBVIOUS
      <3> QED BY <1>2, <2>1, <3>1 DEF Quotient
    <2>2. CASE ap < 0
      <3>1. -ap \in Nat
        BY <1>1, <2>2
      <3>2. (-ap) \div u \in Nat
        BY <3>1
      <3>3. tmp = -((-ap) \div u)
        BY <1>1, <1>2, <2>2 DEF Quotient
      <3> QED BY <3>2, <3>3
    <2> QED BY <1>1, <2>1, <2>2
  <1>4. Quotient(tmp + 5, 10) <= 0
    BY <1>3 DEF Quotient
  <1> QED BY <1>4 DEF CalcCoin, MultiplyDecimal, tmp

(* A smaller amount at a smaller price does not overflow either. *)
LEMMA FitsMonotone ==
    ASSUME NEW a \in Nat, NEW b \in Nat, a <= b, NEW p \in Nat, NEW q \in Nat, p <= q,
           NEW u \in Nat \ {0}, Fits(b, q, u)
    PROVE  Fits(a, p, u)
  <1> DEFINE x  == 10 * a * p
             y  == 10 * b * q
             qx == Quotient(x, u)
             qy == Quotient(y, u)
  <1>1. x \in Nat /\ y \in Nat /\ x <= y
    <2>1. a * p <= b * p /\ b * p <= b * q
      OBVIOUS
    <2>2. x = 10 * (a * p) /\ y = 10 * (b * q) /\ a * p \in Nat /\ b * q \in Nat
      OBVIOUS
    <2> HIDE DEF x, y
    <2> QED BY <2>1, <2>2
  <1>2. Scaled(a, p, u) = qx /\ Scaled(b, q, u) = qy
    BY DEF Scaled
  <1> HIDE DEF x, y
  <1>3. /\ qx \in Nat /\ u * qx <= x
        /\ qy \in Nat /\ y < u * qy + u
    BY <1>1, QuotientBounds
  <1> HIDE DEF qx, qy
  <1>4. qx <= qy
    <2>1. SUFFICES ASSUME qx >= qy + 1 PROVE FALSE
      BY <1>3
    <2>2. u * qx >= u * (qy + 1) /\ u * (qy + 1) = u * qy + u
      BY <1>3, <2>1
    <2> QED BY <1>1, <1>3, <2>2
  <1>5. qy <= MaxInt64
    BY <1>2, <1>3, MaxInt64Assumption DEF Fits
  <1> QED BY <1>2, <1>3, <1>4, <1>5, MaxInt64Assumption DEF Fits

(* The shares of two ratios that fit take no more than the fee.            *)
LEMMA SharesFit ==
    ASSUME NEW fee \in Nat, NEW p \in Nat, NEW g \in Nat, p + g <= RatioPrecision
    PROVE  /\ RewardShare(fee, p) \in Nat /\ RewardShare(fee, g) \in Nat
           /\ RewardShare(fee, p) + RewardShare(fee, g) <= fee
  <1> DEFINE x == RewardShare(fee, p)
             y == RewardShare(fee, g)
  <1>1. x \in Nat /\ y \in Nat
    BY ShareIsNatural
  <1>2. fee * p \in Nat /\ fee * g \in Nat
    OBVIOUS
  <1>3. 10000 * x <= fee * p /\ 10000 * y <= fee * g
    BY <1>2, QuotientBounds DEF RewardShare, RatioPrecision
  <1> HIDE DEF x, y
  <1>4. fee * p + fee * g = fee * (p + g)
    OBVIOUS
  <1>5. fee * (p + g) <= fee * 10000
    <2>1. 10000 - (p + g) \in Nat
      BY DEF RatioPrecision
    <2>2. fee * (10000 - (p + g)) \in Nat
      BY <2>1
    <2>3. fee * (10000 - (p + g)) = fee * 10000 - fee * (p + g)
      OBVIOUS
    <2>4. fee * (p + g) \in Int
      OBVIOUS
    <2> QED BY <2>2, <2>3, <2>4
  <1>6. 10000 * x + 10000 * y <= fee * 10000
    BY <1>1, <1>2, <1>3, <1>4, <1>5
  <1>7. x + y <= fee
    BY <1>1, <1>6
  <1> QED BY <1>1, <1>7 DEF x, y

(* A fee is less than half of what it is taken from, so the intermediate   *)
(* product, with its additional digit, is less than five times of it.      *)
LEMMA FeeFits ==
    ASSUME NEW quant \in Nat, 5 * quant <= MaxInt64, NEW ratio \in 0 .. FeeRatioMax
    PROVE  Fits(quant, ratio, RatioPrecision)
  <1> DEFINE x == 10 * quant * ratio
             q == Quotient(x, 10000)
  <1>1. ratio \in Nat /\ ratio <= 4999
    BY DEF FeeRatioMax
  <1>2. x \in Nat /\ x <= 50000 * quant
    <2>1. quant * ratio \in Nat /\ quant * ratio <= quant * 4999
      BY <1>1
    <2>2. x = 10 * (quant * ratio)
      BY <1>1
    <2> HIDE DEF x
    <2> QED BY <2>1, <2>2
  <1> HIDE DEF x
  <1>3. q \in Nat /\ 10000 * q <= x
    BY <1>2, QuotientBounds
  <1>4. Scaled(quant, ratio, RatioPrecision) = q
    BY DEF Scaled, RatioPrecision, x
  <1> HIDE DEF q
  <1>5. q <= MaxInt64
    BY <1>2, <1>3, MaxInt64Assumption
  <1> QED BY <1>3, <1>4, <1>5, MaxInt64Assumption DEF Fits

(* The coins of a product that fits are a tenth of it, but for rounding.   *)
LEMMA CoinIsSmall ==
    ASSUME NEW a \in Nat, NEW p \in Nat, NEW u \in Nat \ {0}, Fits(a, p, u)
    PROVE  5 * CalcCoin(a, p, u) <= MaxInt64
  <1> DEFINE tmp == Scaled(a, p, u)
             c   == CalcCoin(a, p, u)
  <1>1. tmp \in Nat
    <2>1. 10 * a * p \in Nat
      OBVIOUS
    <2> QED BY <2>1, QuotientBounds DEF Scaled
  <1>2. tmp <= MaxInt64
    BY <1>1, MaxInt64Assumption DEF Fits
  <1>3. c \in Nat /\ 10 * c <= tmp + 5
    <2>1. tmp + 5 \in Nat /\ c = Quotient(tmp + 5, 10)
      BY <1>1 DEF CalcCoin, MultiplyDecimal
    <2> HIDE DEF tmp, c
    <2> QED BY <2>1, QuotientBounds
  <1> HIDE DEF tmp, c
  <1>4. 5 * c <= tmp
    BY <1>1, <1>3
  <1> QED BY <1>1, <1>2, <1>3, <1>4, MaxInt64Assumption DEF c

(* At a price of whole coins for the unit, the coins are exactly those. *)
LEMMA CoinIsExact ==
    ASSUME NEW a \in Nat, NEW p \in Nat, NEW u \in Nat \ {0}, p % u = 0
    PROVE  p \div u \in Nat /\ p = u * (p \div u) /\ CalcCoin(a, p, u) = a * (p \div u)
  <1> DEFINE w == p \div u
             c == CalcCoin(a, p, u)
             d == a * w
  <1>1. w \in Nat /\ p = u * w
    BY ExactQuotient
  <1>2. /\ c \in Nat
        /\ 2 * (u * c) <= 2 * (a * p) + u
        /\ 2 * (a * p) + u < 2 * (u * c) + 2 * u
    BY CoinRounds
  <1> HIDE DEF c, w
  <1>3. d \in Nat /\ a * p = u * d
    BY <1>1
  <1> HIDE DEF d
  <1>4. 2 * (u * c) <= 2 * (u * d) + u /\ 2 * (u * d) + u < 2 * (u * c) + 2 * u
    BY <1>2, <1>3
  <1>5. ~(c >= d + 1)
    <2> SUFFICES ASSUME c >= d + 1 PROVE FALSE
      OBVIOUS
    <2>1. u * c >= u * (d + 1) /\ u * (d + 1) = u * d + u
      BY <1>2, <1>3
    <2>2. u * c \in Nat /\ u * d \in Nat
      BY <1>2, <1>3
    <2> QED BY <1>4, <2>1, <2>2
  <1>6. ~(d >= c + 1)
    <2> SUFFICES ASSUME d >= c + 1 PROVE FALSE
      OBVIOUS
    <2>1. u * d >= u * (c + 1) /\ u * (c + 1) = u * c + u
      BY <1>2, <1>3
    <2>2. u * c \in Nat /\ u * d \in Nat
      BY <1>2, <1>3
    <2> QED BY <1>4, <2>1, <2>2
  <1>7. c = d
    BY <1>2, <1>3, <1>5, <1>6
  <1> QED BY <1>1, <1>7 DEF c, d, w

(* What a product at such a price says of the amount alone. *)
LEMMA WholeAmountFits ==
    ASSUME NEW a \in Nat, NEW p \in Nat \ {0}, NEW u \in Nat \ {0}, p % u = 0, Fits(a, p, u)
    PROVE  10 * a <= MaxInt64
  <1> DEFINE w == p \div u
             d == a * w
             s == Quotient(10 * a * p, u)
  <1>1. w \in Nat \ {0} /\ p = u * w
    <2>1. w \in Nat /\ p = u * w
      BY ExactQuotient
    <2> HIDE DEF w
    <2>2. w # 0
      BY <2>1
    <2> QED BY <2>1, <2>2
  <1> HIDE DEF w
  <1>2. d \in Nat /\ a <= d /\ 10 * a * p = u * (10 * d)
    BY <1>1
  <1> HIDE DEF d
  <1>3. 10 * a * p \in Nat
    OBVIOUS
  <1>4. s \in Nat /\ 10 * a * p < u * s + u
    BY <1>3, QuotientBounds
  <1>5. s <= MaxInt64
    BY <1>4, MaxInt64Assumption DEF Fits, Scaled
  <1> HIDE DEF s
  <1>6. ~(10 * d >= s + 1)
    <2> SUFFICES ASSUME 10 * d >= s + 1 PROVE FALSE
      OBVIOUS
    <2> DEFINE e == 10 * d
    <2>0. e \in Nat /\ e >= s + 1 /\ u * e < u * s + u
      BY <1>2, <1>4
    <2> HIDE DEF e
    <2>1. u * e >= u * (s + 1) /\ u * (s + 1) = u * s + u
      BY <1>4, <2>0
    <2>2. u * e \in Nat /\ u * s \in Nat
      BY <1>4, <2>0
    <2> QED BY <2>0, <2>1, <2>2
  <1> QED BY <1>2, <1>4, <1>5, <1>6, MaxInt64Assumption

(* What `x' costs at most as much as `y' at the price `p', of which not    *)
(* more than `n' are asked for: k times `x' is an amount if k times the    *)
(* cost of `n' is one.                                                     *)
LEMMA SmallProduct ==
    ASSUME NEW x \in Nat, NEW y \in Nat, NEW n \in Nat, NEW p \in Nat, NEW k \in Nat,
           NEW u \in Nat \ {0}, u * x <= y * p, y <= n, n * p * k <= MaxAmount * u
    PROVE  x * k <= MaxAmount
  <1>1. MaxAmount \in Nat
    BY MaxInt64Assumption DEF MaxAmount
  <1>2. y * p <= n * p
    OBVIOUS
  <1> DEFINE a == u * x
             b == n * p
             d == x * k
  <1>3. a \in Nat /\ b \in Nat /\ d \in Nat /\ a <= b
    <2>1. a \in Nat /\ b \in Nat /\ d \in Nat /\ y * p \in Nat
      OBVIOUS
    <2> QED BY <1>2, <2>1
  <1>4. a * k = u * d
    OBVIOUS
  <1>5. b * k <= MaxAmount * u
    OBVIOUS
  <1> HIDE DEF a, b, d
  <1>6. a * k <= b * k /\ a * k \in Nat /\ b * k \in Nat
    BY <1>3
  <1>7. d <= MaxAmount
    <2> SUFFICES ASSUME d >= MaxAmount + 1 PROVE FALSE
      BY <1>1, <1>3
    <2>1. u * d >= u * (MaxAmount + 1)
      BY <1>1, <1>3
    <2>2. u * (MaxAmount + 1) = MaxAmount * u + u /\ MaxAmount * u \in Nat
      BY <1>1
    <2> QED BY <1>4, <1>5, <1>6, <2>1, <2>2
  <1> QED BY <1>7 DEF d

(* Two fills that cost at most as much as at the prices p and q cost       *)
(* together at most as much as at any price that is not below them.        *)
LEMMA CostsAdd ==
    ASSUME NEW a \in Nat, NEW b \in Nat, NEW x \in Nat, NEW y \in Nat,
           NEW p \in Nat, NEW q \in Nat, NEW r \in Nat, NEW u \in Nat,
           u * a <= x * p, u * b <= y * q, p <= r, q <= r
    PROVE  u * (a + b) <= (x + y) * r
  <1>1. x * p <= x * r /\ y * q <= y * r
    OBVIOUS
  <1>2. u * (a + b) = u * a + u * b /\ (x + y) * r = x * r + y * r
    OBVIOUS
  <1>3. /\ u * a \in Nat /\ u * b \in Nat /\ x * p \in Nat /\ y * q \in Nat
        /\ x * r \in Nat /\ y * r \in Nat
    OBVIOUS
  <1> QED BY <1>1, <1>2, <1>3
=============================================================================
