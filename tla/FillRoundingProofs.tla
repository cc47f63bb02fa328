-------------------------- MODULE FillRoundingProofs -------------------------
(***************************************************************************)
(* The bounds of FillRounding, for every price, precision and amount.      *)
(***************************************************************************)
EXTENDS FillRounding, DexMathLemmas

LEMMA TermsAreNumbers ==
    ASSUME order \in [price : Prices, unit : Units, total : Totals]
    PROVE  /\ order.price \in Nat \ {0}
           /\ order.unit \in Nat \ {0}
           /\ order.total \in Nat \ {0}
  <1>1. order.price \in Prices /\ order.unit \in Units /\ order.total \in Totals
    OBVIOUS
  <1> QED BY <1>1, RoundingAssumption

(* The fills of an order stay within its total, and every fill is of one   *)
(* unit at least.                                                          *)
THEOREM TypeCorrect == Spec => []TypeOK
  <1>1. Init => TypeOK
    <2> SUFFICES ASSUME Init PROVE TypeOK
      OBVIOUS
    <2>1. order.total \in Nat
      BY TermsAreNumbers DEF Init
    <2> QED BY <2>1 DEF Init, TypeOK
  <1>2. TypeOK /\ [Next]_vars => TypeOK'
    <2> SUFFICES ASSUME TypeOK, [Next]_vars PROVE TypeOK'
      OBVIOUS
    <2>1. CASE UNCHANGED vars
      BY <2>1 DEF vars, TypeOK
    <2>2. ASSUME NEW quant \in 1 .. order.total - filled, Fill(quant)
          PROVE  TypeOK'
      <3>1. order.price \in Nat /\ order.unit \in Nat \ {0} /\ order.total \in Nat
        BY TermsAreNumbers DEF TypeOK
      <3>2. quant \in Nat
        BY <3>1 DEF TypeOK
      <3>3. CalcCoin(quant, order.price, order.unit) \in Nat
        BY <3>1, <3>2, CoinRounds
      <3>4. filled' \in 0 .. order'.total /\ fills' \in 0 .. filled'
        BY <2>2, <3>1, <3>2 DEF Fill, TypeOK
      <3> QED BY <2>2, <3>3, <3>4 DEF Fill, TypeOK
    <2> QED BY <2>1, <2>2 DEF Next
  <1> QED BY <1>1, <1>2, PTL DEF Spec

(* What is frozen for an order is its exact price rounded to the nearest   *)
(* coin.                                                                   *)
THEOREM CoinsAreNearest == Spec => []CoinIsNearest
  <1>1. TypeOK => CoinIsNearest
    <2> SUFFICES ASSUME TypeOK PROVE CoinIsNearest
      OBVIOUS
    <2>1. filled \in Nat /\ order.price \in Nat /\ order.unit \in Nat \ {0}
      <3>1. order.total \in Nat
        BY TermsAreNumbers DEF TypeOK
      <3> QED BY <3>1, TermsAreNumbers DEF TypeOK
    <2> QED BY <2>1, CoinNearest DEF CoinIsNearest
  <1> QED BY <1>1, TypeCorrect, PTL

(* However an order is filled, its coins stay within half a unit per fill  *)
(* of its exact price.                                                     *)
THEOREM DriftIsBounded == Spec => []CostDriftBounded
  <1>1. Init => CostDriftBounded
    <2> SUFFICES ASSUME Init PROVE CostDriftBounded
      OBVIOUS
    <2>1. order.price \in Nat /\ order.unit \in Nat
      BY TermsAreNumbers DEF Init
    <2> QED BY <2>1 DEF Init, CostDriftBounded
  <1>2. TypeOK /\ CostDriftBounded /\ [Next]_vars => CostDriftBounded'
    <2> SUFFICES ASSUME TypeOK, CostDriftBounded, [Next]_vars
                 PROVE  CostDriftBounded'
      OBVIOUS
    <2>1. CASE UNCHANGED vars
      BY <2>1 DEF vars, CostDriftBounded
    <2>2. ASSUME NEW quant \in 1 .. order.total - filled, Fill(quant)
          PROVE  CostDriftBounded'
      <3> DEFINE p == order.price
                 u == order.unit
                 c == CalcCoin(quant, p, u)
      <3>1. p \in Nat /\ u \in Nat \ {0} /\ order.total \in Nat
        BY TermsAreNumbers DEF TypeOK
      <3>2. quant \in Nat /\ filled \in Nat /\ cost \in Nat /\ fills \in Nat
        BY <3>1 DEF TypeOK
      <3>3. /\ c \in Nat
            /\ 2 * (u * c) <= 2 * (quant * p) + u
            /\ 2 * (quant * p) + u < 2 * (u * c) + 2 * u
        BY <3>1, <3>2, CoinRounds
      <3>4. /\ filled' = filled + quant /\ cost' = cost + c /\ fills' = fills + 1
            /\ order' = order
        BY <2>2 DEF Fill
      <3>5. /\ 2 * u * cost <= 2 * filled * p + fills * u
            /\ 2 * filled * p <= 2 * u * cost + fills * u
        BY DEF CostDriftBounded
      <3> HIDE DEF c, p, u
      <3>6. 2 * u * (cost + c) = 2 * u * cost + 2 * (u * c)
        BY <3>1, <3>2, <3>3
      <3>7. 2 * (filled + quant) * p = 2 * filled * p + 2 * (quant * p)
        BY <3>1, <3>2
      <3>8. (fills + 1) * u = fills * u + u
        BY <3>1, <3>2
      <3>9. /\ 2 * u * cost \in Nat /\ 2 * filled * p \in Nat /\ fills * u \in Nat
            /\ u * c \in Nat /\ quant * p \in Nat
        BY <3>1, <3>2, <3>3
      <3>10. /\ 2 * u * (cost + c) <= 2 * (filled + quant) * p + (fills + 1) * u
             /\ 2 * (filled + quant) * p <= 2 * u * (cost + c) + (fills + 1) * u
        BY <3>1, <3>3, <3>5, <3>6, <3>7, <3>8, <3>9
      <3> QED BY <3>4, <3>10 DEF CostDriftBounded, p, u
    <2> QED BY <2>1, <2>2 DEF Next
  <1> QED BY <1>1, <1>2, TypeCorrect, PTL DEF Spec

(* At whole prices the order of the fills and their number do not matter,  *)
(* and the frozen coins always cover them.                                 *)
THEOREM WholePricesExact == Spec => []WholePricesAreExact
  <1> DEFINE Whole == order.price % order.unit = 0
             w     == order.price \div order.unit
             Exact == Whole => cost = filled * w
  <1>1. ASSUME order \in [price : Prices, unit : Units, total : Totals], Whole,
               NEW q \in Nat
        PROVE  w \in Nat /\ CalcCoin(q, order.price, order.unit) = q * w
    <2>1. order.price \in Nat /\ order.unit \in Nat \ {0}
      BY <1>1, TermsAreNumbers
    <2> QED BY <1>1, <2>1, CoinIsExact, ZenonT(40)
  <1>2. Init => Exact
    <2> SUFFICES ASSUME Init, Whole PROVE cost = filled * w
      OBVIOUS
    <2>1. w \in Nat
      BY <1>1 DEF Init
    <2> HIDE DEF w
    <2> QED BY <2>1 DEF Init
  <1>3. TypeOK /\ Exact /\ [Next]_vars => Exact'
    <2> SUFFICES ASSUME TypeOK, Exact, [Next]_vars, Whole'
                 PROVE  cost' = filled' * w'
      OBVIOUS
    <2>1. CASE UNCHANGED vars
      BY <2>1 DEF vars
    <2>2. ASSUME NEW quant \in 1 .. order.total - filled, Fill(quant)
          PROVE  cost' = filled' * w'
      <3>1. order' = order /\ filled' = filled + quant
            /\ cost' = cost + CalcCoin(quant, order.price, order.unit)
        BY <2>2 DEF Fill
      <3>2. Whole /\ w' = w
        BY <3>1
      <3>3. order.total \in Nat
        BY TermsAreNumbers DEF TypeOK
      <3>4. quant \in Nat /\ filled \in Nat
        BY <3>3 DEF TypeOK
      <3>5. w \in Nat /\ CalcCoin(quant, order.price, order.unit) = quant * w
        BY <1>1, <3>2, <3>4 DEF TypeOK
      <3>6. cost = filled * w
        BY <3>2
      <3> HIDE DEF w
      <3>7. (filled + quant) * w = filled * w + quant * w
        BY <3>4, <3>5
      <3> QED BY <3>1, <3>2, <3>5, <3>6, <3>7
    <2> QED BY <2>1, <2>2 DEF Next
  <1>4. TypeOK /\ Exact => WholePricesAreExact
    <2> SUFFICES ASSUME TypeOK, Exact, Whole
                 PROVE  /\ cost = filled * w
                        /\ cost <= CalcCoin(order.total, order.price, order.unit)
      BY DEF WholePricesAreExact
    <2>1. order.total \in Nat
      BY TermsAreNumbers DEF TypeOK
    <2>2. filled \in Nat /\ filled <= order.total
      BY <2>1 DEF TypeOK
    <2>3. w \in Nat /\ CalcCoin(order.total, order.price, order.unit) = order.total * w
      BY <1>1, <2>1 DEF TypeOK
    <2>4. cost = filled * w
      OBVIOUS
    <2> HIDE DEF w
    <2>5. filled * w <= order.total * w
      BY <2>1, <2>2, <2>3
    <2> QED BY <2>3, <2>4, <2>5 DEF w
  <1> HIDE DEF Exact
  <1> QED BY <1>2, <1>3, <1>4, TypeCorrect, PTL DEF Spec

(* No ratio that the contract accepts eats up an amount.                   *)
THEOREM FeesLeaveSomething == Spec => []FeeLeavesSomething
  <1>1. TypeOK => FeeLeavesSomething
    <2> SUFFICES ASSUME TypeOK, NEW r \in Ratios, cost > 0
                 PROVE  MatchFee(r, cost) < cost
      BY DEF FeeLeavesSomething
    <2>1. cost \in Nat \ {0} /\ r \in 0 .. FeeRatioMax
      BY RoundingAssumption DEF TypeOK
    <2> QED BY <2>1, FeeBelowQuant
  <1> QED BY <1>1, TypeCorrect, PTL
=============================================================================
