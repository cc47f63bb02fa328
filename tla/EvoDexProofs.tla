----------------------------- MODULE EvoDexProofs ----------------------------
(***************************************************************************)
(* The swap contract: the types, the shares of the pools, what the         *)
(* contract holds, the index, and the market that its users see.           *)
(***************************************************************************)
EXTENDS EvoDex, SumTheory

(***************************************************************************)
(* What compute guarantees for every amount, reserve, supply and fee:      *)
(* whoever trades, buys into a pool or sells out of it, pays at least the  *)
(* exact price.                                                            *)
(***************************************************************************)
(* The quotient, by its remainder. *)
LEMMA QuotientBounds ==
    ASSUME NEW a \in Int, NEW z \in Nat, z > 0
    PROVE  /\ a \div z \in Int
           /\ z * (a \div z) <= a
           /\ a < z * (a \div z) + z
  OBVIOUS

(* The rounded rate, times the divisor, is at least the exact product: the *)
(* payer pays no less than the exact price, and the receiver receives no   *)
(* more.                                                                   *)
LEMMA RateCovers ==
    ASSUME NEW x \in Int, NEW y \in Nat, NEW z \in Nat, x # 0, y > 0, z > 0
    PROVE  /\ Rate(x, y, z) \in Int
           /\ z * Rate(x, y, z) >= x * y
           /\ x > 0 => Rate(x, y, z) > 0
           /\ x < 0 => Rate(x, y, z) <= 0
<1>1. CASE x > 0
  <2> DEFINE d == (x * y - 1) \div z
  <2>1. x * y \in Int /\ x * y >= 1
    BY <1>1
  <2>2. d \in Int /\ x * y - 1 < z * d + z
    BY <2>1, QuotientBounds
  <2>3. d >= 0
    BY <2>1
  <2>4. Rate(x, y, z) = 1 + d
    BY <1>1 DEF Rate
  <2>5. z * (1 + d) = z * d + z
    BY <2>2
  <2> HIDE DEF d
  <2> QED
    BY <1>1, <2>1, <2>2, <2>3, <2>4, <2>5
<1>2. CASE x < 0
  <2> DEFINE m == -x * y
             d == m \div z
  <2>1. m \in Int /\ m >= 0 /\ x * y = -m
    BY <1>2
  <2>2. d \in Int /\ z * d <= m
    BY <2>1, QuotientBounds
  <2>3. d >= 0
    BY <2>1
  <2>4. Rate(x, y, z) = -d
    BY <1>2 DEF Rate
  <2>5. z * (-d) = -(z * d)
    BY <2>2
  <2> HIDE DEF m, d
  <2> QED
    BY <1>2, <2>1, <2>2, <2>3, <2>4, <2>5
<1> QED
  BY <1>1, <1>2

(* The fee is never negative, whichever direction the rate has.            *)
LEMMA FeeIsNat ==
    ASSUME NEW rate \in Int, NEW fee \in Nat
    PROVE  FeeOn(rate, fee) \in Nat
<1> DEFINE size == IF rate > 0 THEN rate ELSE -rate
           due  == size * fee + FeeBase - 1
<1>1. size \in Nat
  OBVIOUS
<1>2. size * fee \in Nat
  BY <1>1
<1>3. due \in Nat
  BY <1>2 DEF FeeBase
<1>4. FeeOn(rate, fee) = due \div 10000
  BY DEF FeeOn, FeeBase
<1> HIDE DEF due
<1> QED
  BY <1>3, <1>4

(* With its fee, the price still covers the exact one.                     *)
LEMMA ComputeCovers ==
    ASSUME NEW x \in Int, NEW y \in Nat, NEW z \in Nat, NEW fee \in Nat,
           x # 0, y > 0, z > 0
    PROVE  /\ Compute(x, y, z, fee) \in Int
           /\ z * Compute(x, y, z, fee) >= x * y
<1> DEFINE r == Rate(x, y, z)
           f == FeeOn(r, fee)
<1>1. r \in Int /\ z * r >= x * y
  BY RateCovers
<1>2. f \in Nat
  BY <1>1, FeeIsNat
<1>3. z * f \in Nat /\ z * (r + f) = z * r + z * f
  BY <1>1, <1>2
<1>4. Compute(x, y, z, fee) = r + f
  BY DEF Compute
<1> HIDE DEF r, f
<1> QED
  BY <1>1, <1>2, <1>3, <1>4

(* The product of the reserves never falls by an exchange, in any amount,  *)
(* in either direction and at any fee, and it empties neither of them      *)
(* (process_exch: n units are paid in, or taken out when n is negative).   *)
THEOREM ExchangeKeepsValue ==
    ASSUME NEW n \in Int, NEW in \in Nat, NEW other \in Nat, NEW fee \in Nat,
           n # 0, in > 0, other > 0, in + n > 0
    PROVE  LET left == other + Compute(-n, other, in + n, fee)
           IN  /\ left \in Nat \ {0}
               /\ (in + n) * left >= in * other
<1> DEFINE z == in + n
           c == Compute(-n, other, z, fee)
<1>1. z \in Nat /\ z > 0 /\ -n \in Int /\ -n # 0
  OBVIOUS
<1>2. c \in Int /\ z * c >= (-n) * other
  BY <1>1, ComputeCovers
<1>3. (-n) * other = in * other - z * other /\ in * other > 0
  OBVIOUS
<1>4. z * (other + c) = z * other + z * c
  BY <1>1, <1>2
<1> HIDE DEF c, z
<1>5. z * (other + c) >= in * other
  BY <1>1, <1>2, <1>3, <1>4
<1>6. other + c \in Int /\ other + c > 0
  BY <1>1, <1>2, <1>3, <1>5
<1> QED
  BY <1>5, <1>6 DEF c, z

(* One reserve of a pool grows at least in proportion to the supply when   *)
(* pool tokens are bought, and falls at most in proportion when they are   *)
(* sold (add_signed_liq); it is not emptied as long as one token is left.  *)
LEMMA ReserveKeepsShare ==
    ASSUME NEW n \in Int, NEW reserve \in Nat, NEW supply \in Nat, NEW fee \in Nat,
           n # 0, reserve > 0, supply > 0, supply + n > 0
    PROVE  LET after == reserve + Compute(n, reserve, supply, fee)
           IN  /\ after \in Nat \ {0}
               /\ supply * after >= reserve * (supply + n)
<1> DEFINE c == Compute(n, reserve, supply, fee)
<1>1. c \in Int /\ supply * c >= n * reserve
  BY ComputeCovers
<1>2. /\ reserve * (supply + n) = supply * reserve + n * reserve
      /\ reserve * (supply + n) > 0
  OBVIOUS
<1>3. supply * (reserve + c) = supply * reserve + supply * c
  BY <1>1
<1> HIDE DEF c
<1>4. supply * (reserve + c) >= reserve * (supply + n)
  BY <1>1, <1>2, <1>3
<1>5. reserve + c \in Int /\ reserve + c > 0
  BY <1>1, <1>2, <1>4
<1> QED
  BY <1>4, <1>5 DEF c

(* The product of the reserves over the square of the supply never falls   *)
(* when pool tokens are bought or sold, whatever is rounded: shares of     *)
(* those who do not take part are never diluted.                           *)
THEOREM LiquidityKeepsValue ==
    ASSUME NEW n \in Int, NEW p \in Nat, NEW q \in Nat, NEW supply \in Nat,
           NEW fee \in Nat,
           n # 0, p > 0, q > 0, supply > 0, supply + n > 0
    PROVE  ((p + Compute(n, p, supply, fee)) * (q + Compute(n, q, supply, fee)))
               * (supply * supply)
           >= (p * q) * ((supply + n) * (supply + n))
<1> DEFINE a == p + Compute(n, p, supply, fee)
           b == q + Compute(n, q, supply, fee)
           s == supply + n
<1>1. a \in Nat /\ supply * a >= p * s
  BY ReserveKeepsShare
<1>2. b \in Nat /\ supply * b >= q * s
  BY ReserveKeepsShare
<1>3. s \in Nat
  OBVIOUS
<1> HIDE DEF a, b, s
<1>4. supply * a \in Nat /\ supply * b \in Nat /\ p * s \in Nat /\ q * s \in Nat
  BY <1>1, <1>2, <1>3
<1>5. (supply * a) * (supply * b) >= (p * s) * (q * s)
  <2> DEFINE A == supply * a
             B == supply * b
             C == p * s
             D == q * s
  <2>1. A \in Nat /\ B \in Nat /\ C \in Nat /\ D \in Nat /\ A >= C /\ B >= D
    BY <1>1, <1>2, <1>4
  <2> HIDE DEF A, B, C, D
  <2>2. A * B >= C * B
    BY <2>1
  <2>3. C * B >= C * D
    BY <2>1
  <2>4. A * B >= C * D
    BY <2>1, <2>2, <2>3
  <2> QED
    BY <2>4 DEF A, B, C, D
<1>6. (supply * a) * (supply * b) = (a * b) * (supply * supply)
  BY <1>1, <1>2
<1>7. (p * s) * (q * s) = (p * q) * (s * s)
  BY <1>3
<1> QED
  BY <1>5, <1>6, <1>7 DEF a, b, s

(* Nobody can be locked in by the arithmetic: selling a part of the supply *)
(* pays a share of each reserve that is not negative and less than all of  *)
(* it (remliquidity, which charges no fee).                                *)
THEOREM RedeemingPaysAPart ==
    ASSUME NEW n \in Nat, NEW reserve \in Nat, NEW supply \in Nat,
           n > 0, reserve > 0, n < supply
    PROVE  -Compute(-n, reserve, supply, 0) \in 0 .. reserve - 1
<1> DEFINE c == Compute(-n, reserve, supply, 0)
           r == Rate(-n, reserve, supply)
<1>1. -n \in Int /\ -n # 0 /\ -n < 0 /\ supply + (-n) > 0 /\ supply > 0 /\ 0 \in Nat
  OBVIOUS
<1>2. r \in Int /\ r <= 0
  BY <1>1, RateCovers
<1>3. FeeOn(r, 0) = 0
  <2>1. FeeOn(r, 0) = 9999 \div 10000
    BY <1>2 DEF FeeOn, FeeBase
  <2> QED
    BY <2>1
<1>4. c = r
  BY <1>2, <1>3 DEF Compute
<1>5. reserve + c \in Nat \ {0}
  BY <1>1, ReserveKeepsShare
<1> QED
  BY <1>2, <1>4, <1>5

(***************************************************************************)
(* Tables: what an action does to a row.                                   *)
(***************************************************************************)
LEMMA PutRow ==
    ASSUME NEW table, NEW key, NEW row
    PROVE  \A k : Row(Put(table, key, row), k) = IF k = key THEN row ELSE Row(table, k)
  BY DEF Put, Row

LEMMA DeleteRow ==
    ASSUME NEW table, NEW key
    PROVE  \A k : Row(Delete(table, key), k) = IF k = key THEN 0 ELSE Row(table, k)
  BY DEF Delete, Row

LEMMA PutTable ==
    ASSUME NEW table, NEW keys, NEW rows, IsTable(table, keys, rows),
           NEW key \in keys, NEW row \in rows
    PROVE  IsTable(Put(table, key, row), keys, rows)
  BY DEF Put, IsTable

LEMMA DeleteTable ==
    ASSUME NEW table, NEW keys, NEW rows, IsTable(table, keys, rows), NEW key
    PROVE  IsTable(Delete(table, key), keys, rows)
  BY DEF Delete, IsTable

LEMMA RowIsNat ==
    ASSUME NEW table, NEW keys, NEW rows, IsTable(table, keys, rows), rows \subseteq Nat
    PROVE  \A k : Row(table, k) \in Nat
  BY DEF IsTable, Row

AccountsOK(table) == IsTable(table, Holders \X Tokens, Nat)
DepositsOK(table) == IsTable(table, Users \X Tokens, 0 .. MaxAmount)

(* A balance changes for one owner and token, and with it the sum of the   *)
(* token over any set of owners that has him.                              *)
LEMMA BalanceAdded ==
    ASSUME NEW table, AccountsOK(table), NEW owner \in Holders, NEW token \in Tokens,
           NEW n \in Int, Row(table, <<owner, token>>) + n >= 0
    PROVE  /\ AccountsOK(AddBalance(table, owner, token, n))
           /\ \A a, t : Row(AddBalance(table, owner, token, n), <<a, t>>) =
                  IF a = owner /\ t = token THEN Row(table, <<a, t>>) + n
                                            ELSE Row(table, <<a, t>>)
<1> DEFINE key == <<owner, token>>
           new == Row(table, key) + n
<1>1. Row(table, key) \in Nat
  BY RowIsNat DEF AccountsOK
<1>2. new \in Nat /\ key \in Holders \X Tokens
  BY <1>1
<1>3. AddBalance(table, owner, token, n) = Put(table, key, new)
  BY DEF AddBalance
<1>4. AccountsOK(Put(table, key, new))
  BY <1>2, PutTable DEF AccountsOK
<1>5. \A k : Row(Put(table, key, new), k) = IF k = key THEN new ELSE Row(table, k)
  <2> HIDE DEF key, new
  <2> QED
    BY PutRow
<1> QED
  BY <1>3, <1>4, <1>5

LEMMA HoldersFinite == IsFiniteSet(Holders) /\ IsFiniteSet(Users) /\ Dex \notin Users
  BY NamesAssumption, FS_AddElement DEF Holders

LEMMA HeldAdded ==
    ASSUME NEW table, AccountsOK(table), NEW owner \in Holders, NEW token \in Tokens,
           NEW n \in Int, Row(table, <<owner, token>>) + n >= 0
    PROVE  \A t : Held(AddBalance(table, owner, token, n), t) =
                    IF t = token THEN Held(table, t) + n ELSE Held(table, t)
<1> DEFINE new == AddBalance(table, owner, token, n)
<1>1. /\ AccountsOK(new)
      /\ \A a, t : Row(new, <<a, t>>) =
                  IF a = owner /\ t = token THEN Row(table, <<a, t>>) + n
                                            ELSE Row(table, <<a, t>>)
  BY BalanceAdded
<1>2. \A k : Row(table, k) \in Int /\ Row(new, k) \in Int
  BY <1>1, RowIsNat DEF AccountsOK
<1> HIDE DEF new
<1> TAKE t
<1> DEFINE f == [a \in Holders |-> Row(table, <<a, t>>)]
           h == [a \in Holders |-> Row(new, <<a, t>>)]
<1>3. Held(table, t) = SumFunctionOnSet(f, Holders) /\ Held(new, t) = SumFunctionOnSet(h, Holders)
  BY DEF Held
<1>4. \A a \in Holders : f[a] \in Int /\ h[a] \in Int
  BY <1>2
<1>5. CASE t = token
  <2>1. /\ h[owner] - f[owner] = n
        /\ \A a \in Holders \ {owner} : h[a] = f[a]
    BY <1>1, <1>2, <1>5
  <2>2. \A a \in Holders : f[a] \in Int /\ h[a] \in Int
    BY <1>4
  <2>3. \A a \in Holders \ {owner} : h[a] = f[a]
    BY <2>1
  <2>4. SumFunctionOnSet(h, Holders) = SumFunctionOnSet(f, Holders) + (h[owner] - f[owner])
    <3> HIDE DEF f, h
    <3> QED
      BY <2>2, <2>3, HoldersFinite, SumUpdate
  <2> QED
    BY <1>3, <1>5, <2>1, <2>4 DEF new
<1>6. CASE t # token
  <2>1. \A a \in Holders : f[a] = h[a]
    BY <1>1, <1>6
  <2> HIDE DEF f, h
  <2>2. SumFunctionOnSet(h, Holders) = SumFunctionOnSet(f, Holders)
    BY <1>4, <2>1, HoldersFinite, SumSame
  <2> QED
    BY <1>3, <1>6, <2>2 DEF new
<1> QED
  BY <1>5, <1>6

LEMMA HeldIsNat ==
    ASSUME NEW table, AccountsOK(table), NEW token
    PROVE  /\ Held(table, token) \in Nat
           /\ \A a \in Holders : Row(table, <<a, token>>) <= Held(table, token)
<1> DEFINE f == [a \in Holders |-> Row(table, <<a, token>>)]
<1>1. \A a \in Holders : f[a] \in Nat /\ f[a] = Row(table, <<a, token>>)
  BY RowIsNat DEF AccountsOK
<1>2. Held(table, token) = SumFunctionOnSet(f, Holders)
  BY DEF Held
<1> HIDE DEF f
<1>3. Held(table, token) \in Nat
  BY <1>1, <1>2, HoldersFinite, SumIsNat
<1>4. \A a \in Holders : f[a] <= SumFunctionOnSet(f, Holders)
  BY <1>1, HoldersFinite, SumAtLeast
<1> QED
  BY <1>1, <1>2, <1>3, <1>4

(* A transfer keeps every sum. *)
LEMMA TransferMoves ==
    ASSUME NEW table, AccountsOK(table), NEW from \in Holders, NEW to \in Holders,
           NEW token \in Tokens, NEW n, CanTransfer(table, from, to, token, n)
    PROVE  /\ n \in Nat \ {0} /\ from # to
           /\ AccountsOK(Transferred(table, from, to, token, n))
           /\ \A a, t : Row(Transferred(table, from, to, token, n), <<a, t>>) =
                CASE a = from /\ t = token -> Row(table, <<a, t>>) - n
                  [] a = to /\ t = token   -> Row(table, <<a, t>>) + n
                  [] OTHER                 -> Row(table, <<a, t>>)
           /\ \A t : Held(Transferred(table, from, to, token, n), t) = Held(table, t)
<1> DEFINE mid == AddBalance(table, from, token, -n)
           new == AddBalance(mid, to, token, n)
<1>1. /\ n \in Nat \ {0} /\ -n \in Int /\ from # to
      /\ Row(table, <<from, token>>) + (-n) >= 0
      /\ \A k : Row(table, k) \in Nat
  BY RowIsNat DEF CanTransfer, AccountsOK
<1>2. /\ AccountsOK(mid)
      /\ \A a, t : Row(mid, <<a, t>>) =
                  IF a = from /\ t = token THEN Row(table, <<a, t>>) + (-n)
                                           ELSE Row(table, <<a, t>>)
      /\ \A t : Held(mid, t) = IF t = token THEN Held(table, t) + (-n) ELSE Held(table, t)
  BY <1>1, BalanceAdded, HeldAdded
<1> HIDE DEF mid
<1>3. Row(mid, <<to, token>>) + n >= 0
  BY <1>1, <1>2
<1>4. /\ AccountsOK(new)
      /\ \A a, t : Row(new, <<a, t>>) =
                  IF a = to /\ t = token THEN Row(mid, <<a, t>>) + n
                                         ELSE Row(mid, <<a, t>>)
      /\ \A t : Held(new, t) = IF t = token THEN Held(mid, t) + n ELSE Held(mid, t)
  BY <1>1, <1>2, <1>3, BalanceAdded, HeldAdded
<1>5. new = Transferred(table, from, to, token, n)
  BY DEF Transferred, mid
<1> HIDE DEF new
<1>6. \A a, t : Row(new, <<a, t>>) =
                CASE a = from /\ t = token -> Row(table, <<a, t>>) - n
                  [] a = to /\ t = token   -> Row(table, <<a, t>>) + n
                  [] OTHER                 -> Row(table, <<a, t>>)
  BY <1>1, <1>2, <1>4
<1>7. \A t : Held(new, t) = Held(table, t)
  <2>1. \A t : Held(table, t) \in Nat
    BY HeldIsNat
  <2> QED
    BY <1>1, <1>2, <1>4, <2>1
<1> QED
  BY <1>1, <1>4, <1>5, <1>6, <1>7

-----------------------------------------------------------------------------
(***************************************************************************)
(* Deposits.                                                               *)
(***************************************************************************)

(* When only the rows of one user change, so do the sums, by as much. *)
LEMMA DepositedChanges ==
    ASSUME NEW old, NEW new, DepositsOK(old), DepositsOK(new), NEW user \in Users,
           NEW t, \A u \in Users \ {user} : Row(new, <<u, t>>) = Row(old, <<u, t>>)
    PROVE  /\ Deposited(old, t) \in Nat
           /\ Deposited(new, t) =
                Deposited(old, t) + (Row(new, <<user, t>>) - Row(old, <<user, t>>))
<1> DEFINE f == [u \in Users |-> Row(old, <<u, t>>)]
           h == [u \in Users |-> Row(new, <<u, t>>)]
<1>1. \A k : Row(old, k) \in Nat /\ Row(new, k) \in Nat
  <2>1. 0 .. MaxAmount \subseteq Nat
    OBVIOUS
  <2> QED
    BY <2>1, RowIsNat DEF DepositsOK
<1>2. Deposited(old, t) = SumFunctionOnSet(f, Users) /\ Deposited(new, t) = SumFunctionOnSet(h, Users)
  BY DEF Deposited
<1>3. \A u \in Users : f[u] \in Nat
  BY <1>1
<1>4. \A u \in Users : f[u] \in Int /\ h[u] \in Int
  BY <1>1
<1>5. \A u \in Users \ {user} : h[u] = f[u]
  OBVIOUS
<1>6. f[user] = Row(old, <<user, t>>) /\ h[user] = Row(new, <<user, t>>)
  OBVIOUS
<1> HIDE DEF f, h
<1>7. SumFunctionOnSet(f, Users) \in Nat
  BY <1>3, HoldersFinite, SumIsNat
<1>8. SumFunctionOnSet(h, Users) = SumFunctionOnSet(f, Users) + (h[user] - f[user])
  BY <1>4, <1>5, HoldersFinite, SumUpdate
<1> QED
  BY <1>2, <1>6, <1>7, <1>8

LEMMA ExtAdded ==
    ASSUME DepositsOK(evodexacnts), NEW user \in Users, NEW change,
           \A t \in DOMAIN change : change[t] \in Int /\ CanAddExt(user, t, change[t])
    PROVE  /\ DepositsOK(AddExt(user, change))
           /\ \A t : Deposited(AddExt(user, change), t) =
                Deposited(evodexacnts, t) + (IF t \in DOMAIN change THEN change[t] ELSE 0)
<1> DEFINE new == AddExt(user, change)
<1>1. /\ DOMAIN evodexacnts \subseteq Users \X Tokens
      /\ \A k \in DOMAIN evodexacnts : evodexacnts[k] \in 0 .. MaxAmount
  BY DEF DepositsOK, IsTable
<1>2. /\ DOMAIN new = DOMAIN evodexacnts
      /\ \A k \in DOMAIN evodexacnts : new[k] =
            IF k[1] = user /\ k[2] \in DOMAIN change
            THEN evodexacnts[k] + change[k[2]] ELSE evodexacnts[k]
  BY DEF AddExt
<1>3. \A t \in DOMAIN change :
         /\ <<user, t>> \in DOMAIN evodexacnts
         /\ evodexacnts[<<user, t>>] + change[t] \in 0 .. MaxAmount
  BY DEF CanAddExt
<1> HIDE DEF new
<1>4. ASSUME NEW k \in DOMAIN evodexacnts
      PROVE  new[k] \in 0 .. MaxAmount
  <2>1. CASE k[1] = user /\ k[2] \in DOMAIN change
    <3>1. k = <<user, k[2]>>
      BY <1>1, <2>1
    <3> QED
      BY <1>2, <1>3, <2>1, <3>1
  <2>2. CASE ~(k[1] = user /\ k[2] \in DOMAIN change)
    BY <1>1, <1>2, <2>2
  <2> QED
    BY <2>1, <2>2
<1>5. DepositsOK(new)
  BY <1>1, <1>2, <1>4 DEF DepositsOK, IsTable
<1>6. ASSUME NEW t
      PROVE  Deposited(new, t) =
                Deposited(evodexacnts, t) + (IF t \in DOMAIN change THEN change[t] ELSE 0)
  <2>1. \A u \in Users \ {user} : Row(new, <<u, t>>) = Row(evodexacnts, <<u, t>>)
    <3> TAKE u \in Users \ {user}
    <3>1. CASE <<u, t>> \in DOMAIN evodexacnts
      <4>1. new[<<u, t>>] = evodexacnts[<<u, t>>]
        BY <1>2, <3>1
      <4> QED
        BY <1>2, <3>1, <4>1 DEF Row
    <3>2. CASE <<u, t>> \notin DOMAIN evodexacnts
      BY <1>2, <3>2 DEF Row
    <3> QED
      BY <3>1, <3>2
  <2>2. /\ Deposited(evodexacnts, t) \in Nat
        /\ Deposited(new, t) = Deposited(evodexacnts, t)
              + (Row(new, <<user, t>>) - Row(evodexacnts, <<user, t>>))
    BY <1>5, <2>1, DepositedChanges
  <2>3. CASE t \in DOMAIN change
    <3>1. /\ Row(evodexacnts, <<user, t>>) = evodexacnts[<<user, t>>]
          /\ Row(new, <<user, t>>) = evodexacnts[<<user, t>>] + change[t]
          /\ evodexacnts[<<user, t>>] \in Int
          /\ change[t] \in Int
      BY <1>1, <1>2, <1>3, <2>3 DEF Row
    <3> QED
      BY <2>2, <2>3, <3>1
  <2>4. CASE t \notin DOMAIN change
    <3>1. Row(new, <<user, t>>) = Row(evodexacnts, <<user, t>>)
      BY <1>2, <2>4 DEF Row
    <3>2. Row(evodexacnts, <<user, t>>) \in Int
      BY <1>1 DEF Row
    <3> QED
      BY <2>2, <2>4, <3>1, <3>2
  <2> QED
    BY <2>3, <2>4
<1> QED
  BY <1>5, <1>6 DEF new

-----------------------------------------------------------------------------
(***************************************************************************)
(* Pools.                                                                  *)
(***************************************************************************)
StatOK(table) == IsTable(table, Evo, PoolType)

LEMMA TypesByTable ==
    ASSUME NEW a, NEW d, NEW s, NEW i
    PROVE  TablesOK(a, d, s, i) <=> /\ AccountsOK(a)
                                    /\ DepositsOK(d)
                                    /\ StatOK(s)
                                    /\ IsTable(i, DOMAIN s, Pairs)
  BY DEF TablesOK, AccountsOK, DepositsOK, StatOK

LEMMA PoolShape ==
    ASSUME NEW table, StatOK(table), NEW e \in DOMAIN table
    PROVE  /\ e \in Evo
           /\ table[e] \in PoolType
           /\ table[e].supply \in 1 .. MaxAmount /\ table[e].fee \in Nat
           /\ DOMAIN table[e].pool \in Pairs
           /\ \A t \in DOMAIN table[e].pool :
                 t \in Tokens /\ table[e].pool[t] \in 1 .. MaxAmount
           /\ \A t : Row(table[e].pool, t) \in Nat
<1>1. e \in Evo /\ table[e] \in PoolType
  BY DEF StatOK, IsTable
<1>2. /\ table[e].supply \in 1 .. MaxAmount /\ table[e].fee \in Nat
      /\ table[e].pool \in UNION {[pair -> 1 .. MaxAmount] : pair \in Pairs}
  BY <1>1 DEF PoolType
<1>3. PICK pair \in Pairs : table[e].pool \in [pair -> 1 .. MaxAmount]
  BY <1>2
<1>4. pair \subseteq Tokens
  BY DEF Pairs
<1>5. \A x \in DOMAIN table[e].pool :
                 x \in Tokens /\ table[e].pool[x] \in 1 .. MaxAmount
  BY <1>3, <1>4
<1>6. \A x : Row(table[e].pool, x) \in Nat
  BY <1>5 DEF Row
<1> QED
  BY <1>1, <1>2, <1>3, <1>5, <1>6

(* A row with two reserves that are in range. *)
LEMMA NewPool ==
    ASSUME NEW pair \in Pairs, NEW reserves \in [pair -> 1 .. MaxAmount],
           NEW supply \in 1 .. MaxAmount, NEW fee \in Nat
    PROVE  [supply |-> supply, fee |-> fee, pool |-> reserves] \in PoolType
<1>1. reserves \in UNION {[p -> 1 .. MaxAmount] : p \in Pairs}
  OBVIOUS
<1> HIDE DEF Pairs
<1> QED
  BY <1>1 DEF PoolType

(* When only one pool changes, so do the sums, by as much. *)
LEMMA PooledChanges ==
    ASSUME NEW old, NEW new, StatOK(old), StatOK(new), DOMAIN new = DOMAIN old,
           NEW e \in DOMAIN old, \A f \in DOMAIN old \ {e} : new[f] = old[f], NEW t
    PROVE  /\ Pooled(old, t) \in Nat
           /\ Pooled(new, t) =
                 Pooled(old, t) + (Row(new[e].pool, t) - Row(old[e].pool, t))
<1> DEFINE f == [d \in DOMAIN old |-> Row(old[d].pool, t)]
           h == [d \in DOMAIN old |-> Row(new[d].pool, t)]
           S == DOMAIN old
<1>1. Pooled(old, t) = SumFunctionOnSet(f, S) /\ Pooled(new, t) = SumFunctionOnSet(h, S)
  BY DEF Pooled
<1>2. \A d \in S : Row(old[d].pool, t) \in Nat /\ Row(new[d].pool, t) \in Nat
  BY PoolShape
<1>3. \A d \in S : f[d] \in Nat
  BY <1>2
<1>4. \A d \in S : f[d] \in Int /\ h[d] \in Int
  BY <1>2
<1>5. \A d \in S \ {e} : h[d] = f[d]
  OBVIOUS
<1>6. f[e] = Row(old[e].pool, t) /\ h[e] = Row(new[e].pool, t)
  OBVIOUS
<1>7. IsFiniteSet(S) /\ e \in S
  BY NamesAssumption, FS_Subset DEF StatOK, IsTable
<1> HIDE DEF f, h, S
<1>8. SumFunctionOnSet(f, S) \in Nat
  BY <1>3, <1>7, SumIsNat
<1>9. SumFunctionOnSet(h, S) = SumFunctionOnSet(f, S) + (h[e] - f[e])
  BY <1>4, <1>5, <1>7, SumUpdate
<1> QED
  BY <1>1, <1>6, <1>8, <1>9

(* A new pool adds its reserves. *)
LEMMA PooledGrows ==
    ASSUME NEW old, NEW new, StatOK(old), StatOK(new), NEW e, e \notin DOMAIN old,
           DOMAIN new = DOMAIN old \cup {e}, \A f \in DOMAIN old : new[f] = old[f], NEW t
    PROVE  /\ Pooled(old, t) \in Nat
           /\ Pooled(new, t) = Pooled(old, t) + Row(new[e].pool, t)
<1> DEFINE f == [d \in DOMAIN old |-> Row(old[d].pool, t)]
           h == [d \in DOMAIN new |-> Row(new[d].pool, t)]
           S == DOMAIN old
           N == DOMAIN new
<1>1. Pooled(old, t) = SumFunctionOnSet(f, S) /\ Pooled(new, t) = SumFunctionOnSet(h, N)
  BY DEF Pooled
<1>2. /\ \A d \in S : Row(old[d].pool, t) \in Nat
      /\ \A d \in N : Row(new[d].pool, t) \in Nat
  BY PoolShape
<1>3. \A d \in S : f[d] \in Nat
  BY <1>2
<1>4. \A d \in S : f[d] \in Int /\ f[d] = h[d]
  BY <1>2
<1>5. \A d \in N : h[d] \in Int
  BY <1>2
<1>6. h[e] = Row(new[e].pool, t)
  OBVIOUS
<1>7. IsFiniteSet(S) /\ IsFiniteSet(N) /\ e \in N /\ N \ {e} = S
  <2>1. S \in SUBSET Evo /\ N \in SUBSET Evo
    BY DEF StatOK, IsTable
  <2>2. IsFiniteSet(S) /\ IsFiniteSet(N)
    BY <2>1, NamesAssumption, FS_Subset
  <2> QED
    BY <2>2
<1> HIDE DEF f, h, S, N
<1>8. SumFunctionOnSet(f, S) \in Nat
  BY <1>3, <1>7, SumIsNat
<1>9. SumFunctionOnSet(f, S) = SumFunctionOnSet(h, S)
  BY <1>4, <1>7, SumSame
<1>10. SumFunctionOnSet(h, N) = h[e] + SumFunctionOnSet(h, S)
  BY <1>5, <1>7, SumRemove
<1>11. h[e] \in Int
  BY <1>5, <1>7
<1> QED
  BY <1>1, <1>6, <1>8, <1>9, <1>10, <1>11

LEMMA SumsAreNat ==
    ASSUME NEW deposits, DepositsOK(deposits), NEW pools, StatOK(pools), NEW t
    PROVE  Deposited(deposits, t) \in Nat /\ Pooled(pools, t) \in Nat
<1> DEFINE f == [u \in Users |-> Row(deposits, <<u, t>>)]
           g == [e \in DOMAIN pools |-> Row(pools[e].pool, t)]
           S == DOMAIN pools
<1>1. 0 .. MaxAmount \subseteq Nat
  OBVIOUS
<1>2. \A u \in Users : f[u] \in Nat
  BY <1>1, RowIsNat DEF DepositsOK
<1>3. \A e \in S : g[e] \in Nat
  BY PoolShape
<1>4. IsFiniteSet(S)
  BY NamesAssumption, FS_Subset DEF StatOK, IsTable
<1>5. Deposited(deposits, t) = SumFunctionOnSet(f, Users) /\ Pooled(pools, t) = SumFunctionOnSet(g, S)
  BY DEF Deposited, Pooled
<1> HIDE DEF f, g, S
<1> QED
  BY <1>2, <1>3, <1>4, <1>5, HoldersFinite, SumIsNat

LEMMA RowsAreInt ==
    ASSUME NEW a, AccountsOK(a), NEW d, DepositsOK(d)
    PROVE  \A k : Row(a, k) \in Nat /\ Row(d, k) \in Nat
<1>1. 0 .. MaxAmount \subseteq Nat
  OBVIOUS
<1> QED
  BY <1>1, RowIsNat DEF AccountsOK, DepositsOK

-----------------------------------------------------------------------------
(***************************************************************************)
(* The invariant.  The types need the shares: only because nobody holds    *)
(* more than the supply does a sale leave a positive one.  A deposit is    *)
(* never too large for what is paid out to it because the contract holds   *)
(* both, and there is no more of any token than an amount can say.         *)
(***************************************************************************)
PlainFits == \A t \in Plain : Held(accounts, t) <= MaxAmount

Inv == TypeOK /\ SupplyIsHeld /\ Custody /\ PlainFits

LEMMA InvTypes ==
    ASSUME Inv
    PROVE  /\ AccountsOK(accounts) /\ DepositsOK(evodexacnts) /\ StatOK(stat)
           /\ IsTable(evoindex, DOMAIN stat, Pairs)
  BY TypesByTable DEF Inv, TypeOK

(* A pool of which nothing changes keeps its value. *)
LEMMA SameValue ==
    ASSUME StatOK(stat), NEW e \in DOMAIN stat,
           stat'[e].pool = stat[e].pool, stat'[e].supply = stat[e].supply,
           NEW s \in DOMAIN stat[e].pool, NEW t \in DOMAIN stat[e].pool
    PROVE  (stat'[e].pool[s] * stat'[e].pool[t]) * (stat[e].supply * stat[e].supply)
             >= (stat[e].pool[s] * stat[e].pool[t]) * (stat'[e].supply * stat'[e].supply)
<1> DEFINE v == (stat[e].pool[s] * stat[e].pool[t]) * (stat[e].supply * stat[e].supply)
<1>1. stat[e].pool[s] \in Int /\ stat[e].pool[t] \in Int /\ stat[e].supply \in Int
  BY PoolShape
<1>2. v \in Int
  BY <1>1
<1>3. v >= v
  <2> HIDE DEF v
  <2> QED
    BY <1>2
<1> QED
  BY <1>3

(* Actions that move tokens and leave the pools alone. *)
LEMMA TokensMove ==
    ASSUME Inv, UNCHANGED <<stat, evoindex>>,
           AccountsOK(accounts'), DepositsOK(evodexacnts'),
           \A t : Held(accounts', t) = Held(accounts, t),
           \A t \in Tokens :
               Row(accounts', <<Dex, t>>) - Row(accounts, <<Dex, t>>) =
                   Deposited(evodexacnts', t) - Deposited(evodexacnts, t),
           \A t \in Tokens : Deposited(evodexacnts', t) \in Int
    PROVE  Inv' /\ ValueKept
<1>1. TypeOK'
  BY InvTypes, TypesByTable DEF TypeOK
<1>2. SupplyIsHeld'
  BY DEF Inv, SupplyIsHeld, SharesAddUp
<1>3. Custody'
  <2>1. ASSUME NEW t \in Tokens
        PROVE  Row(accounts', <<Dex, t>>) = Deposited(evodexacnts', t) + Pooled(stat, t)
    <3>1. Row(accounts, <<Dex, t>>) = Deposited(evodexacnts, t) + Pooled(stat, t)
      BY DEF Inv, Custody, Covered
    <3>2. Row(accounts, <<Dex, t>>) \in Nat /\ Row(accounts', <<Dex, t>>) \in Nat
      BY InvTypes, RowIsNat DEF AccountsOK
    <3>3. Deposited(evodexacnts, t) \in Nat /\ Pooled(stat, t) \in Nat
      BY InvTypes, SumsAreNat
    <3>4. Deposited(evodexacnts', t) \in Int
      OBVIOUS
    <3> QED
      BY <3>1, <3>2, <3>3, <3>4
  <2> QED
    BY <2>1 DEF Custody, Covered
<1>4. ValueKept
  BY InvTypes, SameValue DEF ValueKept
<1>5. PlainFits'
  BY DEF Inv, PlainFits
<1> QED
  BY <1>1, <1>2, <1>3, <1>4, <1>5 DEF Inv

LEMMA OpenExtKeeps ==
    ASSUME Inv, NEW user \in Users, NEW token \in Tokens, OpenExt(user, token)
    PROVE  Inv' /\ ValueKept
<1>1. /\ <<user, token>> \notin DOMAIN evodexacnts
      /\ evodexacnts' = Put(evodexacnts, <<user, token>>, 0)
      /\ UNCHANGED <<stat, accounts, evoindex>>
  BY DEF OpenExt
<1>2. DepositsOK(evodexacnts')
  <2>1. <<user, token>> \in Users \X Tokens /\ 0 \in 0 .. MaxAmount
    BY MaxAmountAssumption
  <2> QED
    BY <1>1, <2>1, InvTypes, PutTable DEF DepositsOK
<1>3. \A k : Row(evodexacnts', k) = Row(evodexacnts, k)
  <2>1. Row(evodexacnts, <<user, token>>) = 0
    BY <1>1 DEF Row
  <2> QED
    BY <1>1, <2>1, PutRow
<1>4. \A t : Deposited(evodexacnts', t) = Deposited(evodexacnts, t)
  BY <1>3 DEF Deposited
<1> QED
  BY <1>1, <1>2, <1>4, InvTypes, RowsAreInt, SumsAreNat, TokensMove

LEMMA CloseExtKeeps ==
    ASSUME Inv, NEW user \in Users, NEW to \in Users, NEW token \in Tokens,
           CloseExt(user, to, token)
    PROVE  Inv' /\ ValueKept
<1> DEFINE key  == <<user, token>>
           rest == evodexacnts[key]
<1>1. /\ key \in DOMAIN evodexacnts
      /\ evodexacnts' = Delete(evodexacnts, key)
      /\ UNCHANGED <<stat, evoindex>>
  BY DEF CloseExt
<1>2. /\ \/ rest = 0 /\ UNCHANGED accounts
         \/ /\ CanTransfer(accounts, Dex, to, token, rest)
            /\ accounts' = Transferred(accounts, Dex, to, token, rest)
  BY DEF CloseExt
<1>3. rest \in Nat /\ Row(evodexacnts, key) = rest
  BY <1>1, InvTypes DEF DepositsOK, IsTable, Row
<1>4. DepositsOK(evodexacnts')
  BY <1>1, InvTypes, DeleteTable DEF DepositsOK
<1>5. \A k : Row(evodexacnts', k) = IF k = key THEN 0 ELSE Row(evodexacnts, k)
  <2> HIDE DEF key
  <2> QED
    BY <1>1, DeleteRow
<1> HIDE DEF rest
<1>6. \A t : Deposited(evodexacnts', t) =
                Deposited(evodexacnts, t) - (IF t = token THEN rest ELSE 0)
  <2> TAKE t
  <2>1. \A u \in Users \ {user} : Row(evodexacnts', <<u, t>>) = Row(evodexacnts, <<u, t>>)
    BY <1>5
  <2>2. /\ Deposited(evodexacnts, t) \in Nat
        /\ Deposited(evodexacnts', t) = Deposited(evodexacnts, t)
              + (Row(evodexacnts', <<user, t>>) - Row(evodexacnts, <<user, t>>))
    BY <1>4, <2>1, InvTypes, DepositedChanges
  <2>3. CASE t = token
    BY <1>3, <1>5, <2>2, <2>3
  <2>4. CASE t # token
    <3>1. Row(evodexacnts', <<user, t>>) = Row(evodexacnts, <<user, t>>)
      BY <1>5, <2>4
    <3>2. Row(evodexacnts, <<user, t>>) \in Int
      BY InvTypes, RowsAreInt
    <3> QED
      BY <2>2, <2>4, <3>1, <3>2
  <2> QED
    BY <2>3, <2>4
<1>7. /\ AccountsOK(accounts')
      /\ \A t : Held(accounts', t) = Held(accounts, t)
      /\ \A t : Row(accounts', <<Dex, t>>) =
                   Row(accounts, <<Dex, t>>) - (IF t = token THEN rest ELSE 0)
  <2>1. \A t : Row(accounts, <<Dex, t>>) \in Int
    BY InvTypes, RowsAreInt
  <2>2. CASE rest = 0 /\ UNCHANGED accounts
    BY <2>1, <2>2, InvTypes
  <2>3. CASE /\ CanTransfer(accounts, Dex, to, token, rest)
             /\ accounts' = Transferred(accounts, Dex, to, token, rest)
    <3>1. Dex \in Holders /\ to \in Holders /\ to # Dex
      BY HoldersFinite DEF Holders
    <3> QED
      BY <1>3, <2>1, <2>3, <3>1, InvTypes, TransferMoves
  <2> QED
    BY <1>2, <2>2, <2>3
<1>8. \A t \in Tokens :
          /\ Deposited(evodexacnts, t) \in Int /\ Row(accounts, <<Dex, t>>) \in Int
          /\ Deposited(evodexacnts', t) \in Int
          /\ Row(accounts', <<Dex, t>>) - Row(accounts, <<Dex, t>>) =
                   Deposited(evodexacnts', t) - Deposited(evodexacnts, t)
  <2> TAKE t \in Tokens
  <2>1. Deposited(evodexacnts, t) \in Int /\ Row(accounts, <<Dex, t>>) \in Int
    BY InvTypes, RowsAreInt, SumsAreNat
  <2> QED
    BY <1>3, <1>6, <1>7, <2>1
<1> QED
  BY <1>1, <1>4, <1>7, <1>8, TokensMove

LEMMA DepositKeeps ==
    ASSUME Inv, NEW from \in Users, NEW to \in Users, NEW token \in Tokens, NEW n,
           Deposit(from, to, token, n)
    PROVE  Inv' /\ ValueKept
<1> DEFINE change == [t \in {token} |-> n]
<1>1. /\ CanTransfer(accounts, from, Dex, token, n)
      /\ CanAddExt(to, token, n)
      /\ accounts' = Transferred(accounts, from, Dex, token, n)
      /\ evodexacnts' = AddExt(to, change)
      /\ UNCHANGED <<stat, evoindex>>
  BY DEF Deposit
<1>2. from \in Holders /\ Dex \in Holders /\ from # Dex
  BY HoldersFinite DEF Holders
<1>3. /\ n \in Nat
      /\ AccountsOK(accounts')
      /\ \A t : Held(accounts', t) = Held(accounts, t)
      /\ \A t : Row(accounts', <<Dex, t>>) =
              IF t = token THEN Row(accounts, <<Dex, t>>) + n ELSE Row(accounts, <<Dex, t>>)
  BY <1>1, <1>2, InvTypes, TransferMoves
<1>4. \A t \in DOMAIN change : change[t] \in Int /\ CanAddExt(to, t, change[t])
  BY <1>1, <1>3
<1>5. /\ DepositsOK(evodexacnts')
      /\ \A t : Deposited(evodexacnts', t) =
              Deposited(evodexacnts, t) + (IF t = token THEN n ELSE 0)
  <2> HIDE DEF change
  <2>1. /\ DepositsOK(evodexacnts')
        /\ \A t : Deposited(evodexacnts', t) =
              Deposited(evodexacnts, t) + (IF t \in DOMAIN change THEN change[t] ELSE 0)
    BY <1>1, <1>4, InvTypes, ExtAdded
  <2> QED
    BY <2>1 DEF change
<1>6. \A t \in Tokens :
          /\ Deposited(evodexacnts', t) \in Int
          /\ Row(accounts', <<Dex, t>>) - Row(accounts, <<Dex, t>>) =
                   Deposited(evodexacnts', t) - Deposited(evodexacnts, t)
  <2> TAKE t \in Tokens
  <2>1. Deposited(evodexacnts, t) \in Int /\ Row(accounts, <<Dex, t>>) \in Int
    BY InvTypes, RowsAreInt, SumsAreNat
  <2> QED
    BY <1>3, <1>5, <2>1
<1> QED
  BY <1>1, <1>3, <1>5, <1>6, TokensMove

LEMMA WithdrawKeeps ==
    ASSUME Inv, NEW user \in Users, NEW to \in Users, NEW token \in Tokens, NEW n,
           Withdraw(user, to, token, n)
    PROVE  Inv' /\ ValueKept
<1> DEFINE change == [t \in {token} |-> -n]
<1>1. /\ CanTransfer(accounts, Dex, to, token, n)
      /\ CanAddExt(user, token, -n)
      /\ accounts' = Transferred(accounts, Dex, to, token, n)
      /\ evodexacnts' = AddExt(user, change)
      /\ UNCHANGED <<stat, evoindex>>
  BY DEF Withdraw
<1>2. to \in Holders /\ Dex \in Holders /\ to # Dex
  BY HoldersFinite DEF Holders
<1>3. /\ n \in Nat
      /\ AccountsOK(accounts')
      /\ \A t : Held(accounts', t) = Held(accounts, t)
      /\ \A t : Row(accounts', <<Dex, t>>) =
              IF t = token THEN Row(accounts, <<Dex, t>>) - n ELSE Row(accounts, <<Dex, t>>)
  BY <1>1, <1>2, InvTypes, TransferMoves
<1>4. \A t \in DOMAIN change : change[t] \in Int /\ CanAddExt(user, t, change[t])
  BY <1>1, <1>3
<1>5. /\ DepositsOK(evodexacnts')
      /\ \A t : Deposited(evodexacnts', t) =
              Deposited(evodexacnts, t) + (IF t = token THEN -n ELSE 0)
  <2> HIDE DEF change
  <2>1. /\ DepositsOK(evodexacnts')
        /\ \A t : Deposited(evodexacnts', t) =
              Deposited(evodexacnts, t) + (IF t \in DOMAIN change THEN change[t] ELSE 0)
    BY <1>1, <1>4, InvTypes, ExtAdded
  <2> QED
    BY <2>1 DEF change
<1>6. \A t \in Tokens :
          /\ Deposited(evodexacnts', t) \in Int
          /\ Row(accounts', <<Dex, t>>) - Row(accounts, <<Dex, t>>) =
                   Deposited(evodexacnts', t) - Deposited(evodexacnts, t)
  <2> TAKE t \in Tokens
  <2>1. Deposited(evodexacnts, t) \in Int /\ Row(accounts, <<Dex, t>>) \in Int
    BY InvTypes, RowsAreInt, SumsAreNat
  <2> QED
    BY <1>3, <1>5, <2>1
<1> QED
  BY <1>1, <1>3, <1>5, <1>6, TokensMove

(* transfer, open and close of pool tokens: no deposit changes, nor what   *)
(* the contract holds.                                                     *)
LEMMA HoldingKeeps ==
    ASSUME Inv, Holding
    PROVE  Inv' /\ ValueKept
<1>1. PICK user \in Users, e \in Evo :
          \/ \E to \in Users, n \in Amounts[e] : Transfer(user, to, e, n)
          \/ Open(user, e) \/ Close(user, e)
  BY DEF Holding
<1>2. user \in Holders /\ user # Dex /\ e \in Tokens /\ <<user, e>> \in Holders \X Tokens
  BY HoldersFinite DEF Holders, Tokens
<1>3. /\ UNCHANGED <<stat, evodexacnts, evoindex>>
      /\ AccountsOK(accounts')
      /\ \A t : Held(accounts', t) = Held(accounts, t)
      /\ \A t : Row(accounts', <<Dex, t>>) = Row(accounts, <<Dex, t>>)
  <2>1. CASE \E to \in Users, n \in Amounts[e] : Transfer(user, to, e, n)
    <3>1. PICK to \in Users, n \in Amounts[e] : Transfer(user, to, e, n)
      BY <2>1
    <3>2. to \in Holders /\ to # Dex
      BY HoldersFinite DEF Holders
    <3>3. /\ CanTransfer(accounts, user, to, e, n)
          /\ accounts' = Transferred(accounts, user, to, e, n)
          /\ UNCHANGED <<stat, evodexacnts, evoindex>>
      BY <3>1 DEF Transfer
    <3> QED
      BY <1>2, <3>2, <3>3, InvTypes, TransferMoves
  <2>2. CASE Open(user, e)
    <3>1. /\ <<user, e>> \notin DOMAIN accounts
          /\ accounts' = Put(accounts, <<user, e>>, 0)
          /\ UNCHANGED <<stat, evodexacnts, evoindex>>
      BY <2>2 DEF Open
    <3>2. Row(accounts, <<user, e>>) = 0
      BY <3>1 DEF Row
    <3>3. \A k : Row(accounts', k) = Row(accounts, k)
      BY <3>1, <3>2, PutRow
    <3>4. AccountsOK(accounts')
      BY <1>2, <3>1, InvTypes, PutTable DEF AccountsOK
    <3>5. \A t : Held(accounts', t) = Held(accounts, t)
      BY <3>3 DEF Held
    <3> QED
      BY <3>1, <3>3, <3>4, <3>5
  <2>3. CASE Close(user, e)
    <3>1. /\ <<user, e>> \in DOMAIN accounts
          /\ accounts[<<user, e>>] = 0
          /\ accounts' = Delete(accounts, <<user, e>>)
          /\ UNCHANGED <<stat, evodexacnts, evoindex>>
      BY <2>3 DEF Close
    <3>2. Row(accounts, <<user, e>>) = 0
      BY <3>1 DEF Row
    <3>3. \A k : Row(accounts', k) = Row(accounts, k)
      BY <3>1, <3>2, DeleteRow
    <3>4. AccountsOK(accounts')
      BY <3>1, InvTypes, DeleteTable DEF AccountsOK
    <3>5. \A t : Held(accounts', t) = Held(accounts, t)
      BY <3>3 DEF Held
    <3> QED
      BY <3>1, <3>3, <3>4, <3>5
  <2> QED
    BY <1>1, <2>1, <2>2, <2>3
<1>4. \A t \in Tokens :
          /\ Deposited(evodexacnts', t) \in Int
          /\ Row(accounts', <<Dex, t>>) - Row(accounts, <<Dex, t>>) =
                   Deposited(evodexacnts', t) - Deposited(evodexacnts, t)
  <2> TAKE t \in Tokens
  <2>1. Deposited(evodexacnts, t) \in Int /\ Row(accounts, <<Dex, t>>) \in Int
    BY InvTypes, RowsAreInt, SumsAreNat
  <2> QED
    BY <1>3, <2>1
<1>5. DepositsOK(evodexacnts')
  BY <1>3, InvTypes
<1> QED
  BY <1>3, <1>4, <1>5, TokensMove

-----------------------------------------------------------------------------
(***************************************************************************)
(* Actions that change one pool.                                           *)
(***************************************************************************)
LEMMA PoolMoves ==
    ASSUME Inv, UNCHANGED evoindex, NEW e \in DOMAIN stat,
           StatOK(stat'), DOMAIN stat' = DOMAIN stat,
           \A f \in DOMAIN stat \ {e} : stat'[f] = stat[f],
           AccountsOK(accounts'), DepositsOK(evodexacnts'),
           \A t : Held(accounts', t) = IF t = e THEN stat'[e].supply
                                               ELSE Held(accounts, t),
           \A t \in Tokens :
               Row(accounts', <<Dex, t>>) - Row(accounts, <<Dex, t>>) =
                   (Deposited(evodexacnts', t) - Deposited(evodexacnts, t))
                     + (Row(stat'[e].pool, t) - Row(stat[e].pool, t)),
           \A s, t \in DOMAIN stat[e].pool : s # t =>
               (stat'[e].pool[s] * stat'[e].pool[t]) * (stat[e].supply * stat[e].supply)
                 >= (stat[e].pool[s] * stat[e].pool[t])
                      * (stat'[e].supply * stat'[e].supply)
    PROVE  Inv' /\ ValueKept
<1>1. TypeOK'
  BY InvTypes, TypesByTable DEF TypeOK
<1>2. SupplyIsHeld'
  <2>1. \A t \in Evo :
          Held(accounts, t) = IF t \in DOMAIN stat THEN stat[t].supply ELSE 0
    BY DEF Inv, SupplyIsHeld, SharesAddUp
  <2> QED
    BY <2>1 DEF SupplyIsHeld, SharesAddUp
<1>3. Custody'
  <2>1. ASSUME NEW t \in Tokens
        PROVE  Row(accounts', <<Dex, t>>) = Deposited(evodexacnts', t) + Pooled(stat', t)
    <3>1. Row(accounts, <<Dex, t>>) = Deposited(evodexacnts, t) + Pooled(stat, t)
      BY DEF Inv, Custody, Covered
    <3>2. Row(accounts, <<Dex, t>>) \in Nat /\ Row(accounts', <<Dex, t>>) \in Nat
      BY InvTypes, RowIsNat DEF AccountsOK
    <3>3. Deposited(evodexacnts, t) \in Nat /\ Deposited(evodexacnts', t) \in Nat
      BY InvTypes, SumsAreNat
    <3>4. /\ Pooled(stat, t) \in Nat
          /\ Pooled(stat', t) =
                Pooled(stat, t) + (Row(stat'[e].pool, t) - Row(stat[e].pool, t))
      BY InvTypes, PooledChanges
    <3>5. Row(stat'[e].pool, t) \in Nat /\ Row(stat[e].pool, t) \in Nat
      BY InvTypes, PoolShape
    <3>6. Row(accounts', <<Dex, t>>) - Row(accounts, <<Dex, t>>) =
                   (Deposited(evodexacnts', t) - Deposited(evodexacnts, t))
                     + (Row(stat'[e].pool, t) - Row(stat[e].pool, t))
      OBVIOUS
    <3>7. \A a, b, c, d, p, q, r, v \in Int :
              a = d + p /\ q = p + (r - v) /\ b - a = (c - d) + (r - v) => b = c + q
      OBVIOUS
    <3>8. Pooled(stat', t) \in Int
      BY <3>4, <3>5
    <3> QED
      BY <3>1, <3>2, <3>3, <3>4, <3>5, <3>6, <3>7, <3>8
  <2> QED
    BY <2>1 DEF Custody, Covered
<1>4. ValueKept
  <2>1. ASSUME NEW f \in DOMAIN stat, f # e,
               NEW s \in DOMAIN stat[f].pool, NEW t \in DOMAIN stat[f].pool
        PROVE  (stat'[f].pool[s] * stat'[f].pool[t]) * (stat[f].supply * stat[f].supply)
                 >= (stat[f].pool[s] * stat[f].pool[t])
                      * (stat'[f].supply * stat'[f].supply)
    BY <2>1, InvTypes, SameValue
  <2> QED
    BY <2>1 DEF ValueKept
<1>5. PlainFits'
  <2>1. e \notin Plain
    BY NamesAssumption, InvTypes, PoolShape
  <2> QED
    BY <2>1 DEF Inv, PlainFits
<1> QED
  BY <1>1, <1>2, <1>3, <1>4, <1>5 DEF Inv

(* Tokens are bought, or sold: neither all of them nor more than are held. *)
LEMMA SupplyStaysPositive ==
    ASSUME Inv, NEW user \in Users, NEW e \in DOMAIN stat, NEW n \in Int,
           Row(accounts, <<user, e>>) + n >= 0, stat[e].supply + n # 0
    PROVE  stat[e].supply + n >= 1
<1>1. user \in Holders /\ e \in Evo /\ stat[e].supply \in Int
  BY InvTypes, PoolShape DEF Holders
<1>2. Held(accounts, e) = stat[e].supply
  BY <1>1 DEF Inv, SupplyIsHeld, SharesAddUp
<1>3. Row(accounts, <<user, e>>) <= Held(accounts, e) /\ Row(accounts, <<user, e>>) \in Nat
  BY <1>1, InvTypes, HeldIsNat, RowsAreInt
<1> QED
  BY <1>1, <1>2, <1>3

LEMMA LiquidityKeeps ==
    ASSUME Inv, NEW user \in Users, NEW e, NEW n \in Int, NEW fee \in Nat, NEW limit,
           AddSignedLiq(user, e, n, fee, limit)
    PROVE  Inv' /\ ValueKept
<1> DEFINE row    == stat[e]
           pair   == DOMAIN row.pool
           pay(t) == Compute(n, row.pool[t], row.supply, fee)
           change == [t \in pair |-> -pay(t)]
           after  == [t \in pair |-> row.pool[t] + pay(t)]
           new    == [supply |-> row.supply + n, fee |-> row.fee, pool |-> after]
<1>1. /\ e \in DOMAIN stat
      /\ \A t \in pair :
            /\ Computable(n, row.pool[t], row.supply, fee)
            /\ CanAddExt(user, t, -pay(t))
            /\ row.pool[t] + pay(t) <= MaxAmount
      /\ Row(accounts, <<user, e>>) + n >= 0
      /\ row.supply + n <= MaxAmount
      /\ row.supply + n # 0
  BY DEF AddSignedLiq, NotLeftEmpty
<1>2. /\ evodexacnts' = AddExt(user, change)
      /\ accounts' = AddBalance(accounts, user, e, n)
      /\ stat' = [stat EXCEPT ![e] = new]
      /\ UNCHANGED evoindex
  BY DEF AddSignedLiq, NewSupply
<1>3. /\ e \in Evo /\ e \in Tokens /\ user \in Holders /\ user # Dex
      /\ row.supply \in 1 .. MaxAmount /\ row.fee \in Nat
      /\ pair \in Pairs
      /\ \A t \in pair : t \in Tokens /\ row.pool[t] \in 1 .. MaxAmount
  BY <1>1, InvTypes, PoolShape, HoldersFinite DEF Holders, Tokens
<1>4. row.supply + n \in 1 .. MaxAmount
  BY <1>1, <1>3, SupplyStaysPositive
<1>5. n # 0
  <2>1. PICK s, t \in Tokens : s # t /\ pair = {s, t}
    BY <1>3 DEF Pairs
  <2> QED
    BY <1>1, <2>1 DEF Computable
<1>6. \A t \in pair : pay(t) \in Int /\ row.pool[t] + pay(t) \in 1 .. MaxAmount
  <2> TAKE t \in pair
  <2>1. row.pool[t] \in Nat /\ row.pool[t] > 0 /\ row.supply \in Nat /\ row.supply > 0
    BY <1>3
  <2>2. pay(t) \in Int
    BY <1>5, <2>1, ComputeCovers
  <2>3. row.pool[t] + pay(t) \in Nat \ {0}
    <3>1. row.supply + n > 0
      BY <1>4
    <3> HIDE DEF row
    <3> QED
      BY <1>5, <2>1, <3>1, ReserveKeepsShare
  <2>4. row.pool[t] + pay(t) <= MaxAmount
    BY <1>1
  <2> HIDE DEF pay
  <2> QED
    BY <2>2, <2>3, <2>4
<1>7. new \in PoolType
  <2>1. after \in [pair -> 1 .. MaxAmount]
    BY <1>6
  <2> HIDE DEF after, pair, row
  <2> QED
    BY <1>3, <1>4, <2>1, NewPool
<1>8. /\ DOMAIN stat' = DOMAIN stat /\ stat'[e] = new
      /\ \A f \in DOMAIN stat \ {e} : stat'[f] = stat[f]
  <2> HIDE DEF new
  <2> QED
    BY <1>1, <1>2
<1>9. StatOK(stat')
  BY <1>7, <1>8, InvTypes DEF StatOK, IsTable
<1>10. /\ AccountsOK(accounts')
       /\ \A t : Row(accounts', <<Dex, t>>) = Row(accounts, <<Dex, t>>)
       /\ \A t : Held(accounts', t) =
                    IF t = e THEN Held(accounts, t) + n ELSE Held(accounts, t)
  BY <1>1, <1>2, <1>3, InvTypes, BalanceAdded, HeldAdded
<1>11. /\ DepositsOK(evodexacnts')
       /\ \A t : Deposited(evodexacnts', t) =
              Deposited(evodexacnts, t) + (IF t \in pair THEN -pay(t) ELSE 0)
  <2>1. \A t \in DOMAIN change : change[t] \in Int /\ CanAddExt(user, t, change[t])
    BY <1>1, <1>6
  <2>2. /\ DepositsOK(evodexacnts')
        /\ \A t : Deposited(evodexacnts', t) =
              Deposited(evodexacnts, t) + (IF t \in DOMAIN change THEN change[t] ELSE 0)
    <3> HIDE DEF change
    <3> QED
      BY <1>2, <2>1, InvTypes, ExtAdded
  <2> QED
    BY <2>2
<1>12. \A t : Held(accounts', t) = IF t = e THEN stat'[e].supply
                                            ELSE Held(accounts, t)
  <2>1. Held(accounts, e) = row.supply
    BY <1>1, <1>3 DEF Inv, SupplyIsHeld, SharesAddUp
  <2> QED
    BY <1>8, <1>10, <2>1
<1>13. \A t \in Tokens :
               Row(accounts', <<Dex, t>>) - Row(accounts, <<Dex, t>>) =
                   (Deposited(evodexacnts', t) - Deposited(evodexacnts, t))
                     + (Row(stat'[e].pool, t) - Row(row.pool, t))
  <2> TAKE t \in Tokens
  <2>1. /\ Row(accounts, <<Dex, t>>) \in Int
        /\ Deposited(evodexacnts, t) \in Int
        /\ Row(row.pool, t) \in Int
    BY <1>1, InvTypes, RowsAreInt, SumsAreNat, PoolShape
  <2>2. Row(accounts', <<Dex, t>>) - Row(accounts, <<Dex, t>>) = 0
    BY <1>10, <2>1
  <2>3. CASE t \in pair
    <3>1. Row(row.pool, t) = row.pool[t] /\ Row(stat'[e].pool, t) = row.pool[t] + pay(t)
      BY <1>8, <2>3 DEF Row
    <3>2. pay(t) \in Int /\ row.pool[t] \in Int
      BY <1>3, <1>6, <2>3
    <3>3. Deposited(evodexacnts', t) = Deposited(evodexacnts, t) + (-pay(t))
      BY <1>11, <2>3
    <3> HIDE DEF pay
    <3> QED
      BY <2>1, <2>2, <3>1, <3>2, <3>3
  <2>4. CASE t \notin pair
    <3>1. Row(row.pool, t) = 0 /\ Row(stat'[e].pool, t) = 0
      BY <1>8, <2>4 DEF Row
    <3>2. Deposited(evodexacnts', t) = Deposited(evodexacnts, t) + 0
      BY <1>11, <2>4
    <3> QED
      BY <2>1, <2>2, <3>1, <3>2
  <2> QED
    BY <2>3, <2>4
<1>14. ASSUME NEW s \in pair, NEW t \in pair
       PROVE  (stat'[e].pool[s] * stat'[e].pool[t]) * (row.supply * row.supply)
                >= (row.pool[s] * row.pool[t]) * (stat'[e].supply * stat'[e].supply)
  <2>1. /\ row.pool[s] \in Nat /\ row.pool[s] > 0
        /\ row.pool[t] \in Nat /\ row.pool[t] > 0
        /\ row.supply \in Nat /\ row.supply > 0 /\ row.supply + n > 0
    BY <1>3, <1>4
  <2>2. ((row.pool[s] + pay(s)) * (row.pool[t] + pay(t))) * (row.supply * row.supply)
           >= (row.pool[s] * row.pool[t]) * ((row.supply + n) * (row.supply + n))
    BY <1>5, <2>1, LiquidityKeepsValue
  <2>3. /\ stat'[e].pool[s] = row.pool[s] + pay(s)
        /\ stat'[e].pool[t] = row.pool[t] + pay(t)
        /\ stat'[e].supply = row.supply + n
    BY <1>8
  <2> HIDE DEF pay, row
  <2> QED
    BY <2>2, <2>3
<1> HIDE DEF pay, change, after, new
<1> QED
  BY <1>1, <1>2, <1>8, <1>9, <1>10, <1>11, <1>12, <1>13, <1>14, PoolMoves

-----------------------------------------------------------------------------
(***************************************************************************)
(* Exchange.                                                               *)
(***************************************************************************)
LEMMA ExchangedReserves ==
    ASSUME Inv, NEW e, NEW token, NEW n \in Int, NEW min, CanExchange(e, token, n, min)
    PROVE  LET pool  == stat[e].pool
               other == Other(e, token)
               after == PoolAfter(e, token, n)
           IN  /\ e \in DOMAIN stat /\ Out(e, token, n) \in Int
               /\ other # token /\ DOMAIN pool = {token, other}
               /\ token \in Tokens /\ other \in Tokens
               /\ after \in [DOMAIN pool -> 1 .. MaxAmount]
               /\ after[token] = pool[token] + n
               /\ after[other] = pool[other] - Out(e, token, n)
               /\ after[token] * after[other] >= pool[token] * pool[other]
<1> DEFINE pool  == stat[e].pool
           other == Other(e, token)
           out   == Out(e, token, n)
           after == PoolAfter(e, token, n)
           fee   == stat[e].fee
           pays  == Compute(-n, pool[other], pool[token] + n, fee)
<1>1. /\ e \in DOMAIN stat /\ token \in DOMAIN pool
      /\ Computable(-n, pool[other], pool[token] + n, fee)
      /\ pool[token] + n <= MaxAmount
      /\ pool[other] - out <= MaxAmount
  BY DEF CanExchange
<1>2. /\ DOMAIN pool \in Pairs /\ fee \in Nat
      /\ \A t \in DOMAIN pool : t \in Tokens /\ pool[t] \in 1 .. MaxAmount
  BY <1>1, InvTypes, PoolShape
<1>3. other \in DOMAIN pool /\ other # token /\ DOMAIN pool = {token, other}
  <2>1. PICK s, t \in Tokens : s # t /\ DOMAIN pool = {s, t}
    BY <1>2 DEF Pairs
  <2>2. \E x \in DOMAIN pool : x # token
    BY <1>1, <2>1
  <2>3. other \in DOMAIN pool /\ other # token
    BY <2>2 DEF Other
  <2> HIDE DEF other, pool
  <2> QED
    BY <1>1, <2>1, <2>3
<1>4. /\ pool[token] \in 1 .. MaxAmount /\ pool[other] \in 1 .. MaxAmount
      /\ token \in Tokens /\ other \in Tokens
  BY <1>2, <1>3
<1>5. n # 0 /\ -n # 0 /\ pool[token] + n > 0
  BY <1>1 DEF Computable
<1>6. /\ pays \in Int
      /\ pool[other] + pays \in Nat \ {0}
      /\ (pool[token] + n) * (pool[other] + pays) >= pool[token] * pool[other]
  <2>1. /\ pool[token] \in Nat /\ pool[token] > 0
        /\ pool[other] \in Nat /\ pool[other] > 0
        /\ pool[token] + n \in Nat /\ -n \in Int
    BY <1>4, <1>5
  <2> HIDE DEF pool, other, fee
  <2>2. pays \in Int
    BY <1>2, <1>5, <2>1, ComputeCovers
  <2> QED
    BY <1>2, <1>5, <2>1, <2>2, ExchangeKeepsValue
<1>7. out = -pays
  BY DEF Out
<1>8. out \in Int /\ pool[other] - out = pool[other] + pays
  <2> HIDE DEF out, pays, pool, other
  <2> QED
    BY <1>4, <1>6, <1>7
<1>9. pool[other] - out \in 1 .. MaxAmount /\ pool[token] + n \in 1 .. MaxAmount
  <2> HIDE DEF out, pays, pool, other
  <2> QED
    BY <1>1, <1>4, <1>5, <1>6, <1>8
<1>10. after = [t \in DOMAIN pool |-> IF t = token THEN pool[t] + n ELSE pool[t] - out]
  BY DEF PoolAfter
<1>11. after[token] = pool[token] + n /\ after[other] = pool[other] - out
  <2> HIDE DEF after, out, pool, other
  <2> QED
    BY <1>3, <1>10
<1>12. after \in [DOMAIN pool -> 1 .. MaxAmount]
  <2> HIDE DEF after, out, pool, other
  <2> QED
    BY <1>3, <1>9, <1>10
<1> HIDE DEF pool, other, out, after, fee, pays
<1>13. after[token] * after[other] >= pool[token] * pool[other]
  BY <1>6, <1>8, <1>11
<1> QED
  BY <1>1, <1>3, <1>4, <1>8, <1>11, <1>12, <1>13 DEF pool, other, out, after

LEMMA ExchangedPool ==
    ASSUME Inv, NEW e, NEW token, NEW n \in Int, NEW min, CanExchange(e, token, n, min),
           stat' = [stat EXCEPT ![e].pool = PoolAfter(e, token, n)]
    PROVE  LET other == Other(e, token)
               out   == Out(e, token, n)
           IN  /\ StatOK(stat') /\ DOMAIN stat' = DOMAIN stat
               /\ \A f \in DOMAIN stat \ {e} : stat'[f] = stat[f]
               /\ stat'[e].supply = stat[e].supply
               /\ \A t : Row(stat'[e].pool, t) - Row(stat[e].pool, t) =
                     CASE t = token -> n [] t = other -> -out [] OTHER -> 0
               /\ \A s, t \in DOMAIN stat[e].pool : s # t =>
                    (stat'[e].pool[s] * stat'[e].pool[t])
                        * (stat[e].supply * stat[e].supply)
                      >= (stat[e].pool[s] * stat[e].pool[t])
                           * (stat'[e].supply * stat'[e].supply)
<1> DEFINE pool  == stat[e].pool
           other == Other(e, token)
           out   == Out(e, token, n)
           after == PoolAfter(e, token, n)
           supply == stat[e].supply
<1>1. /\ e \in DOMAIN stat /\ out \in Int
      /\ other # token /\ DOMAIN pool = {token, other}
      /\ after \in [DOMAIN pool -> 1 .. MaxAmount]
      /\ after[token] = pool[token] + n
      /\ after[other] = pool[other] - out
      /\ after[token] * after[other] >= pool[token] * pool[other]
  <2>1. /\ e \in DOMAIN stat /\ out \in Int
        /\ other # token /\ DOMAIN pool = {token, other}
    BY ExchangedReserves
  <2>2. after \in [DOMAIN pool -> 1 .. MaxAmount]
    BY ExchangedReserves
  <2>3. after[token] = pool[token] + n /\ after[other] = pool[other] - out
    BY ExchangedReserves
  <2>4. after[token] * after[other] >= pool[token] * pool[other]
    BY ExchangedReserves
  <2> QED
    BY <2>1, <2>2, <2>3, <2>4
<1>2. /\ stat[e] \in PoolType
      /\ supply \in 1 .. MaxAmount /\ stat[e].fee \in Nat
      /\ DOMAIN pool \in Pairs
      /\ \A t \in DOMAIN pool : pool[t] \in 1 .. MaxAmount
  BY <1>1, InvTypes, PoolShape
<1>3. stat[e] = [supply |-> supply, fee |-> stat[e].fee, pool |-> pool]
  BY <1>2 DEF PoolType
<1> DEFINE new == [supply |-> supply, fee |-> stat[e].fee, pool |-> after]
<1>4. /\ DOMAIN stat' = DOMAIN stat
      /\ \A f \in DOMAIN stat \ {e} : stat'[f] = stat[f]
      /\ stat'[e].supply = supply /\ stat'[e].fee = stat[e].fee /\ stat'[e].pool = after
      /\ stat'[e] = new
  <2>1. stat' = [stat EXCEPT ![e] = [stat[e] EXCEPT !.pool = after]]
    OBVIOUS
  <2>2. [stat[e] EXCEPT !.pool = after] = new
    <3> HIDE DEF after
    <3> QED
      BY <1>2 DEF PoolType
  <2> HIDE DEF new
  <2>3. stat' = [stat EXCEPT ![e] = new]
    BY <2>1, <2>2
  <2>4. DOMAIN stat' = DOMAIN stat /\ stat'[e] = new
    BY <1>1, <2>3
  <2>5. \A f \in DOMAIN stat \ {e} : stat'[f] = stat[f]
    BY <2>3
  <2> QED
    BY <2>4, <2>5 DEF new
<1> HIDE DEF other, out, after
<1>5. StatOK(stat')
  <2>1. new \in PoolType
    <3> HIDE DEF pool, supply
    <3> QED
      BY <1>1, <1>2, NewPool
  <2> HIDE DEF new
  <2> QED
    BY <1>1, <1>4, <2>1, InvTypes DEF StatOK, IsTable
<1>6. \A t : Row(stat'[e].pool, t) - Row(pool, t) =
                     CASE t = token -> n [] t = other -> -out [] OTHER -> 0
  <2>1. DOMAIN after = DOMAIN pool
    BY <1>1
  <2>2. /\ Row(after, token) - Row(pool, token) = n
        /\ Row(after, other) - Row(pool, other) = -out
    BY <1>1, <1>2, <2>1 DEF Row
  <2>3. \A t : t # token /\ t # other => Row(after, t) - Row(pool, t) = 0
    BY <1>1, <2>1 DEF Row
  <2> QED
    BY <1>1, <1>4, <2>2, <2>3
<1>7. ASSUME NEW s \in DOMAIN pool, NEW t \in DOMAIN pool, s # t
      PROVE  (after[s] * after[t]) * (supply * supply)
               >= (pool[s] * pool[t]) * (supply * supply)
  <2>1. \A x \in DOMAIN pool : after[x] \in Nat /\ pool[x] \in Nat
    BY <1>1, <1>2
  <2>2. after[s] * after[t] >= pool[s] * pool[t]
    <3>1. CASE s = token /\ t = other
      BY <1>1, <3>1
    <3>2. CASE s = other /\ t = token
      BY <1>1, <2>1, <3>2
    <3> QED
      BY <1>1, <1>7, <3>1, <3>2
  <2>3. supply * supply \in Nat
    BY <1>2
  <2>4. after[s] * after[t] \in Nat /\ pool[s] * pool[t] \in Nat
    BY <2>1
  <2>5. \A a, b, c \in Nat : a >= b => a * c >= b * c
    OBVIOUS
  <2> QED
    BY <2>2, <2>3, <2>4, <2>5
<1> HIDE DEF new
<1> QED
  BY <1>4, <1>5, <1>6, <1>7 DEF other, out

LEMMA ExchangeKeeps ==
    ASSUME Inv, NEW user \in Users, NEW e, NEW token, NEW n \in Int, NEW min,
           Exchange(user, e, token, n, min)
    PROVE  Inv' /\ ValueKept
<1> DEFINE pool   == stat[e].pool
           other  == Other(e, token)
           out    == Out(e, token, n)
           change == [t \in DOMAIN pool |-> IF t = token THEN -n ELSE out]
<1>1. /\ CanExchange(e, token, n, min)
      /\ CanAddExt(user, token, -n)
      /\ CanAddExt(user, other, out)
      /\ evodexacnts' = AddExt(user, change)
      /\ stat' = [stat EXCEPT ![e].pool = PoolAfter(e, token, n)]
      /\ UNCHANGED <<accounts, evoindex>>
  BY DEF Exchange
<1>2. /\ e \in DOMAIN stat /\ out \in Int /\ e \in Evo
      /\ other # token /\ DOMAIN pool = {token, other}
  BY <1>1, ExchangedReserves, InvTypes, PoolShape
<1>3. /\ StatOK(stat') /\ DOMAIN stat' = DOMAIN stat
      /\ \A f \in DOMAIN stat \ {e} : stat'[f] = stat[f]
      /\ stat'[e].supply = stat[e].supply
      /\ \A t : Row(stat'[e].pool, t) - Row(stat[e].pool, t) =
                     CASE t = token -> n [] t = other -> -out [] OTHER -> 0
      /\ \A s, t \in DOMAIN stat[e].pool : s # t =>
            (stat'[e].pool[s] * stat'[e].pool[t]) * (stat[e].supply * stat[e].supply)
                      >= (stat[e].pool[s] * stat[e].pool[t])
                           * (stat'[e].supply * stat'[e].supply)
  BY <1>1, ExchangedPool
<1>4. /\ DepositsOK(evodexacnts')
      /\ \A t : Deposited(evodexacnts', t) = Deposited(evodexacnts, t)
            + (IF t \in DOMAIN change THEN change[t] ELSE 0)
  <2>1. \A t \in DOMAIN change : change[t] \in Int /\ CanAddExt(user, t, change[t])
    <3> HIDE DEF out, other
    <3> QED
      BY <1>1, <1>2
  <2> HIDE DEF change
  <2> QED
    BY <1>1, <2>1, InvTypes, ExtAdded
<1>5. \A t \in Tokens :
               Row(accounts', <<Dex, t>>) - Row(accounts, <<Dex, t>>) =
                   (Deposited(evodexacnts', t) - Deposited(evodexacnts, t))
                     + (Row(stat'[e].pool, t) - Row(stat[e].pool, t))
  <2> TAKE t \in Tokens
  <2>1. Row(accounts, <<Dex, t>>) \in Int /\ Deposited(evodexacnts, t) \in Int
    BY InvTypes, RowsAreInt, SumsAreNat
  <2>2. Row(accounts', <<Dex, t>>) - Row(accounts, <<Dex, t>>) = 0
    BY <1>1, <2>1
  <2> DEFINE d == IF t \in DOMAIN change THEN change[t] ELSE 0
             r == Row(stat'[e].pool, t) - Row(stat[e].pool, t)
  <2>3. d = (CASE t = token -> -n [] t = other -> out [] OTHER -> 0)
    <3> HIDE DEF out, other
    <3> QED
      BY <1>2
  <2>4. r = (CASE t = token -> n [] t = other -> -out [] OTHER -> 0)
    BY <1>3
  <2>5. Deposited(evodexacnts', t) = Deposited(evodexacnts, t) + d
    BY <1>4
  <2> HIDE DEF d, r, out, other
  <2>6. d \in Int /\ r = -d
    BY <1>2, <2>3, <2>4
  <2>7. 0 = (Deposited(evodexacnts', t) - Deposited(evodexacnts, t)) + r
    BY <2>1, <2>5, <2>6
  <2> QED
    BY <2>2, <2>7 DEF r
<1>6. \A t : Held(accounts', t) = IF t = e THEN stat'[e].supply
                                           ELSE Held(accounts, t)
  BY <1>1, <1>2, <1>3 DEF Inv, SupplyIsHeld, SharesAddUp
<1>7. AccountsOK(accounts')
  BY <1>1, InvTypes
<1> HIDE DEF change, out, other, pool
<1> QED
  BY <1>1, <1>2, <1>3, <1>4, <1>5, <1>6, <1>7, PoolMoves

LEMMA MemoExchangeKeeps ==
    ASSUME Inv, NEW from \in Users, NEW e, NEW token, NEW n \in Int, NEW min,
           MemoExchange(from, e, token, n, min)
    PROVE  Inv' /\ ValueKept
<1> DEFINE other == Other(e, token)
           out   == Out(e, token, n)
           paid  == Transferred(accounts, from, Dex, token, n)
<1>1. /\ CanTransfer(accounts, from, Dex, token, n)
      /\ CanExchange(e, token, n, min)
      /\ CanTransfer(paid, Dex, from, other, out)
      /\ accounts' = Transferred(paid, Dex, from, other, out)
      /\ stat' = [stat EXCEPT ![e].pool = PoolAfter(e, token, n)]
      /\ UNCHANGED <<evodexacnts, evoindex>>
  BY DEF MemoExchange
<1>2. /\ e \in DOMAIN stat /\ out \in Int /\ e \in Evo
      /\ other # token /\ token \in Tokens /\ other \in Tokens
  BY <1>1, ExchangedReserves, InvTypes, PoolShape
<1>3. /\ StatOK(stat') /\ DOMAIN stat' = DOMAIN stat
      /\ \A f \in DOMAIN stat \ {e} : stat'[f] = stat[f]
      /\ stat'[e].supply = stat[e].supply
      /\ \A t : Row(stat'[e].pool, t) - Row(stat[e].pool, t) =
                     CASE t = token -> n [] t = other -> -out [] OTHER -> 0
      /\ \A s, t \in DOMAIN stat[e].pool : s # t =>
            (stat'[e].pool[s] * stat'[e].pool[t]) * (stat[e].supply * stat[e].supply)
                      >= (stat[e].pool[s] * stat[e].pool[t])
                           * (stat'[e].supply * stat'[e].supply)
  BY <1>1, ExchangedPool
<1>4. from \in Holders /\ Dex \in Holders /\ from # Dex
  BY HoldersFinite DEF Holders
<1>5. /\ AccountsOK(paid)
      /\ \A t : Held(paid, t) = Held(accounts, t)
      /\ \A t : Row(paid, <<Dex, t>>) =
              IF t = token THEN Row(accounts, <<Dex, t>>) + n ELSE Row(accounts, <<Dex, t>>)
  BY <1>1, <1>2, <1>4, InvTypes, TransferMoves
<1> HIDE DEF paid, other, out
<1>6. /\ AccountsOK(accounts')
      /\ \A t : Held(accounts', t) = Held(paid, t)
      /\ \A t : Row(accounts', <<Dex, t>>) =
              IF t = other THEN Row(paid, <<Dex, t>>) - out ELSE Row(paid, <<Dex, t>>)
  BY <1>1, <1>2, <1>4, <1>5, TransferMoves
<1>7. \A t \in Tokens :
               Row(accounts', <<Dex, t>>) - Row(accounts, <<Dex, t>>) =
                   (Deposited(evodexacnts', t) - Deposited(evodexacnts, t))
                     + (Row(stat'[e].pool, t) - Row(stat[e].pool, t))
  <2> TAKE t \in Tokens
  <2> DEFINE r == Row(stat'[e].pool, t) - Row(stat[e].pool, t)
  <2>1. Row(accounts, <<Dex, t>>) \in Int /\ Deposited(evodexacnts, t) \in Int
    BY InvTypes, RowsAreInt, SumsAreNat
  <2>2. r = (CASE t = token -> n [] t = other -> -out [] OTHER -> 0)
    BY <1>3 DEF other, out
  <2>3. Deposited(evodexacnts', t) - Deposited(evodexacnts, t) = 0
    BY <1>1, <2>1
  <2> HIDE DEF r
  <2>4. r \in Int /\ Row(accounts', <<Dex, t>>) - Row(accounts, <<Dex, t>>) = r
    BY <1>2, <1>5, <1>6, <2>1, <2>2
  <2>5. Row(accounts', <<Dex, t>>) - Row(accounts, <<Dex, t>>) = 0 + r
    BY <2>4
  <2> QED
    BY <2>3, <2>5 DEF r
<1>8. \A t : Held(accounts', t) = IF t = e THEN stat'[e].supply
                                           ELSE Held(accounts, t)
  BY <1>2, <1>3, <1>5, <1>6 DEF Inv, SupplyIsHeld, SharesAddUp
<1>9. DepositsOK(evodexacnts')
  BY <1>1, InvTypes
<1> QED
  BY <1>1, <1>2, <1>3, <1>6, <1>7, <1>8, <1>9, PoolMoves

-----------------------------------------------------------------------------
(***************************************************************************)
(* Pools and pool tokens.                                                  *)
(***************************************************************************)

(* The root exists: it is below the least number with too large a square.  *)
LEMMA RootBounds ==
    ASSUME NEW m \in 1 .. InitMax - 1, NEW n \in 1 .. InitMax - 1
    PROVE  LET r == Root(m * n)
           IN  r \in 1 .. MaxAmount /\ r * r <= m * n /\ m * n < (r + 1) * (r + 1)
<1> DEFINE N == m * n
           T == {x \in Nat : N < x * x}
           I == InitMax - 1
<1>1. m \in Nat /\ n \in Nat /\ m >= 1 /\ n >= 1 /\ m <= I /\ n <= I /\ I \in Nat
  BY InputsAssumption, MaxAmountAssumption
<1>2. N \in Nat /\ N >= 1 /\ N <= I * I
  <2>1. N \in Nat
    BY <1>1
  <2>2. N >= 1
    BY <1>1
  <2>3. m * n <= I * n /\ I * n <= I * I
    BY <1>1
  <2>4. I * n \in Nat /\ I * I \in Nat
    BY <1>1
  <2> HIDE DEF I
  <2> QED
    BY <2>1, <2>2, <2>3, <2>4
<1> HIDE DEF N, I
<1>3. N + 1 \in T
  BY <1>2
<1>4. PICK x \in T : \A y \in T : x <= y
  <2> HIDE DEF T
  <2>1. T \subseteq Nat
    BY DEF T
  <2> QED
    BY <1>3, <2>1, Least
<1>5. x \in Nat /\ N < x * x /\ x # 0
  BY <1>2, <1>4
<1> DEFINE r == x - 1
<1>6. r \in Nat /\ x = r + 1
  BY <1>5
<1>7. r * r <= N
  <2>1. r \notin T
    BY <1>4, <1>5
  <2>2. r * r \in Nat
    BY <1>6
  <2> HIDE DEF r
  <2> QED
    BY <1>2, <1>6, <2>1, <2>2
<1> HIDE DEF r
<1>8. r \in 0 .. N
  <2>1. r <= r * r
    BY <1>6
  <2>2. r * r \in Nat
    BY <1>6
  <2> QED
    BY <1>2, <1>6, <1>7, <2>1, <2>2
<1>9. \E y \in 0 .. N : y * y <= N /\ N < (y + 1) * (y + 1)
  BY <1>5, <1>6, <1>7, <1>8
<1> DEFINE q == Root(N)
<1>10. q \in 0 .. N /\ q * q <= N /\ N < (q + 1) * (q + 1)
  BY <1>9 DEF Root
<1> HIDE DEF q
<1>11. q # 0
  BY <1>2, <1>10
<1>12. q <= I
  <2>1. SUFFICES ASSUME q > I PROVE FALSE
    BY <1>1, <1>2, <1>10
  <2>2. q \in Nat /\ q >= I + 1
    BY <1>1, <1>2, <1>10, <2>1
  <2>3. q * q >= (I + 1) * (I + 1) /\ (I + 1) * (I + 1) > I * I
    BY <1>1, <2>2
  <2>4. q * q \in Nat /\ I * I \in Nat /\ (I + 1) * (I + 1) \in Nat
    BY <1>1, <2>2
  <2> QED
    BY <1>2, <1>10, <2>3, <2>4
<1>13. I <= MaxAmount
  BY InputsAssumption, MaxAmountAssumption DEF I
<1> QED
  BY <1>1, <1>2, <1>10, <1>11, <1>12, <1>13, MaxAmountAssumption DEF q, N

LEMMA InitTokenKeeps ==
    ASSUME Inv, NEW user \in Users, NEW e \in Evo, NEW s \in Tokens, NEW m,
           NEW t \in Tokens, NEW n, InitToken(user, e, s, m, t, n)
    PROVE  Inv' /\ ValueKept
<1> DEFINE pair   == {s, t}
           root   == Root(m * n)
           pool   == [x \in pair |-> IF x = s THEN m ELSE n]
           new    == [supply |-> root, fee |-> DefaultFee, pool |-> pool]
           change == [x \in pair |-> IF x = s THEN -m ELSE -n]
<1>1. /\ m \in 1 .. InitMax - 1 /\ n \in 1 .. InitMax - 1
      /\ s # t /\ e \notin DOMAIN stat
      /\ CanAddExt(user, s, -m) /\ CanAddExt(user, t, -n)
      /\ stat' = Put(stat, e, new)
      /\ evoindex' = Put(evoindex, e, pair)
      /\ accounts' = AddBalance(accounts, user, e, root)
      /\ evodexacnts' = AddExt(user, change)
  BY DEF InitToken
<1>2. /\ user \in Holders /\ user # Dex /\ e \in Tokens /\ e \notin Plain
      /\ pair \in Pairs
  BY <1>1, HoldersFinite, NamesAssumption DEF Holders, Tokens, Pairs
<1>3. root \in 1 .. MaxAmount
  BY <1>1, RootBounds
<1>4. /\ m \in Int /\ n \in Int /\ InitMax <= MaxAmount
      /\ m \in 1 .. MaxAmount /\ n \in 1 .. MaxAmount
  BY <1>1, InputsAssumption, MaxAmountAssumption
<1> HIDE DEF root
<1>5. new \in PoolType
  <2>1. pool \in [pair -> 1 .. MaxAmount]
    BY <1>4
  <2>2. DefaultFee \in Nat
    BY DEF DefaultFee
  <2> HIDE DEF pool, pair
  <2> QED
    BY <1>2, <1>3, <2>1, <2>2, NewPool
<1>6. /\ DOMAIN stat' = DOMAIN stat \cup {e} /\ stat'[e] = new
      /\ \A f \in DOMAIN stat : stat'[f] = stat[f]
  <2> HIDE DEF new
  <2> QED
    BY <1>1 DEF Put
<1>7. StatOK(stat')
  <2> HIDE DEF new
  <2> QED
    BY <1>5, <1>6, InvTypes DEF StatOK, IsTable
<1>8. /\ AccountsOK(accounts')
      /\ \A x : Row(accounts', <<Dex, x>>) = Row(accounts, <<Dex, x>>)
      /\ \A x : Held(accounts', x) =
                    IF x = e THEN Held(accounts, x) + root ELSE Held(accounts, x)
  <2>1. root \in Int /\ Row(accounts, <<user, e>>) + root >= 0
    <3>1. Row(accounts, <<user, e>>) \in Nat
      BY InvTypes, RowsAreInt
    <3> QED
      BY <1>3, <3>1
  <2> QED
    BY <1>1, <1>2, <2>1, InvTypes, BalanceAdded, HeldAdded
<1>9. /\ DepositsOK(evodexacnts')
      /\ \A x : Deposited(evodexacnts', x) = Deposited(evodexacnts, x)
                    + (IF x \in DOMAIN change THEN change[x] ELSE 0)
  <2>1. \A x \in DOMAIN change : change[x] \in Int /\ CanAddExt(user, x, change[x])
    BY <1>1, <1>4
  <2> HIDE DEF change
  <2> QED
    BY <1>1, <2>1, InvTypes, ExtAdded
<1>10. TypeOK'
  <2>1. IsTable(evoindex', DOMAIN stat', Pairs)
    <3>1. IsTable(evoindex, DOMAIN stat', Pairs)
      BY <1>6, InvTypes DEF IsTable
    <3>2. e \in DOMAIN stat'
      BY <1>6
    <3> HIDE DEF pair
    <3> QED
      BY <1>1, <1>2, <3>1, <3>2, PutTable
  <2> QED
    BY <1>7, <1>8, <1>9, <2>1, TypesByTable DEF TypeOK
<1>11. SupplyIsHeld'
  <2>1. \A x \in Evo :
          Held(accounts, x) = IF x \in DOMAIN stat THEN stat[x].supply ELSE 0
    BY DEF Inv, SupplyIsHeld, SharesAddUp
  <2>2. Held(accounts', e) = stat'[e].supply
    BY <1>1, <1>3, <1>6, <1>8, <2>1
  <2>3. \A x \in Evo \ {e} :
          Held(accounts', x) = IF x \in DOMAIN stat' THEN stat'[x].supply ELSE 0
    BY <1>6, <1>8, <2>1
  <2> QED
    BY <1>6, <2>2, <2>3 DEF SupplyIsHeld, SharesAddUp
<1>12. Custody'
  <2>1. ASSUME NEW x \in Tokens
        PROVE  Row(accounts', <<Dex, x>>) = Deposited(evodexacnts', x) + Pooled(stat', x)
    <3> DEFINE d == IF x \in DOMAIN change THEN change[x] ELSE 0
               r == Row(stat'[e].pool, x)
    <3>1. Row(accounts', <<Dex, x>>) = Deposited(evodexacnts, x) + Pooled(stat, x)
      BY <1>8 DEF Inv, Custody, Covered
    <3>2. Deposited(evodexacnts, x) \in Nat
      BY InvTypes, SumsAreNat
    <3>3. Pooled(stat, x) \in Nat /\ Pooled(stat', x) = Pooled(stat, x) + r
      <4>1. StatOK(stat) /\ e \notin DOMAIN stat
        BY <1>1, InvTypes
      <4> HIDE DEF new
      <4> QED
        BY <1>6, <1>7, <4>1, PooledGrows
    <3>4. Deposited(evodexacnts', x) = Deposited(evodexacnts, x) + d
      BY <1>9
    <3>5. r \in Int /\ d = -r
      <4>1. r = IF x \in pair THEN pool[x] ELSE 0
        BY <1>6 DEF Row
      <4> QED
        BY <1>4, <4>1
    <3> HIDE DEF d, r
    <3> QED
      BY <3>1, <3>2, <3>3, <3>4, <3>5
  <2> QED
    BY <2>1 DEF Custody, Covered
<1>13. PlainFits'
  BY <1>2, <1>8 DEF Inv, PlainFits
<1>14. ValueKept
  BY <1>6, InvTypes, SameValue DEF ValueKept
<1> QED
  BY <1>10, <1>11, <1>12, <1>13, <1>14 DEF Inv

LEMMA IndexPairKeeps ==
    ASSUME Inv, NEW e \in Evo, IndexPair(e)
    PROVE  Inv' /\ ValueKept
<1> DEFINE pair == DOMAIN stat[e].pool
<1>1. /\ e \in DOMAIN stat
      /\ evoindex' = Put(evoindex, e, pair)
      /\ UNCHANGED <<stat, evodexacnts, accounts>>
  BY DEF IndexPair
<1>2. pair \in Pairs
  BY <1>1, InvTypes, PoolShape
<1> HIDE DEF pair
<1>3. IsTable(evoindex', DOMAIN stat', Pairs)
  BY <1>1, <1>2, InvTypes, PutTable
<1>4. TypeOK'
  BY <1>1, <1>3, InvTypes, TypesByTable DEF TypeOK
<1>5. SupplyIsHeld' /\ Custody' /\ PlainFits'
  BY <1>1 DEF Inv, SupplyIsHeld, Custody, PlainFits
<1>6. ValueKept
  BY <1>1, InvTypes, SameValue DEF ValueKept
<1> QED
  BY <1>4, <1>5, <1>6 DEF Inv

LEMMA ChangeFeeKeeps ==
    ASSUME Inv, NEW e \in Evo, NEW fee \in Nat, ChangeFee(e, fee)
    PROVE  Inv' /\ ValueKept
<1> DEFINE pool   == stat[e].pool
           supply == stat[e].supply
           new    == [supply |-> supply, fee |-> fee, pool |-> pool]
<1>1. /\ e \in DOMAIN stat
      /\ stat' = [stat EXCEPT ![e].fee = fee]
      /\ UNCHANGED <<evodexacnts, accounts, evoindex>>
  BY DEF ChangeFee
<1>2. /\ stat[e] \in PoolType /\ supply \in 1 .. MaxAmount
      /\ \A t \in DOMAIN pool : pool[t] \in 1 .. MaxAmount
  BY <1>1, InvTypes, PoolShape
<1>3. [stat[e] EXCEPT !.fee = fee] = new
  BY <1>2 DEF PoolType
<1>4. stat' = [stat EXCEPT ![e] = new]
  <2>1. stat' = [stat EXCEPT ![e] = [stat[e] EXCEPT !.fee = fee]]
    BY <1>1
  <2> HIDE DEF new
  <2> QED
    BY <1>3, <2>1
<1>5. new \in PoolType
  BY <1>2 DEF PoolType
<1>6. /\ DOMAIN stat' = DOMAIN stat /\ stat'[e] = new
      /\ \A f \in DOMAIN stat \ {e} : stat'[f] = stat[f]
  <2> HIDE DEF new
  <2> QED
    BY <1>1, <1>4
<1>7. StatOK(stat')
  <2> HIDE DEF new
  <2> QED
    BY <1>5, <1>6, InvTypes DEF StatOK, IsTable
<1>8. stat'[e].pool = pool /\ stat'[e].supply = supply
  BY <1>6
<1> HIDE DEF new
<1>9. AccountsOK(accounts') /\ DepositsOK(evodexacnts')
  BY <1>1, InvTypes
<1>10. \A t : Held(accounts', t) = IF t = e THEN stat'[e].supply ELSE Held(accounts, t)
  BY <1>1, <1>8 DEF Inv, SupplyIsHeld, SharesAddUp
<1>11. \A t \in Tokens :
               Row(accounts', <<Dex, t>>) - Row(accounts, <<Dex, t>>) =
                   (Deposited(evodexacnts', t) - Deposited(evodexacnts, t))
                     + (Row(stat'[e].pool, t) - Row(pool, t))
  <2> TAKE t \in Tokens
  <2>1. /\ Row(accounts, <<Dex, t>>) \in Int /\ Deposited(evodexacnts, t) \in Int
        /\ Row(pool, t) \in Int
    <3>1. Row(accounts, <<Dex, t>>) \in Int /\ Deposited(evodexacnts, t) \in Int
      BY InvTypes, RowsAreInt, SumsAreNat
    <3>2. Row(pool, t) \in Int
      BY <1>1, InvTypes, PoolShape
    <3> QED
      BY <3>1, <3>2
  <2>2. \A a, b, c \in Int : a - a = (b - b) + (c - c)
    OBVIOUS
  <2> HIDE DEF pool
  <2> QED
    BY <1>1, <1>8, <2>1, <2>2
<1>12. \A s, t \in DOMAIN pool :
         (stat'[e].pool[s] * stat'[e].pool[t]) * (supply * supply)
           >= (pool[s] * pool[t]) * (stat'[e].supply * stat'[e].supply)
  BY <1>1, <1>8, InvTypes, SameValue
<1> QED
  BY <1>1, <1>6, <1>7, <1>9, <1>10, <1>11, <1>12, PoolMoves

-----------------------------------------------------------------------------
(***************************************************************************)
(* The invariant is one, and no step lowers a pool's value.                *)
(***************************************************************************)
LEMMA InitInv ==
    ASSUME Init
    PROVE  Inv
  BY StartAssumption DEF Init, Inv, TypeOK, SupplyIsHeld, Custody, PlainFits

LEMMA AmountsAreNat == \A t \in Tokens : Amounts[t] \subseteq Nat \ {0}
  BY InputsAssumption

LEMMA NextKeeps ==
    ASSUME Inv, [Next]_vars
    PROVE  Inv' /\ ValueKept
<1>1. CASE Depositing
  <2>1. CASE \E row \in ExtRows :
                 \/ OpenExt(row[1], row[2])
                 \/ \E to \in Users : CloseExt(row[1], to, row[2])
    <3>1. PICK row \in ExtRows :
                 \/ OpenExt(row[1], row[2])
                 \/ \E to \in Users : CloseExt(row[1], to, row[2])
      BY <2>1
    <3>2. row[1] \in Users /\ row[2] \in Tokens
      BY InputsAssumption
    <3> QED
      BY <3>1, <3>2, OpenExtKeeps, CloseExtKeeps
  <2>2. CASE \E u, to \in Users, t \in Tokens : \E n \in Amounts[t] :
                 Deposit(u, to, t, n) \/ Withdraw(u, to, t, n)
    BY <2>2, DepositKeeps, WithdrawKeeps
  <2> QED
    BY <1>1, <2>1, <2>2 DEF Depositing
<1>2. CASE Providing
  <2>1. PICK u \in Users, e \in DOMAIN stat :
            \E n \in Amounts[e], l \in [DOMAIN stat[e].pool -> Limits] :
                AddLiquidity(u, e, n, l) \/ RemLiquidity(u, e, n, l)
    BY <1>2 DEF Providing
  <2>2. \A n \in Amounts[e] : n \in Int /\ -n \in Int
    BY InvTypes, PoolShape, AmountsAreNat DEF Tokens
  <2>3. AddLiquidityFee \in Nat /\ 0 \in Nat
    BY DEF AddLiquidityFee
  <2> QED
    BY <2>1, <2>2, <2>3, LiquidityKeeps DEF AddLiquidity, RemLiquidity
<1>3. CASE Trading
  <2>1. PICK u \in Users, e \in DOMAIN stat, l \in Limits :
            \E t \in DOMAIN stat[e].pool : \E n \in Amounts[t] :
                \/ Exchange(u, e, t, n, l) \/ Exchange(u, e, t, -n, -l)
                \/ MemoExchange(u, e, t, n, l)
    BY <1>3 DEF Trading
  <2>2. \A t \in DOMAIN stat[e].pool : \A n \in Amounts[t] : n \in Int /\ -n \in Int
    BY InvTypes, PoolShape, AmountsAreNat
  <2> QED
    BY <2>1, <2>2, ExchangeKeeps, MemoExchangeKeeps
<1>4. CASE Governing
  <2>1. CASE \E u \in Users, e \in Evo, s, t \in Tokens :
                 \E m \in Amounts[s], n \in Amounts[t] : InitToken(u, e, s, m, t, n)
    BY <2>1, InitTokenKeeps
  <2>2. CASE \E e \in Evo : IndexPair(e)
    BY <2>2, IndexPairKeeps
  <2>3. CASE \E e \in Evo, fee \in Fees : ChangeFee(e, fee)
    BY <2>3, InputsAssumption, ChangeFeeKeeps
  <2> QED
    BY <1>4, <2>1, <2>2, <2>3 DEF Governing
<1>5. CASE Holding
  BY <1>5, HoldingKeeps
<1>6. CASE UNCHANGED vars
  <2>1. UNCHANGED <<stat, evodexacnts, accounts, evoindex>>
    BY <1>6 DEF vars
  <2>2. Inv'
    BY <2>1 DEF Inv, TypeOK, SupplyIsHeld, Custody, PlainFits
  <2>3. ValueKept
    BY <2>1, InvTypes, SameValue DEF ValueKept
  <2> QED
    BY <2>2, <2>3
<1> QED
  BY <1>1, <1>2, <1>3, <1>4, <1>5, <1>6 DEF Next

(* What is in a pool and in a deposit is in the custody of the contract,   *)
(* and never more than an amount can say.                                  *)
LEMMA DepositAndReserveFit ==
    ASSUME Inv, NEW user \in Users, NEW e \in DOMAIN stat, NEW t \in DOMAIN stat[e].pool
    PROVE  Row(evodexacnts, <<user, t>>) + stat[e].pool[t] <= MaxAmount
<1> DEFINE f == [u \in Users |-> Row(evodexacnts, <<u, t>>)]
           g == [d \in DOMAIN stat |-> Row(stat[d].pool, t)]
           S == DOMAIN stat
<1>1. t \in Tokens /\ stat[e].pool[t] \in Nat /\ Row(stat[e].pool, t) = stat[e].pool[t]
  BY InvTypes, PoolShape DEF Row
<1>2. /\ Deposited(evodexacnts, t) = SumFunctionOnSet(f, Users)
      /\ Pooled(stat, t) = SumFunctionOnSet(g, S)
      /\ f[user] = Row(evodexacnts, <<user, t>>) /\ g[e] = Row(stat[e].pool, t)
      /\ e \in S
  BY DEF Deposited, Pooled
<1>3. \A u \in Users : f[u] \in Nat
  BY InvTypes, RowsAreInt
<1>4. \A d \in S : g[d] \in Nat
  BY InvTypes, PoolShape
<1>5. IsFiniteSet(S)
  BY NamesAssumption, InvTypes, FS_Subset DEF StatOK, IsTable
<1> HIDE DEF f, g, S
<1>6. f[user] <= SumFunctionOnSet(f, Users) /\ g[e] <= SumFunctionOnSet(g, S)
  BY <1>2, <1>3, <1>4, <1>5, HoldersFinite, SumAtLeast
<1>7. Row(accounts, <<Dex, t>>) = Deposited(evodexacnts, t) + Pooled(stat, t)
  BY <1>1 DEF Inv, Custody, Covered
<1>8. /\ Dex \in Holders
      /\ Row(accounts, <<Dex, t>>) <= Held(accounts, t) /\ Held(accounts, t) \in Nat
      /\ Row(accounts, <<Dex, t>>) \in Nat
  BY InvTypes, HeldIsNat, RowsAreInt DEF Holders
<1>9. Held(accounts, t) <= MaxAmount
  <2>1. CASE t \in Plain
    BY <2>1 DEF Inv, PlainFits
  <2>2. CASE t \in Evo
    <3>1. Held(accounts, t) = IF t \in DOMAIN stat THEN stat[t].supply ELSE 0
      BY <2>2 DEF Inv, SupplyIsHeld, SharesAddUp
    <3>2. t \in DOMAIN stat => stat[t].supply \in 1 .. MaxAmount
      BY InvTypes, PoolShape
    <3> QED
      BY <3>1, <3>2, MaxAmountAssumption
  <2> QED
    BY <1>1, <2>1, <2>2 DEF Tokens
<1>10. Deposited(evodexacnts, t) \in Nat /\ Pooled(stat, t) \in Nat
  BY InvTypes, SumsAreNat
<1>11. f[user] \in Nat /\ g[e] \in Nat
  BY <1>2, <1>3, <1>4
<1> QED
  BY <1>1, <1>2, <1>6, <1>7, <1>8, <1>9, <1>10, <1>11, MaxAmountAssumption

LEMMA InvRedeemable ==
    ASSUME Inv
    PROVE  Redeemable
<1> SUFFICES ASSUME NEW e \in DOMAIN stat, NEW u \in Users,
                    \A t \in DOMAIN stat[e].pool : <<u, t>> \in DOMAIN evodexacnts,
                    NEW n \in 1 .. Row(accounts, <<u, e>>),
                    NEW t \in DOMAIN stat[e].pool, n < stat[e].supply
             PROVE  LET x == Compute(-n, stat[e].pool[t], stat[e].supply, 0)
                    IN  /\ Computable(-n, stat[e].pool[t], stat[e].supply, 0)
                        /\ x <= 0
                        /\ CanAddExt(u, t, -x)
                        /\ stat[e].pool[t] + x > 0
  BY DEF Redeemable
<1> DEFINE reserve == stat[e].pool[t]
           supply  == stat[e].supply
           c       == Compute(-n, reserve, supply, 0)
           rate    == Rate(-n, reserve, supply)
           row     == evodexacnts[<<u, t>>]
<1>1. /\ reserve \in 1 .. MaxAmount /\ supply \in 1 .. MaxAmount
      /\ <<u, t>> \in DOMAIN evodexacnts
      /\ row \in 0 .. MaxAmount /\ Row(evodexacnts, <<u, t>>) = row
  <2>1. reserve \in 1 .. MaxAmount /\ supply \in 1 .. MaxAmount
    BY InvTypes, PoolShape
  <2> QED
    BY <2>1, InvTypes DEF DepositsOK, IsTable, Row
<1>2. row + reserve <= MaxAmount
  BY <1>1, DepositAndReserveFit
<1>3. n \in Nat /\ n > 0 /\ n < supply
  <2>1. Row(accounts, <<u, e>>) \in Nat
    BY InvTypes, RowsAreInt
  <2> QED
    BY <2>1
<1> HIDE DEF reserve, supply, row
<1>4. -c \in 0 .. reserve - 1
  BY <1>1, <1>3, RedeemingPaysAPart
<1>5. rate \in Int /\ rate <= 0
  <2>1. -n \in Int /\ -n # 0 /\ -n < 0
    BY <1>3
  <2>2. reserve \in Nat /\ reserve > 0 /\ supply \in Nat /\ supply > 0
    BY <1>1
  <2> QED
    BY <2>1, <2>2, RateCovers
<1>6. FeeOn(rate, 0) = 0
  <2> HIDE DEF rate
  <2>1. FeeOn(rate, 0) = 9999 \div 10000
    BY <1>5 DEF FeeOn, FeeBase
  <2> QED
    BY <2>1
<1>7. c = rate
  BY <1>5, <1>6 DEF Compute
<1> HIDE DEF c, rate
<1>8. c \in Int /\ c <= 0 /\ reserve + c > 0 /\ -c <= reserve
  BY <1>1, <1>4, <1>5, <1>7
<1>9. Computable(-n, reserve, supply, 0)
  <2>1. /\ -n # 0 /\ reserve > 0 /\ supply > 0
        /\ rate \in -MaxAmount .. MaxAmount
        /\ rate + 0 <= MaxAmount
    BY <1>1, <1>3, <1>5, <1>7, <1>8, MaxAmountAssumption
  <2> QED
    BY <1>6, <2>1 DEF Computable, rate
<1>10. CanAddExt(u, t, -c)
  <2>1. row + (-c) \in 0 .. MaxAmount
    BY <1>1, <1>2, <1>8, MaxAmountAssumption
  <2> QED
    BY <1>1, <2>1 DEF CanAddExt, row
<1> QED
  BY <1>8, <1>9, <1>10 DEF reserve, supply, c

LEMMA AlwaysInv == Spec => []Inv
<1>1. Inv /\ [Next]_vars => Inv'
  BY NextKeeps
<1> QED
  BY <1>1, InitInv, PTL DEF Spec

(* Every balance and deposit is covered, every amount and reserve is in    *)
(* the range of an asset, and no pool or supply is ever empty, whatever is *)
(* deposited, exchanged, bought and sold.                                  *)
THEOREM TypesHold == Spec => []TypeOK
<1>1. Inv => TypeOK
  BY DEF Inv
<1> QED
  BY <1>1, AlwaysInv, PTL

(* The supply of a pool token is always the sum of its balances: sub- and  *)
(* add_balance, add_signed_liq and inittoken lose no share.                *)
THEOREM SharesHold == Spec => []SupplyIsHeld
<1>1. Inv => SupplyIsHeld
  BY DEF Inv
<1> QED
  BY <1>1, AlwaysInv, PTL

(* The contract always holds exactly the deposits and the reserves, of     *)
(* every token, a pool token or not.                                       *)
THEOREM CustodyHolds == Spec => []Custody
<1>1. Inv => Custody
  BY DEF Inv
<1> QED
  BY <1>1, AlwaysInv, PTL

(* Whoever holds pool tokens can always sell any part of them but the last *)
(* of the supply (remliquidity).                                           *)
THEOREM SharesCanBeSold == Spec => []Redeemable
<1>1. Inv => Redeemable
  BY InvRedeemable
<1> QED
  BY <1>1, AlwaysInv, PTL

(* No step lowers the product of the reserves over the square of the       *)
(* supply: process_exch and add_signed_liq round in favour of the pool.    *)
THEOREM ValueNeverFalls == Spec => PoolValueGrows
<1>1. Inv /\ [Next]_vars => ValueKept
  BY NextKeeps
<1> QED
  BY <1>1, AlwaysInv, PTL DEF Spec, PoolValueGrows

-----------------------------------------------------------------------------
(***************************************************************************)
(* The index: a pair never has two pools in it.                            *)
(***************************************************************************)

(* Only indexed pools that exist are in the index, and every row of the    *)
(* stat table keeps its reserves, whatever an action changes in it.        *)
IndexInv ==
    /\ DOMAIN evoindex \subseteq DOMAIN stat
    /\ \A e \in DOMAIN stat : "pool" \in DOMAIN stat[e]
    /\ OnePoolPerPair

(* What an action does that leaves the index alone: no pool disappears, and*)
(* none gets other tokens.                                                 *)
PairsKept ==
    /\ DOMAIN stat' = DOMAIN stat
    /\ \A e \in DOMAIN stat : /\ "pool" \in DOMAIN stat'[e]
                              /\ DOMAIN stat'[e].pool = DOMAIN stat[e].pool
    /\ evoindex' = evoindex

LEMMA KeptPairsKeepIndex ==
    ASSUME IndexInv, PairsKept
    PROVE  IndexInv'
  BY DEF IndexInv, PairsKept, OnePoolPerPair

LEMMA InitIndex ==
    ASSUME Init
    PROVE  IndexInv
<1>1. DOMAIN Index0 \subseteq DOMAIN Stat0 /\ \A e \in DOMAIN Stat0 : Stat0[e] \in PoolType
  BY StartAssumption DEF TablesOK, IsTable
<1>2. \A e \in DOMAIN Stat0 : "pool" \in DOMAIN Stat0[e]
  BY <1>1 DEF PoolType
<1> QED
  BY <1>1, <1>2, IndexAssumption DEF Init, IndexInv, OnePoolPerPair

(* Deposits, withdrawals, and the functions of pool tokens. *)
LEMMA TokensKeepPairs ==
    ASSUME IndexInv, UNCHANGED <<stat, evoindex>>
    PROVE  PairsKept
  BY DEF IndexInv, PairsKept

LEMMA LiquidityKeepsPairs ==
    ASSUME IndexInv, NEW user, NEW e, NEW n, NEW fee, NEW limit,
           AddSignedLiq(user, e, n, fee, limit)
    PROVE  PairsKept
<1> DEFINE row  == stat[e]
           pair == DOMAIN row.pool
           new  == [supply |-> NewSupply(row.supply, n), fee |-> row.fee,
                    pool |-> [t \in pair |->
                        row.pool[t] + Compute(n, row.pool[t], row.supply, fee)]]
<1>1. stat' = [stat EXCEPT ![e] = new] /\ UNCHANGED evoindex
  BY DEF AddSignedLiq
<1>2. "pool" \in DOMAIN new /\ DOMAIN new.pool = pair
  OBVIOUS
<1> HIDE DEF new
<1>3. DOMAIN stat' = DOMAIN stat
  BY <1>1
<1>4. ASSUME NEW f \in DOMAIN stat
      PROVE  /\ "pool" \in DOMAIN stat'[f]
             /\ DOMAIN stat'[f].pool = DOMAIN stat[f].pool
  <2>1. CASE f = e
    BY <1>1, <1>2, <2>1
  <2>2. CASE f # e
    BY <1>1, <2>2 DEF IndexInv
  <2> QED
    BY <2>1, <2>2
<1> QED
  BY <1>1, <1>3, <1>4 DEF PairsKept

LEMMA NewReservesKeepPairs ==
    ASSUME IndexInv, NEW e, NEW token, NEW n, UNCHANGED evoindex,
           stat' = [stat EXCEPT ![e].pool = PoolAfter(e, token, n)]
    PROVE  PairsKept
<1> DEFINE reserves == PoolAfter(e, token, n)
           new == [stat[e] EXCEPT !.pool = reserves]
<1>1. stat' = [stat EXCEPT ![e] = new]
  OBVIOUS
<1>2. DOMAIN reserves = DOMAIN stat[e].pool
  BY DEF PoolAfter
<1> HIDE DEF reserves
<1>3. e \in DOMAIN stat => "pool" \in DOMAIN new /\ new.pool = reserves
  BY DEF IndexInv
<1> HIDE DEF new
<1>4. DOMAIN stat' = DOMAIN stat
  BY <1>1
<1>5. ASSUME NEW f \in DOMAIN stat
      PROVE  /\ "pool" \in DOMAIN stat'[f]
             /\ DOMAIN stat'[f].pool = DOMAIN stat[f].pool
  <2>1. CASE f = e
    BY <1>1, <1>2, <1>3, <2>1
  <2>2. CASE f # e
    BY <1>1, <2>2 DEF IndexInv
  <2> QED
    BY <2>1, <2>2
<1> QED
  BY <1>4, <1>5 DEF PairsKept

LEMMA FeeKeepsPairs ==
    ASSUME IndexInv, NEW e, NEW fee, ChangeFee(e, fee)
    PROVE  PairsKept
<1> DEFINE new == [stat[e] EXCEPT !.fee = fee]
<1>1. stat' = [stat EXCEPT ![e] = new] /\ UNCHANGED evoindex /\ e \in DOMAIN stat
  BY DEF ChangeFee
<1>2. "pool" \in DOMAIN new /\ new.pool = stat[e].pool
  BY <1>1 DEF IndexInv
<1> HIDE DEF new
<1> QED
  BY <1>1, <1>2 DEF PairsKept, IndexInv

(* A pool comes into the index only while no other has its pair there.     *)
LEMMA InitTokenKeepsIndex ==
    ASSUME IndexInv, NEW user, NEW e, NEW s, NEW m, NEW t, NEW n,
           InitToken(user, e, s, m, t, n)
    PROVE  IndexInv'
<1> DEFINE pair == {s, t}
           new == [supply |-> Root(m * n), fee |-> DefaultFee,
                   pool |-> [x \in pair |-> IF x = s THEN m ELSE n]]
<1>1. /\ e \notin DOMAIN stat
      /\ ~PairIndexed(e, pair)
      /\ stat' = Put(stat, e, new)
      /\ evoindex' = Put(evoindex, e, pair)
  BY DEF InitToken
<1>2. "pool" \in DOMAIN new /\ DOMAIN new.pool = pair
  OBVIOUS
<1> HIDE DEF new, pair
<1>3. /\ DOMAIN stat' = DOMAIN stat \cup {e}
      /\ stat'[e] = new
      /\ \A f \in DOMAIN stat : stat'[f] = stat[f]
  BY <1>1 DEF Put
<1>4. /\ DOMAIN evoindex' = DOMAIN evoindex \cup {e}
      /\ e \notin DOMAIN evoindex
      /\ evoindex'[e] = pair
      /\ \A f \in DOMAIN evoindex : evoindex'[f] = evoindex[f] /\ evoindex[f] # pair
  BY <1>1 DEF Put, PairIndexed, IndexInv
<1> QED
  BY <1>2, <1>3, <1>4 DEF IndexInv, OnePoolPerPair

LEMMA IndexPairKeepsIndex ==
    ASSUME IndexInv, NEW e, IndexPair(e)
    PROVE  IndexInv'
<1> DEFINE pair == DOMAIN stat[e].pool
<1>1. /\ e \in DOMAIN stat /\ e \notin DOMAIN evoindex
      /\ ~PairIndexed(e, pair)
      /\ evoindex' = Put(evoindex, e, pair)
      /\ stat' = stat
  BY DEF IndexPair
<1> HIDE DEF pair
<1>2. /\ DOMAIN evoindex' = DOMAIN evoindex \cup {e}
      /\ evoindex'[e] = pair
      /\ \A f \in DOMAIN evoindex : evoindex'[f] = evoindex[f] /\ evoindex[f] # pair
  BY <1>1 DEF Put, PairIndexed
<1> QED
  BY <1>1, <1>2 DEF IndexInv, OnePoolPerPair, pair

LEMMA NextIndex ==
    ASSUME IndexInv, [Next]_vars
    PROVE  IndexInv'
<1>1. CASE Depositing
  <2>1. \A u, t : OpenExt(u, t) => UNCHANGED <<stat, evoindex>>
    BY DEF OpenExt
  <2>2. \A u, to, t : CloseExt(u, to, t) => UNCHANGED <<stat, evoindex>>
    BY DEF CloseExt
  <2>3. \A u, to, t, n :
            Deposit(u, to, t, n) \/ Withdraw(u, to, t, n) => UNCHANGED <<stat, evoindex>>
    BY DEF Deposit, Withdraw
  <2>4. UNCHANGED <<stat, evoindex>>
    BY <1>1, <2>1, <2>2, <2>3 DEF Depositing
  <2> QED
    BY <2>4, TokensKeepPairs, KeptPairsKeepIndex
<1>2. CASE Providing
  <2>1. PICK u \in Users, e \in DOMAIN stat :
            \E n \in Amounts[e], l \in [DOMAIN stat[e].pool -> Limits] :
                AddLiquidity(u, e, n, l) \/ RemLiquidity(u, e, n, l)
    BY <1>2 DEF Providing
  <2>2. PairsKept
    BY <2>1, LiquidityKeepsPairs DEF AddLiquidity, RemLiquidity
  <2> QED
    BY <2>2, KeptPairsKeepIndex
<1>3. CASE Trading
  <2>1. PICK e, t, n :
            /\ stat' = [stat EXCEPT ![e].pool = PoolAfter(e, t, n)]
            /\ UNCHANGED evoindex
    BY <1>3 DEF Trading, Exchange, MemoExchange
  <2>2. PairsKept
    BY <2>1, NewReservesKeepPairs
  <2> QED
    BY <2>2, KeptPairsKeepIndex
<1>4. CASE Governing
  <2>1. CASE \E u \in Users, e \in Evo, s, t \in Tokens :
                 \E m \in Amounts[s], n \in Amounts[t] : InitToken(u, e, s, m, t, n)
    BY <2>1, InitTokenKeepsIndex
  <2>2. CASE \E e \in Evo : IndexPair(e)
    BY <2>2, IndexPairKeepsIndex
  <2>3. CASE \E e \in Evo, fee \in Fees : ChangeFee(e, fee)
    BY <2>3, FeeKeepsPairs, KeptPairsKeepIndex
  <2> QED
    BY <1>4, <2>1, <2>2, <2>3 DEF Governing
<1>5. CASE Holding
  <2>1. UNCHANGED <<stat, evoindex>>
    BY <1>5 DEF Holding, Transfer, Open, Close
  <2> QED
    BY <2>1, TokensKeepPairs, KeptPairsKeepIndex
<1>6. CASE UNCHANGED vars
  BY <1>6, TokensKeepPairs, KeptPairsKeepIndex DEF vars
<1> QED
  BY <1>1, <1>2, <1>3, <1>4, <1>5, <1>6 DEF Next

(* No pair of tokens, in whichever order, ever has two pools in the index, *)
(* and the index always says what its pools are made of (placeindex).      *)
THEOREM IndexIsUnique == Spec => []OnePoolPerPair
<1>1. Init => IndexInv
  BY InitIndex
<1>2. IndexInv /\ [Next]_vars => IndexInv'
  BY NextIndex
<1>3. IndexInv => OnePoolPerPair
  BY DEF IndexInv
<1> QED
  BY <1>1, <1>2, <1>3, PTL DEF Spec
-----------------------------------------------------------------------------
(***************************************************************************)
(* The market.  What a user owns is on his accounts and in his deposits:   *)
(* both are followed row by row, and their sum is what PoolMarket speaks   *)
(* of.  The actions between users come first, then those with a pool.      *)
(***************************************************************************)
Owns(balances, deposits, u, t) == Row(balances, <<u, t>>) + Row(deposits, <<u, t>>)

(* What a user owns, and what he gets by a step. *)
Has(u, t) == Owns(accounts, evodexacnts, u, t)

LEMMA OwnedIs ==
    ASSUME NEW balances, NEW deposits, NEW u \in Users, NEW t \in Tokens
    PROVE  Owned(balances, deposits)[u][t] = Owns(balances, deposits, u, t)
  BY DEF Owned, Owns

LEMMA NextTypes ==
    ASSUME Inv'
    PROVE  AccountsOK(accounts') /\ DepositsOK(evodexacnts') /\ StatOK(stat')
  BY TypesByTable DEF Inv, TypeOK

LEMMA OwnsIsNat ==
    ASSUME NEW a, AccountsOK(a), NEW d, DepositsOK(d)
    PROVE  \A u, t : Owns(a, d, u, t) \in Nat
<1> TAKE u, t
<1> DEFINE held == Row(a, <<u, t>>)
           put  == Row(d, <<u, t>>)
<1>1. held \in Nat /\ put \in Nat
  BY RowsAreInt
<1>2. Owns(a, d, u, t) = held + put
  BY DEF Owns
<1> HIDE DEF held, put
<1> QED
  BY <1>1, <1>2

LEMMA OwnedType ==
    ASSUME NEW a, AccountsOK(a), NEW d, DepositsOK(d)
    PROVE  Owned(a, d) \in [Users -> [Tokens -> Nat]]
<1>1. \A u, t : Row(a, <<u, t>>) + Row(d, <<u, t>>) \in Nat
  BY OwnsIsNat DEF Owns
<1> QED
  BY <1>1 DEF Owned

(* The deposits of one user change, by what he gets of each token.         *)
Gets(u, t, user, change) == IF u = user /\ t \in DOMAIN change THEN change[t] ELSE 0

LEMMA ExtRow ==
    ASSUME DepositsOK(evodexacnts), NEW user \in Users, NEW change,
           \A t \in DOMAIN change : change[t] \in Int /\ CanAddExt(user, t, change[t])
    PROVE  \A u, t : Row(AddExt(user, change), <<u, t>>) =
                Row(evodexacnts, <<u, t>>) + Gets(u, t, user, change)
<1> TAKE u, t
<1> DEFINE new == AddExt(user, change)
           k   == <<u, t>>
<1>1. /\ DOMAIN new = DOMAIN evodexacnts
      /\ k \in DOMAIN evodexacnts => new[k] =
            IF u = user /\ t \in DOMAIN change
            THEN evodexacnts[k] + change[t] ELSE evodexacnts[k]
  BY DEF AddExt
<1>2. u = user /\ t \in DOMAIN change => k \in DOMAIN evodexacnts
  BY DEF CanAddExt
<1>3. k \in DOMAIN evodexacnts => evodexacnts[k] \in Int
  BY DEF DepositsOK, IsTable
<1> HIDE DEF new, k
<1>4. CASE k \in DOMAIN evodexacnts
  BY <1>1, <1>3, <1>4 DEF Row, Gets, new, k
<1>5. CASE k \notin DOMAIN evodexacnts
  BY <1>1, <1>2, <1>5 DEF Row, Gets, new, k
<1> QED
  BY <1>4, <1>5

(* One user gives, another gets. *)
LEMMA GiveStep ==
    ASSUME Inv, Inv', UNCHANGED stat, NEW a \in Users, NEW b \in Users, NEW t \in Tokens,
           NEW n \in Nat,
           \A u \in Users, x \in Tokens :
               Has(u, x)' = Has(u, x) + (IF x = t /\ u = b THEN n ELSE 0)
                                      - (IF x = t /\ u = a THEN n ELSE 0)
    PROVE  [Market!Next]_Market!vars
<1> DEFINE w  == Owned(accounts, evodexacnts)
           w2 == Owned(accounts', evodexacnts')
<1>1. w \in [Users -> [Tokens -> Nat]] /\ w2 \in [Users -> [Tokens -> Nat]]
  BY InvTypes, NextTypes, OwnedType
<1>2. \A u \in Users, x \in Tokens :
         w2[u][x] = w[u][x] + (IF x = t /\ u = b THEN n ELSE 0)
                            - (IF x = t /\ u = a THEN n ELSE 0)
  BY OwnedIs DEF Has
<1>3. UNCHANGED PoolsOf(stat)
  OBVIOUS
<1>4. CASE a = b \/ n = 0
  <2>1. \A u \in Users, x \in Tokens : w2[u][x] = w[u][x]
    <3> HIDE DEF w, w2
    <3> QED
      BY <1>1, <1>2, <1>4
  <2>2. w2 = w
    <3> HIDE DEF w, w2
    <3> QED
      BY <1>1, <2>1
  <2> QED
    BY <1>3, <2>2 DEF Market!vars
<1>5. CASE a # b /\ n # 0
  <2>1. w2 = [w EXCEPT ![a][t] = @ - n, ![b][t] = @ + n] /\ n \in 1 .. w[a][t]
    <3> HIDE DEF w, w2
    <3> DEFINE v == [w EXCEPT ![a][t] = @ - n, ![b][t] = @ + n]
    <3>1. \A u \in Users, x \in Tokens :
             v[u][x] = IF x = t /\ u = a THEN w[u][x] - n
                       ELSE IF x = t /\ u = b THEN w[u][x] + n ELSE w[u][x]
      BY <1>1, <1>5
    <3>2. \A u \in Users, x \in Tokens : w2[u][x] = v[u][x]
      <4> HIDE DEF v
      <4> TAKE u \in Users, x \in Tokens
      <4>1. w[u][x] \in Int /\ n \in Int
        BY <1>1
      <4>2. CASE x = t /\ u = a
        BY <1>2, <1>5, <3>1, <4>1, <4>2
      <4>3. CASE x = t /\ u = b
        BY <1>2, <1>5, <3>1, <4>1, <4>3
      <4>4. CASE x # t \/ (u # a /\ u # b)
        BY <1>2, <3>1, <4>1, <4>4
      <4> QED
        BY <4>2, <4>3, <4>4
    <3>3. DOMAIN v = Users /\ \A u \in Users : v[u] = [x \in Tokens |-> v[u][x]]
      BY <1>1
    <3>4. w2 = v
      <4> HIDE DEF v
      <4>1. \A u \in Users : w2[u] = v[u]
        BY <1>1, <3>2, <3>3
      <4>2. w2 = [u \in Users |-> w2[u]] /\ v = [u \in Users |-> v[u]]
        <5>1. v = [u \in Users |-> v[u]]
          BY <1>1 DEF v
        <5> QED
          BY <1>1, <5>1
      <4> QED
        BY <4>1, <4>2
    <3>5. w2[a][t] = w[a][t] - n /\ w2[a][t] >= 0 /\ w[a][t] \in Nat
      BY <1>1, <1>2, <1>5
    <3>6. n \in 1 .. w[a][t]
      BY <1>5, <3>5
    <3> QED
      BY <3>4, <3>6
  <2>2. Market!Give(a, b, t)
    BY <1>3, <2>1 DEF Market!Give
  <2> QED
    BY <1>5, <2>2 DEF Market!Next
<1> QED
  BY <1>4, <1>5

(* The pools that the market sees. *)
SupplyOf(table, e) == IF e \in DOMAIN table THEN table[e].supply ELSE 0

ReserveOf(table, e, t) == IF e \in DOMAIN table THEN Row(table[e].pool, t) ELSE 0

LEMMA PoolsAre ==
    ASSUME NEW table, NEW e
    PROVE  /\ DOMAIN PoolsOf(table) = DOMAIN table
           /\ e \in DOMAIN table => /\ PoolsOf(table)[e].supply = table[e].supply
                                    /\ PoolsOf(table)[e].reserves = table[e].pool
           /\ Market!Supply(PoolsOf(table), e) = SupplyOf(table, e)
           /\ \A t : Market!Reserve(PoolsOf(table), e, t) = ReserveOf(table, e, t)
<1>1. /\ DOMAIN PoolsOf(table) = DOMAIN table
      /\ e \in DOMAIN table => /\ PoolsOf(table)[e].supply = table[e].supply
                               /\ PoolsOf(table)[e].reserves = table[e].pool
  BY DEF PoolsOf
<1> QED
  BY <1>1 DEF Market!Supply, Market!Reserve, SupplyOf, ReserveOf, Row

LEMMA PoolNumbers ==
    ASSUME NEW table, StatOK(table), NEW e
    PROVE  SupplyOf(table, e) \in Nat /\ \A t : ReserveOf(table, e, t) \in Nat
<1>1. CASE e \in DOMAIN table
  <2>1. table[e].supply \in Nat /\ \A t : Row(table[e].pool, t) \in Nat
    BY <1>1, PoolShape
  <2> QED
    BY <1>1, <2>1 DEF SupplyOf, ReserveOf
<1>2. CASE e \notin DOMAIN table
  BY <1>2 DEF SupplyOf, ReserveOf
<1> QED
  BY <1>1, <1>2

(* A step between one user and one pool. *)
LEMMA PoolStep ==
    ASSUME Inv, Inv', NEW user \in Users, NEW e \in Evo,
           DOMAIN stat' = DOMAIN stat \cup {e},
           \A f \in DOMAIN stat \ {e} : stat'[f] = stat[f],
           \A x \in Tokens : Has(user, x)' = Has(user, x)
               + (IF x = e THEN SupplyOf(stat', e) - SupplyOf(stat, e) ELSE 0)
               - (ReserveOf(stat', e, x) - ReserveOf(stat, e, x)),
           \A u \in Users \ {user}, x \in Tokens : Has(u, x)' = Has(u, x)
    PROVE  Market!Between(user, e)
<1> DEFINE w  == Owned(accounts, evodexacnts)
           w2 == Owned(accounts', evodexacnts')
           p  == PoolsOf(stat)
           p2 == PoolsOf(stat')
<1>1. w \in [Users -> [Tokens -> Nat]] /\ w2 \in [Users -> [Tokens -> Nat]]
  BY InvTypes, NextTypes, OwnedType
<1>2. \A u \in Users, x \in Tokens : w2[u][x] = Has(u, x)' /\ w[u][x] = Has(u, x)
  BY OwnedIs DEF Has
<1>3. ASSUME NEW v \in Users \ {user}
      PROVE  w2[v] = w[v]
  <2>1. \A x \in Tokens : w2[v][x] = w[v][x]
    BY <1>2
  <2> HIDE DEF w, w2
  <2> QED
    BY <1>1, <2>1
<1>4. ASSUME NEW f \in DOMAIN p \cup DOMAIN p2, f # e
      PROVE  f \in DOMAIN p \cap DOMAIN p2 /\ p2[f] = p[f]
  BY <1>4 DEF PoolsOf
<1>5. ASSUME NEW x \in Tokens
      PROVE  /\ w2[user][x] >= 0
             /\ w2[user][x] - w[user][x] =
                   (IF x = e THEN Market!Supply(p2, e) - Market!Supply(p, e) ELSE 0)
                     - (Market!Reserve(p2, e, x) - Market!Reserve(p, e, x))
  <2> DEFINE a == w[user][x]
             b == w2[user][x]
             m == IF x = e THEN SupplyOf(stat', e) - SupplyOf(stat, e) ELSE 0
             r == ReserveOf(stat', e, x) - ReserveOf(stat, e, x)
  <2>1. a \in Nat /\ b \in Nat
    <3> HIDE DEF w, w2
    <3> QED
      BY <1>1
  <2>2. b = a + m - r
    BY <1>2
  <2>3. m \in Int /\ r \in Int
    <3>1. SupplyOf(stat, e) \in Int /\ SupplyOf(stat', e) \in Int
      BY InvTypes, NextTypes, PoolNumbers
    <3>2. ReserveOf(stat, e, x) \in Int /\ ReserveOf(stat', e, x) \in Int
      BY InvTypes, NextTypes, PoolNumbers
    <3> QED
      BY <3>1, <3>2
  <2>4. /\ Market!Supply(p2, e) = SupplyOf(stat', e) /\ Market!Supply(p, e) = SupplyOf(stat, e)
        /\ Market!Reserve(p2, e, x) = ReserveOf(stat', e, x)
        /\ Market!Reserve(p, e, x) = ReserveOf(stat, e, x)
    BY PoolsAre
  <2>5. b >= 0 /\ b - a = m - r
    <3> HIDE DEF a, b, m, r
    <3> QED
      BY <2>1, <2>2, <2>3
  <2> HIDE DEF w, w2, p, p2
  <2> QED
    BY <2>4, <2>5
<1> HIDE DEF w, w2, p, p2
<1> QED
  BY <1>3, <1>4, <1>5 DEF Market!Between, w, w2, p, p2

(* Whether from a deposit or at once, an exchange is one of the market. *)
LEMMA ExchangeStep ==
    ASSUME Inv, Inv', NEW user \in Users, NEW e, NEW token, NEW n \in Int, NEW min \in Int,
           n < 0 \/ min >= 0, CanExchange(e, token, n, min),
           stat' = [stat EXCEPT ![e].pool = PoolAfter(e, token, n)],
           \A x \in Tokens : Has(user, x)' = Has(user, x)
               + (IF x = token THEN -n ELSE IF x = Other(e, token) THEN Out(e, token, n) ELSE 0),
           \A u \in Users \ {user}, x \in Tokens : Has(u, x)' = Has(u, x)
    PROVE  e \in Evo /\ Market!Exchange(user, e)
<1> DEFINE other == Other(e, token)
           out   == Out(e, token, n)
           pool  == stat[e].pool
           after == PoolAfter(e, token, n)
           p     == PoolsOf(stat)
           p2    == PoolsOf(stat')
<1>1. /\ e \in DOMAIN stat /\ out \in Int
      /\ other # token /\ DOMAIN pool = {token, other}
      /\ after \in [DOMAIN pool -> 1 .. MaxAmount]
      /\ after[token] = pool[token] + n
      /\ after[other] = pool[other] - out
      /\ after[token] * after[other] >= pool[token] * pool[other]
  <2>1. /\ e \in DOMAIN stat /\ out \in Int
        /\ other # token /\ DOMAIN pool = {token, other}
    BY ExchangedReserves
  <2>2. after \in [DOMAIN pool -> 1 .. MaxAmount]
    BY ExchangedReserves
  <2>3. after[token] = pool[token] + n /\ after[other] = pool[other] - out
    BY ExchangedReserves
  <2>4. after[token] * after[other] >= pool[token] * pool[other]
    BY ExchangedReserves
  <2> QED
    BY <2>1, <2>2, <2>3, <2>4
<1>2. /\ DOMAIN stat' = DOMAIN stat
      /\ \A f \in DOMAIN stat \ {e} : stat'[f] = stat[f]
      /\ stat'[e].supply = stat[e].supply
      /\ \A t : Row(stat'[e].pool, t) - Row(stat[e].pool, t) =
                     CASE t = token -> n [] t = other -> -out [] OTHER -> 0
  BY ExchangedPool
<1>3. stat'[e].pool = after
  <2>1. "pool" \in DOMAIN stat[e]
    BY <1>1, InvTypes, PoolShape DEF PoolType
  <2>2. stat' = [stat EXCEPT ![e] = [stat[e] EXCEPT !.pool = after]]
    OBVIOUS
  <2>3. [stat[e] EXCEPT !.pool = after].pool = after
    <3> HIDE DEF after
    <3> QED
      BY <2>1
  <2> DEFINE new == [stat[e] EXCEPT !.pool = after]
  <2> HIDE DEF new
  <2>4. stat' = [stat EXCEPT ![e] = new]
    BY <2>2 DEF new
  <2>5. stat'[e] = new
    BY <1>1, <2>4
  <2> QED
    BY <2>3, <2>5 DEF new
<1>4. e \in Evo /\ \A t \in DOMAIN pool : t \in Tokens /\ pool[t] \in 1 .. MaxAmount
  BY <1>1, InvTypes, PoolShape
<1>5. Market!Between(user, e)
  <2>1. SupplyOf(stat', e) = SupplyOf(stat, e) /\ SupplyOf(stat, e) \in Int
    BY <1>1, <1>2, InvTypes, PoolNumbers DEF SupplyOf
  <2>2. ASSUME NEW x \in Tokens
        PROVE  Has(user, x)' = Has(user, x)
               + (IF x = e THEN SupplyOf(stat', e) - SupplyOf(stat, e) ELSE 0)
               - (ReserveOf(stat', e, x) - ReserveOf(stat, e, x))
    <3> DEFINE m == IF x = e THEN SupplyOf(stat', e) - SupplyOf(stat, e) ELSE 0
               r == ReserveOf(stat', e, x) - ReserveOf(stat, e, x)
               g == IF x = token THEN -n ELSE IF x = other THEN out ELSE 0
               h == Has(user, x)
    <3>1. m = 0
      BY <2>1
    <3>2. r = CASE x = token -> n [] x = other -> -out [] OTHER -> 0
      BY <1>1, <1>2 DEF ReserveOf
    <3>3. h \in Int
      BY InvTypes, OwnsIsNat DEF Has
    <3>4. Has(user, x)' = h + g
      OBVIOUS
    <3>5. g = -r /\ r \in Int
      <4> HIDE DEF r, out, other
      <4> QED
        BY <1>1, <3>2
    <3>6. h + g = h + m - r
      <4> HIDE DEF h, g, m, r
      <4> QED
        BY <3>1, <3>3, <3>5
    <3> HIDE DEF h, g, m, r
    <3>7. Has(user, x)' = h + m - r
      BY <3>4, <3>6
    <3> QED
      BY <3>7 DEF h, m, r
  <2>3. DOMAIN stat' = DOMAIN stat \cup {e}
    BY <1>1, <1>2
  <2> QED
    BY <1>2, <1>4, <2>2, <2>3, PoolStep
<1>6. /\ e \in DOMAIN p \cap DOMAIN p2
      /\ p[e].supply = stat[e].supply /\ p2[e].supply = stat'[e].supply
      /\ p[e].reserves = pool /\ p2[e].reserves = after
      /\ \A t : Market!Reserve(p2, e, t) = ReserveOf(stat', e, t)
  <2>1. e \in DOMAIN stat /\ e \in DOMAIN stat'
    BY <1>1, <1>2
  <2> HIDE DEF pool, after
  <2> QED
    BY <1>3, <2>1, PoolsAre DEF pool
<1>7. Market!Moves(e)
  <2>1. DOMAIN after = DOMAIN pool
    BY <1>1
  <2>2. \A t \in DOMAIN pool : ReserveOf(stat', e, t) > 0
    <3> TAKE t \in DOMAIN pool
    <3>1. ReserveOf(stat', e, t) = after[t]
      BY <1>1, <1>2, <1>3, <2>1 DEF ReserveOf, Row
    <3>2. after[t] \in 1 .. MaxAmount
      BY <1>1
    <3> QED
      BY <3>1, <3>2
  <2> HIDE DEF p, p2, pool, after
  <2> QED
    BY <1>6, <2>1, <2>2 DEF Market!Moves, p, p2
<1>8. \E t \in DOMAIN pool : after[t] <= pool[t]
  <2>1. pool[token] \in Int /\ pool[other] \in Int
    BY <1>1, <1>4
  <2>2. CASE n < 0
    <3>1. after[token] <= pool[token]
      <4> HIDE DEF after, pool, other
      <4> QED
        BY <1>1, <2>1, <2>2
    <3> QED
      BY <1>1, <3>1
  <2>3. CASE min >= 0
    <3>1. min <= out
      BY DEF CanExchange
    <3>2. after[other] <= pool[other]
      <4> HIDE DEF after, pool, other, out
      <4> QED
        BY <1>1, <2>1, <2>3, <3>1
    <3> QED
      BY <1>1, <3>2
  <2> QED
    BY <2>2, <2>3
<1>9. ASSUME NEW s \in DOMAIN pool, NEW t \in DOMAIN pool, s # t
      PROVE  after[s] * after[t] >= pool[s] * pool[t]
  <2>1. \A x \in DOMAIN pool : after[x] \in Int /\ pool[x] \in Int
    BY <1>1, <1>4
  <2>2. after[other] * after[token] = after[token] * after[other]
    BY <1>1, <2>1
  <2>3. pool[other] * pool[token] = pool[token] * pool[other]
    BY <1>1, <2>1
  <2> HIDE DEF pool, after, other
  <2> QED
    BY <1>1, <1>9, <2>2, <2>3
<1> HIDE DEF p, p2, pool, after, other, out
<1>10. Market!Exchange(user, e)
  BY <1>2, <1>5, <1>6, <1>7, <1>8, <1>9 DEF Market!Exchange, p, p2
<1> QED
  BY <1>4, <1>10

(* The rows of the accounts after a transfer, and after a balance changes. *)
LEMMA UsersAreHolders == Users \subseteq Holders /\ Dex \in Holders /\ Dex \notin Users
  BY HoldersFinite DEF Holders

Sent(table, from, to, token, n, a, t) ==
    CASE a = from /\ t = token -> Row(table, <<a, t>>) - n
      [] a = to /\ t = token   -> Row(table, <<a, t>>) + n
      [] OTHER                 -> Row(table, <<a, t>>)

LEMMA TransferRows ==
    ASSUME NEW table, AccountsOK(table), NEW from \in Holders, NEW to \in Holders,
           NEW token \in Tokens, NEW n, CanTransfer(table, from, to, token, n)
    PROVE  /\ n \in Nat /\ from # to
           /\ AccountsOK(Transferred(table, from, to, token, n))
           /\ \A a, t : Row(Transferred(table, from, to, token, n), <<a, t>>) =
                           Sent(table, from, to, token, n, a, t)
  BY TransferMoves DEF Sent

Added(table, owner, token, n, a, t) ==
    IF a = owner /\ t = token THEN Row(table, <<a, t>>) + n ELSE Row(table, <<a, t>>)

LEMMA BalanceRows ==
    ASSUME NEW table, AccountsOK(table), NEW owner \in Holders, NEW token \in Tokens,
           NEW n \in Int, Row(table, <<owner, token>>) + n >= 0
    PROVE  \A a, t : Row(AddBalance(table, owner, token, n), <<a, t>>) =
                        Added(table, owner, token, n, a, t)
<1> TAKE a, t
<1>1. Row(AddBalance(table, owner, token, n), <<a, t>>) =
         IF a = owner /\ t = token THEN Row(table, <<a, t>>) + n ELSE Row(table, <<a, t>>)
  BY BalanceAdded
<1> QED
  BY <1>1 DEF Added

(* What a user owns before and after a step, by its two rows. *)
LEMMA HasIs ==
    ASSUME Inv, Inv', NEW u, NEW t
    PROVE  /\ Has(u, t) = Row(accounts, <<u, t>>) + Row(evodexacnts, <<u, t>>)
           /\ Has(u, t)' = Row(accounts', <<u, t>>) + Row(evodexacnts', <<u, t>>)
           /\ Row(accounts, <<u, t>>) \in Nat /\ Row(accounts', <<u, t>>) \in Nat
           /\ Row(evodexacnts, <<u, t>>) \in Nat /\ Row(evodexacnts', <<u, t>>) \in Nat
<1>1. /\ Row(accounts, <<u, t>>) \in Nat /\ Row(evodexacnts, <<u, t>>) \in Nat
  BY InvTypes, RowsAreInt
<1>2. /\ Row(accounts', <<u, t>>) \in Nat /\ Row(evodexacnts', <<u, t>>) \in Nat
  BY NextTypes, RowsAreInt
<1> QED
  BY <1>1, <1>2 DEF Has, Owns

(* Nothing that the market sees changes. *)
LEMMA StillStep ==
    ASSUME \A k : Row(accounts', k) = Row(accounts, k),
           \A k : Row(evodexacnts', k) = Row(evodexacnts, k),
           PoolsOf(stat') = PoolsOf(stat)
    PROVE  UNCHANGED Market!vars
<1>1. Owned(accounts', evodexacnts') = Owned(accounts, evodexacnts)
  BY DEF Owned
<1> QED
  BY <1>1 DEF Market!vars

LEMMA OpenExtStep ==
    ASSUME NEW user, NEW token, OpenExt(user, token)
    PROVE  UNCHANGED Market!vars
<1>1. /\ Row(evodexacnts, <<user, token>>) = 0
      /\ evodexacnts' = Put(evodexacnts, <<user, token>>, 0)
      /\ stat' = stat /\ accounts' = accounts
  BY DEF OpenExt, Row
<1>2. \A k : Row(evodexacnts', k) = Row(evodexacnts, k)
  BY <1>1, PutRow
<1> QED
  BY <1>1, <1>2, StillStep

LEMMA OpenStep ==
    ASSUME NEW user, NEW e, Open(user, e)
    PROVE  UNCHANGED Market!vars
<1>1. /\ Row(accounts, <<user, e>>) = 0
      /\ accounts' = Put(accounts, <<user, e>>, 0)
      /\ stat' = stat /\ evodexacnts' = evodexacnts
  BY DEF Open, Row
<1>2. \A k : Row(accounts', k) = Row(accounts, k)
  BY <1>1, PutRow
<1> QED
  BY <1>1, <1>2, StillStep

LEMMA CloseStep ==
    ASSUME NEW user, NEW e, Close(user, e)
    PROVE  UNCHANGED Market!vars
<1>1. /\ Row(accounts, <<user, e>>) = 0
      /\ accounts' = Delete(accounts, <<user, e>>)
      /\ stat' = stat /\ evodexacnts' = evodexacnts
  BY DEF Close, Row
<1>2. \A k : Row(accounts', k) = Row(accounts, k)
  BY <1>1, DeleteRow
<1> QED
  BY <1>1, <1>2, StillStep

LEMMA ChangeFeeStep ==
    ASSUME Inv, NEW e, NEW fee, ChangeFee(e, fee)
    PROVE  UNCHANGED Market!vars
<1> DEFINE new == [stat[e] EXCEPT !.fee = fee]
<1>1. /\ e \in DOMAIN stat /\ stat' = [stat EXCEPT ![e] = new]
      /\ accounts' = accounts /\ evodexacnts' = evodexacnts
  BY DEF ChangeFee
<1>2. new.pool = stat[e].pool /\ new.supply = stat[e].supply
  BY <1>1, InvTypes, PoolShape DEF PoolType
<1> HIDE DEF new
<1>3. /\ DOMAIN stat' = DOMAIN stat
      /\ \A f \in DOMAIN stat : stat'[f].pool = stat[f].pool /\ stat'[f].supply = stat[f].supply
  BY <1>1, <1>2
<1>4. PoolsOf(stat') = PoolsOf(stat)
  BY <1>3 DEF PoolsOf
<1> QED
  BY <1>1, <1>4, StillStep

(* One user gives: from his account or his deposit, to the account or the  *)
(* deposit of another, or to his own, which changes nothing.               *)
LEMMA TransferStep ==
    ASSUME Inv, Inv', NEW from \in Users, NEW to \in Users, NEW e \in Evo, NEW n,
           Transfer(from, to, e, n)
    PROVE  [Market!Next]_Market!vars
<1>1. /\ CanTransfer(accounts, from, to, e, n)
      /\ accounts' = Transferred(accounts, from, to, e, n)
      /\ stat' = stat /\ evodexacnts' = evodexacnts
  BY DEF Transfer
<1>2. /\ n \in Nat /\ from # to
      /\ \A a, t : Row(accounts', <<a, t>>) =
                CASE a = from /\ t = e -> Row(accounts, <<a, t>>) - n
                  [] a = to /\ t = e   -> Row(accounts, <<a, t>>) + n
                  [] OTHER             -> Row(accounts, <<a, t>>)
  BY <1>1, InvTypes, UsersAreHolders, TransferMoves DEF Tokens
<1>3. ASSUME NEW u \in Users, NEW x \in Tokens
      PROVE  Has(u, x)' = Has(u, x) + (IF x = e /\ u = to THEN n ELSE 0)
                                    - (IF x = e /\ u = from THEN n ELSE 0)
  <2> DEFINE a  == Row(accounts, <<u, x>>)
             a2 == Row(accounts', <<u, x>>)
             d  == Row(evodexacnts, <<u, x>>)
  <2>1. a2 = CASE u = from /\ x = e -> a - n [] u = to /\ x = e -> a + n [] OTHER -> a
    BY <1>2
  <2>2. a \in Int /\ d \in Int /\ Has(u, x) = a + d /\ Has(u, x)' = a2 + d
    BY <1>1, HasIs
  <2> HIDE DEF a, a2, d
  <2> QED
    BY <1>2, <2>1, <2>2
<1> QED
  BY <1>1, <1>2, <1>3, GiveStep DEF Tokens

LEMMA DepositStep ==
    ASSUME Inv, Inv', NEW from \in Users, NEW to \in Users, NEW token \in Tokens, NEW n,
           Deposit(from, to, token, n)
    PROVE  [Market!Next]_Market!vars
<1> DEFINE change == [t \in {token} |-> n]
<1>1. /\ CanTransfer(accounts, from, Dex, token, n)
      /\ CanAddExt(to, token, n)
      /\ accounts' = Transferred(accounts, from, Dex, token, n)
      /\ evodexacnts' = AddExt(to, change)
      /\ stat' = stat
  BY DEF Deposit
<1>2. /\ n \in Nat
      /\ \A a, t : Row(accounts', <<a, t>>) =
                CASE a = from /\ t = token -> Row(accounts, <<a, t>>) - n
                  [] a = Dex /\ t = token  -> Row(accounts, <<a, t>>) + n
                  [] OTHER                 -> Row(accounts, <<a, t>>)
  BY <1>1, InvTypes, UsersAreHolders, TransferMoves
<1>3. \A u, t : Row(evodexacnts', <<u, t>>) = Row(evodexacnts, <<u, t>>)
                    + (IF u = to /\ t = token THEN n ELSE 0)
  <2>1. \A t \in DOMAIN change : change[t] \in Int /\ CanAddExt(to, t, change[t])
    BY <1>1, <1>2
  <2>2. DOMAIN change = {token} /\ change[token] = n
    OBVIOUS
  <2> HIDE DEF change
  <2>3. \A u, t :
          Row(AddExt(to, change), <<u, t>>) =
              Row(evodexacnts, <<u, t>>) + Gets(u, t, to, change)
    BY <2>1, InvTypes, ExtRow
  <2> QED
    BY <1>1, <2>2, <2>3 DEF Gets
<1>4. ASSUME NEW u \in Users, NEW x \in Tokens
      PROVE  Has(u, x)' = Has(u, x) + (IF x = token /\ u = to THEN n ELSE 0)
                                    - (IF x = token /\ u = from THEN n ELSE 0)
  <2> DEFINE a  == Row(accounts, <<u, x>>)
             a2 == Row(accounts', <<u, x>>)
             d  == Row(evodexacnts, <<u, x>>)
             d2 == Row(evodexacnts', <<u, x>>)
  <2>1. a2 = IF u = from /\ x = token THEN a - n ELSE a
    BY <1>2, UsersAreHolders
  <2>2. d2 = d + (IF u = to /\ x = token THEN n ELSE 0)
    BY <1>3
  <2>3. a \in Int /\ d \in Int /\ Has(u, x) = a + d /\ Has(u, x)' = a2 + d2
    BY HasIs
  <2> HIDE DEF a, a2, d, d2
  <2> QED
    BY <1>2, <2>1, <2>2, <2>3
<1> QED
  BY <1>1, <1>2, <1>4, GiveStep

LEMMA WithdrawStep ==
    ASSUME Inv, Inv', NEW user \in Users, NEW to \in Users, NEW token \in Tokens, NEW n,
           Withdraw(user, to, token, n)
    PROVE  [Market!Next]_Market!vars
<1> DEFINE change == [t \in {token} |-> -n]
<1>1. /\ CanTransfer(accounts, Dex, to, token, n)
      /\ CanAddExt(user, token, -n)
      /\ accounts' = Transferred(accounts, Dex, to, token, n)
      /\ evodexacnts' = AddExt(user, change)
      /\ stat' = stat
  BY DEF Withdraw
<1>2. /\ n \in Nat
      /\ \A a, t : Row(accounts', <<a, t>>) =
                CASE a = Dex /\ t = token -> Row(accounts, <<a, t>>) - n
                  [] a = to /\ t = token  -> Row(accounts, <<a, t>>) + n
                  [] OTHER                -> Row(accounts, <<a, t>>)
  BY <1>1, InvTypes, UsersAreHolders, TransferMoves
<1>3. \A u, t : Row(evodexacnts', <<u, t>>) = Row(evodexacnts, <<u, t>>)
                    + (IF u = user /\ t = token THEN -n ELSE 0)
  <2>1. \A t \in DOMAIN change : change[t] \in Int /\ CanAddExt(user, t, change[t])
    BY <1>1, <1>2
  <2>2. DOMAIN change = {token} /\ change[token] = -n
    OBVIOUS
  <2> HIDE DEF change
  <2>3. \A u, t :
          Row(AddExt(user, change), <<u, t>>) =
              Row(evodexacnts, <<u, t>>) + Gets(u, t, user, change)
    BY <2>1, InvTypes, ExtRow
  <2> QED
    BY <1>1, <2>2, <2>3 DEF Gets
<1>4. ASSUME NEW u \in Users, NEW x \in Tokens
      PROVE  Has(u, x)' = Has(u, x) + (IF x = token /\ u = to THEN n ELSE 0)
                                    - (IF x = token /\ u = user THEN n ELSE 0)
  <2> DEFINE a  == Row(accounts, <<u, x>>)
             a2 == Row(accounts', <<u, x>>)
             d  == Row(evodexacnts, <<u, x>>)
             d2 == Row(evodexacnts', <<u, x>>)
  <2>1. a2 = IF u = to /\ x = token THEN a + n ELSE a
    BY <1>2, UsersAreHolders
  <2>2. d2 = d + (IF u = user /\ x = token THEN -n ELSE 0)
    BY <1>3
  <2>3. a \in Int /\ d \in Int /\ Has(u, x) = a + d /\ Has(u, x)' = a2 + d2
    BY HasIs
  <2> HIDE DEF a, a2, d, d2
  <2> QED
    BY <1>2, <2>1, <2>2, <2>3
<1> QED
  BY <1>1, <1>2, <1>4, GiveStep

LEMMA CloseExtStep ==
    ASSUME Inv, Inv', NEW user \in Users, NEW to \in Users, NEW token \in Tokens,
           CloseExt(user, to, token)
    PROVE  [Market!Next]_Market!vars
<1> DEFINE key  == <<user, token>>
           rest == evodexacnts[key]
<1>1. /\ key \in DOMAIN evodexacnts
      /\ evodexacnts' = Delete(evodexacnts, key)
      /\ stat' = stat
      /\ \/ rest = 0 /\ accounts' = accounts
         \/ /\ CanTransfer(accounts, Dex, to, token, rest)
            /\ accounts' = Transferred(accounts, Dex, to, token, rest)
  BY DEF CloseExt
<1>2. rest \in Nat /\ Row(evodexacnts, key) = rest
  BY <1>1, InvTypes DEF DepositsOK, IsTable, Row
<1>3. \A k : Row(evodexacnts', k) = IF k = key THEN 0 ELSE Row(evodexacnts, k)
  <2> HIDE DEF key
  <2> QED
    BY <1>1, DeleteRow
<1> HIDE DEF rest
<1>4. ASSUME NEW a \in Users, NEW t \in Tokens
      PROVE  Row(accounts', <<a, t>>) =
                Row(accounts, <<a, t>>) + (IF t = token /\ a = to THEN rest ELSE 0)
  <2>1. Row(accounts, <<a, t>>) \in Int
    BY HasIs
  <2>2. CASE rest = 0 /\ accounts' = accounts
    BY <2>1, <2>2
  <2>3. CASE /\ CanTransfer(accounts, Dex, to, token, rest)
             /\ accounts' = Transferred(accounts, Dex, to, token, rest)
    <3>1. Row(accounts', <<a, t>>) =
                CASE a = Dex /\ t = token -> Row(accounts, <<a, t>>) - rest
                  [] a = to /\ t = token  -> Row(accounts, <<a, t>>) + rest
                  [] OTHER                -> Row(accounts, <<a, t>>)
      BY <2>3, InvTypes, UsersAreHolders, TransferMoves
    <3> QED
      BY <2>1, <3>1, UsersAreHolders
  <2> QED
    BY <1>1, <2>2, <2>3
<1>5. ASSUME NEW u \in Users, NEW x \in Tokens
      PROVE  Has(u, x)' = Has(u, x) + (IF x = token /\ u = to THEN rest ELSE 0)
                                    - (IF x = token /\ u = user THEN rest ELSE 0)
  <2> DEFINE a  == Row(accounts, <<u, x>>)
             a2 == Row(accounts', <<u, x>>)
             d  == Row(evodexacnts, <<u, x>>)
             d2 == Row(evodexacnts', <<u, x>>)
  <2>1. a2 = a + (IF x = token /\ u = to THEN rest ELSE 0)
    BY <1>4
  <2>2. /\ x = token /\ u = user => d2 = 0 /\ d = rest
        /\ ~(x = token /\ u = user) => d2 = d
    BY <1>2, <1>3
  <2>3. a \in Int /\ d \in Int /\ Has(u, x) = a + d /\ Has(u, x)' = a2 + d2
    BY HasIs
  <2> HIDE DEF a, a2, d, d2
  <2> QED
    BY <1>2, <2>1, <2>2, <2>3
<1> QED
  BY <1>1, <1>2, <1>5, GiveStep

(* The deposits of who trades pay and receive. *)
LEMMA DepositRows ==
    ASSUME Inv, Inv', NEW user \in Users, NEW change,
           \A t \in DOMAIN change : change[t] \in Int /\ CanAddExt(user, t, change[t]),
           evodexacnts' = AddExt(user, change)
    PROVE  \A u, t :
          Row(evodexacnts', <<u, t>>) =
              Row(evodexacnts, <<u, t>>) + Gets(u, t, user, change)
<1>1. \A u, t :
          Row(AddExt(user, change), <<u, t>>) =
              Row(evodexacnts, <<u, t>>) + Gets(u, t, user, change)
  BY InvTypes, ExtRow
<1> QED
  BY <1>1

(* From the deposits of the user, and to them. *)
LEMMA ExchangeIsFair ==
    ASSUME Inv, Inv', NEW user \in Users, NEW e, NEW token, NEW n \in Int, NEW min \in Int,
           Exchange(user, e, token, n, min)
    PROVE  e \in Evo /\ Market!Exchange(user, e)
<1> DEFINE pool   == stat[e].pool
           other  == Other(e, token)
           out    == Out(e, token, n)
           change == [t \in DOMAIN pool |-> IF t = token THEN -n ELSE out]
<1>1. /\ n < 0 \/ min >= 0
      /\ CanExchange(e, token, n, min)
      /\ CanAddExt(user, token, -n)
      /\ CanAddExt(user, other, out)
      /\ evodexacnts' = AddExt(user, change)
      /\ stat' = [stat EXCEPT ![e].pool = PoolAfter(e, token, n)]
      /\ accounts' = accounts
  BY DEF Exchange
<1>2. out \in Int /\ other # token /\ DOMAIN pool = {token, other}
  BY <1>1, ExchangedReserves
<1>3. \A t \in DOMAIN change : change[t] \in Int /\ CanAddExt(user, t, change[t])
  <2> HIDE DEF other, out, pool
  <2> QED
    BY <1>1, <1>2
<1>4. /\ DOMAIN change = {token, other}
      /\ change[token] = -n /\ change[other] = out
  <2> HIDE DEF other, out, pool
  <2> QED
    BY <1>2
<1> HIDE DEF change
<1>5. \A u, t :
          Row(evodexacnts', <<u, t>>) =
              Row(evodexacnts, <<u, t>>) + Gets(u, t, user, change)
  BY <1>1, <1>3, DepositRows
<1>6. ASSUME NEW x \in Tokens
      PROVE  Has(user, x)' = Has(user, x)
               + (IF x = token THEN -n ELSE IF x = other THEN out ELSE 0)
  <2> DEFINE a  == Row(accounts, <<user, x>>)
             d  == Row(evodexacnts, <<user, x>>)
             d2 == Row(evodexacnts', <<user, x>>)
  <2>1. a \in Int /\ d \in Int /\ Has(user, x) = a + d /\ Has(user, x)' = a + d2
    BY <1>1, HasIs
  <2>2. d2 = d + (IF x = token THEN -n ELSE IF x = other THEN out ELSE 0)
    BY <1>2, <1>4, <1>5 DEF Gets
  <2> HIDE DEF a, d, d2, other, out
  <2> QED
    BY <1>2, <2>1, <2>2
<1>7. ASSUME NEW u \in Users \ {user}, NEW x \in Tokens
      PROVE  Has(u, x)' = Has(u, x)
  <2>1. Row(evodexacnts', <<u, x>>) = Row(evodexacnts, <<u, x>>) + 0
    BY <1>5 DEF Gets
  <2> QED
    BY <1>1, <2>1, HasIs
<1> QED
  BY <1>1, <1>6, <1>7, ExchangeStep

(* With a memo, what is exchanged comes from the account and goes there. *)
LEMMA MemoExchangeIsFair ==
    ASSUME Inv, Inv', NEW from \in Users, NEW e, NEW token, NEW n \in Int, NEW min \in Nat,
           MemoExchange(from, e, token, n, min)
    PROVE  e \in Evo /\ Market!Exchange(from, e)
<1> DEFINE other == Other(e, token)
           out   == Out(e, token, n)
           paid  == Transferred(accounts, from, Dex, token, n)
<1>1. /\ CanTransfer(accounts, from, Dex, token, n)
      /\ CanExchange(e, token, n, min)
      /\ CanTransfer(paid, Dex, from, other, out)
      /\ accounts' = Transferred(paid, Dex, from, other, out)
      /\ stat' = [stat EXCEPT ![e].pool = PoolAfter(e, token, n)]
      /\ evodexacnts' = evodexacnts
  BY DEF MemoExchange
<1>2. out \in Int /\ other # token /\ token \in Tokens /\ other \in Tokens
  BY <1>1, ExchangedReserves
<1>3. /\ AccountsOK(paid)
      /\ \A a, t : Row(paid, <<a, t>>) = Sent(accounts, from, Dex, token, n, a, t)
  BY <1>1, <1>2, InvTypes, UsersAreHolders, TransferRows
<1> HIDE DEF paid, other, out
<1>4. \A a, t : Row(accounts', <<a, t>>) = Sent(paid, Dex, from, other, out, a, t)
  <2>1. /\ CanTransfer(paid, Dex, from, other, out)
        /\ AccountsOK(paid) /\ other \in Tokens /\ Dex \in Holders /\ from \in Holders
    BY <1>1, <1>2, <1>3, UsersAreHolders
  <2>2. \A a, t : Row(Transferred(paid, Dex, from, other, out), <<a, t>>) =
                     Sent(paid, Dex, from, other, out, a, t)
    <3> TAKE a, t
    <3> QED
      BY <2>1, TransferRows
  <2> QED
    BY <1>1, <2>2
<1>5. ASSUME NEW x \in Tokens
      PROVE  Has(from, x)' = Has(from, x)
               + (IF x = token THEN -n ELSE IF x = other THEN out ELSE 0)
  <2> DEFINE a  == Row(accounts, <<from, x>>)
             a1 == Row(paid, <<from, x>>)
             a2 == Row(accounts', <<from, x>>)
             d  == Row(evodexacnts, <<from, x>>)
  <2>1. a \in Int /\ d \in Int /\ Has(from, x) = a + d /\ Has(from, x)' = a2 + d
    BY <1>1, HasIs
  <2>2. a1 = IF x = token THEN a - n ELSE a
    BY <1>3, UsersAreHolders DEF Sent
  <2>3. a2 = IF x = other THEN a1 + out ELSE a1
    BY <1>4, UsersAreHolders DEF Sent
  <2> HIDE DEF a, a1, a2, d
  <2> QED
    BY <1>2, <2>1, <2>2, <2>3
<1>6. ASSUME NEW u \in Users \ {from}, NEW x \in Tokens
      PROVE  Has(u, x)' = Has(u, x)
  <2>1. Row(paid, <<u, x>>) = Row(accounts, <<u, x>>)
    BY <1>3, UsersAreHolders DEF Sent
  <2>2. Row(accounts', <<u, x>>) = Row(paid, <<u, x>>)
    BY <1>4, UsersAreHolders DEF Sent
  <2> QED
    BY <1>1, <2>1, <2>2, HasIs
<1>7. min \in Int /\ min >= 0
  OBVIOUS
<1> QED
  BY <1>1, <1>5, <1>6, <1>7, ExchangeStep DEF other, out

(* Who buys shares pays of each token, however few he buys. *)
LEMMA PayIsFair ==
    ASSUME NEW n \in Int, NEW reserve \in Nat, NEW supply \in Nat, NEW fee \in Nat,
           reserve > 0, supply > 0, n > 0
    PROVE  Compute(n, reserve, supply, fee) > 0
<1> DEFINE c == Compute(n, reserve, supply, fee)
<1>1. c \in Int /\ supply * c >= n * reserve
  BY ComputeCovers
<1>2. n * reserve > 0
  OBVIOUS
<1> HIDE DEF c
<1>3. supply * c > 0
  BY <1>1, <1>2
<1>4. c > 0
  BY <1>1, <1>3
<1> QED
  BY <1>4 DEF c

(* Liquidity is bought and sold in proportion to the reserves, or better   *)
(* for the pool.                                                           *)
LEMMA LiquidityIsFair ==
    ASSUME Inv, Inv', NEW user \in Users, NEW e, NEW n \in Int, NEW fee \in Nat, NEW limit,
           AddSignedLiq(user, e, n, fee, limit),
           n < 0 => \A t \in DOMAIN stat[e].pool : limit[t] \in Int /\ limit[t] <= 0
    PROVE  e \in Evo /\ Market!Provide(user, e)
<1> DEFINE row    == stat[e]
           pair   == DOMAIN row.pool
           pay(t) == Compute(n, row.pool[t], row.supply, fee)
           change == [t \in pair |-> -pay(t)]
           after  == [t \in pair |-> row.pool[t] + pay(t)]
           new    == [supply |-> row.supply + n, fee |-> row.fee, pool |-> after]
           p      == PoolsOf(stat)
           p2     == PoolsOf(stat')
<1>1. /\ e \in DOMAIN stat
      /\ \A t \in pair :
            /\ Computable(n, row.pool[t], row.supply, fee)
            /\ pay(t) <= limit[t]
            /\ CanAddExt(user, t, -pay(t))
      /\ Row(accounts, <<user, e>>) + n >= 0
      /\ row.supply + n # 0
      /\ evodexacnts' = AddExt(user, change)
      /\ accounts' = AddBalance(accounts, user, e, n)
      /\ stat' = [stat EXCEPT ![e] = new]
  BY DEF AddSignedLiq, NewSupply, NotLeftEmpty
<1>2. /\ e \in Evo /\ e \in Tokens /\ user \in Holders
      /\ row.supply \in 1 .. MaxAmount
      /\ pair \in Pairs
      /\ \A t \in pair : t \in Tokens /\ row.pool[t] \in 1 .. MaxAmount
  BY <1>1, InvTypes, PoolShape, UsersAreHolders DEF Tokens
<1>3. row.supply \in Nat /\ row.supply > 0 /\ row.supply + n >= 1
  BY <1>1, <1>2, SupplyStaysPositive
<1>4. n # 0
  <2>1. PICK s, t \in Tokens : s # t /\ pair = {s, t}
    BY <1>2 DEF Pairs
  <2> QED
    BY <1>1, <2>1 DEF Computable
<1>5. ASSUME NEW t \in pair
      PROVE  /\ pay(t) \in Int /\ row.pool[t] \in Int
             /\ row.pool[t] + pay(t) > 0
             /\ row.supply * (row.pool[t] + pay(t)) >= row.pool[t] * (row.supply + n)
             /\ n > 0 => pay(t) > 0
             /\ n < 0 => pay(t) <= 0
  <2>1. row.pool[t] \in Nat /\ row.pool[t] > 0 /\ row.supply + n > 0
    BY <1>2, <1>3
  <2>2. pay(t) \in Int /\ (n > 0 => pay(t) > 0)
    BY <1>3, <1>4, <2>1, ComputeCovers, PayIsFair
  <2>3. /\ row.pool[t] + pay(t) \in Nat \ {0}
        /\ row.supply * (row.pool[t] + pay(t)) >= row.pool[t] * (row.supply + n)
    <3> HIDE DEF row
    <3> QED
      BY <1>3, <1>4, <2>1, ReserveKeepsShare
  <2>4. n < 0 => pay(t) <= 0
    <3>1. pay(t) <= limit[t]
      BY <1>1
    <3>2. n < 0 => limit[t] \in Int /\ limit[t] <= 0
      OBVIOUS
    <3> HIDE DEF pay
    <3> QED
      BY <2>2, <3>1, <3>2
  <2> HIDE DEF pay
  <2> QED
    BY <2>1, <2>2, <2>3, <2>4
<1>6. /\ DOMAIN stat' = DOMAIN stat /\ stat'[e] = new
      /\ \A f \in DOMAIN stat \ {e} : stat'[f] = stat[f]
  <2> HIDE DEF new
  <2> QED
    BY <1>1
<1>7. stat'[e].supply = row.supply + n /\ stat'[e].pool = after
  BY <1>6
<1>8. Market!Between(user, e)
  <2>1. \A a, t : Row(accounts', <<a, t>>) = Added(accounts, user, e, n, a, t)
    <3>1. Row(accounts, <<user, e>>) + n >= 0 /\ AccountsOK(accounts)
      BY <1>1, InvTypes
    <3>2. \A a, t : Row(AddBalance(accounts, user, e, n), <<a, t>>) =
                       Added(accounts, user, e, n, a, t)
      BY <1>2, <3>1, BalanceRows
    <3> QED
      BY <1>1, <3>2
  <2>2. \A u, t :
          Row(evodexacnts', <<u, t>>) =
              Row(evodexacnts, <<u, t>>) + Gets(u, t, user, change)
    <3>1. \A t \in DOMAIN change : change[t] \in Int /\ CanAddExt(user, t, change[t])
      BY <1>1, <1>5
    <3> HIDE DEF change
    <3> QED
      BY <1>1, <3>1, DepositRows
  <2>3. ASSUME NEW x \in Tokens
        PROVE  Has(user, x)' = Has(user, x)
               + (IF x = e THEN SupplyOf(stat', e) - SupplyOf(stat, e) ELSE 0)
               - (ReserveOf(stat', e, x) - ReserveOf(stat, e, x))
    <3> DEFINE m  == IF x = e THEN SupplyOf(stat', e) - SupplyOf(stat, e) ELSE 0
               r  == ReserveOf(stat', e, x) - ReserveOf(stat, e, x)
               a  == Row(accounts, <<user, x>>)
               a2 == Row(accounts', <<user, x>>)
               d  == Row(evodexacnts, <<user, x>>)
               d2 == Row(evodexacnts', <<user, x>>)
    <3>1. m = IF x = e THEN n ELSE 0
      <4>1. SupplyOf(stat', e) = row.supply + n /\ SupplyOf(stat, e) = row.supply
        BY <1>1, <1>6, <1>7 DEF SupplyOf
      <4> HIDE DEF row
      <4> QED
        BY <1>3, <4>1
    <3>2. r \in Int /\ d2 = d + (-r)
      <4>1. CASE x \in pair
        <5>1. ReserveOf(stat, e, x) = row.pool[x] /\ ReserveOf(stat', e, x) = row.pool[x] + pay(x)
          BY <1>1, <1>6, <1>7, <4>1 DEF ReserveOf, Row
        <5>2. pay(x) \in Int /\ row.pool[x] \in Int
          BY <1>5, <4>1
        <5>3. d2 = d + (-pay(x))
          BY <2>2, <4>1 DEF Gets
        <5>4. r = pay(x)
          <6> HIDE DEF pay, row
          <6> QED
            BY <5>1, <5>2
        <5> HIDE DEF r, pay
        <5> QED
          BY <5>2, <5>3, <5>4
      <4>2. CASE x \notin pair
        <5>1. ReserveOf(stat, e, x) = 0 /\ ReserveOf(stat', e, x) = 0
          BY <1>1, <1>6, <1>7, <4>2 DEF ReserveOf, Row
        <5>2. d2 = d + 0
          BY <2>2, <4>2 DEF Gets
        <5> QED
          BY <5>1, <5>2
      <4> QED
        BY <4>1, <4>2
    <3>3. a2 = IF x = e THEN a + n ELSE a
      BY <2>1 DEF Added
    <3>4. a \in Int /\ d \in Int /\ Has(user, x) = a + d /\ Has(user, x)' = a2 + d2
      BY HasIs
    <3>5. a2 + d2 = (a + d) + m - r
      <4> HIDE DEF a, a2, d, d2, m, r
      <4> QED
        BY <3>1, <3>2, <3>3, <3>4
    <3> HIDE DEF a, a2, d, d2, m, r
    <3>6. Has(user, x)' = Has(user, x) + m - r
      BY <3>4, <3>5
    <3> QED
      BY <3>6 DEF m, r
  <2>4. ASSUME NEW u \in Users \ {user}, NEW x \in Tokens
        PROVE  Has(u, x)' = Has(u, x)
    <3>1. Row(evodexacnts', <<u, x>>) = Row(evodexacnts, <<u, x>>) + 0
      BY <2>2 DEF Gets
    <3>2. Row(accounts', <<u, x>>) = Row(accounts, <<u, x>>)
      BY <2>1 DEF Added
    <3> QED
      BY <3>1, <3>2, HasIs
  <2>5. DOMAIN stat' = DOMAIN stat \cup {e}
    BY <1>1, <1>6
  <2> QED
    BY <1>2, <1>6, <2>3, <2>4, <2>5, PoolStep
<1>9. /\ e \in DOMAIN p \cap DOMAIN p2
      /\ p[e].supply = row.supply /\ p2[e].supply = row.supply + n
      /\ p[e].reserves = row.pool /\ p2[e].reserves = after
      /\ \A t : Market!Reserve(p2, e, t) = ReserveOf(stat', e, t)
  <2>1. e \in DOMAIN stat /\ e \in DOMAIN stat'
    BY <1>1, <1>6
  <2> HIDE DEF row, after, new
  <2> QED
    BY <1>7, <2>1, PoolsAre DEF row
<1>10. DOMAIN after = pair /\ \A t \in pair : after[t] = row.pool[t] + pay(t)
  OBVIOUS
<1>11. Market!Moves(e)
  <2>1. \A t \in pair : ReserveOf(stat', e, t) > 0
    <3> TAKE t \in pair
    <3>1. ReserveOf(stat', e, t) = row.pool[t] + pay(t)
      BY <1>1, <1>6, <1>7 DEF ReserveOf, Row
    <3> QED
      BY <1>5, <3>1
  <2> HIDE DEF p, p2, after, pay, change, new
  <2> QED
    BY <1>9, <1>10, <2>1 DEF Market!Moves, p, p2
<1>12. ASSUME NEW t \in pair
       PROVE  /\ row.supply * after[t] >= row.pool[t] * (row.supply + n)
              /\ row.supply + n > row.supply => after[t] > row.pool[t]
              /\ row.supply + n < row.supply => after[t] <= row.pool[t]
  <2> HIDE DEF after, pay, row, new, change
  <2> QED
    BY <1>3, <1>5, <1>10
<1> HIDE DEF after, pay, new, change, p, p2
<1>13. Market!Provide(user, e)
  BY <1>3, <1>8, <1>9, <1>11, <1>12 DEF Market!Provide, p, p2
<1> QED
  BY <1>2, <1>13

(* No user can pay with shares of a pool that is not there. *)
LEMMA NoShareBefore ==
    ASSUME Inv, NEW e \in Evo, e \notin DOMAIN stat, NEW user \in Users, NEW n \in Nat, n > 0
    PROVE  ~CanAddExt(user, e, -n)
<1> DEFINE f == [u \in Users |-> Row(evodexacnts, <<u, e>>)]
           d == Deposited(evodexacnts, e)
           h == Row(accounts, <<Dex, e>>)
           r == Row(evodexacnts, <<user, e>>)
<1>1. Held(accounts, e) = 0
  BY DEF Inv, SupplyIsHeld, SharesAddUp
<1>2. h \in Nat /\ h <= Held(accounts, e)
  BY InvTypes, HeldIsNat, RowsAreInt, UsersAreHolders
<1>3. h = d + Pooled(stat, e)
  BY DEF Inv, Custody, Covered, Tokens
<1>4. d \in Nat /\ Pooled(stat, e) \in Nat
  BY InvTypes, SumsAreNat
<1>5. \A u \in Users : f[u] \in Nat
  BY InvTypes, RowsAreInt
<1>6. d = SumFunctionOnSet(f, Users) /\ f[user] = r
  BY DEF Deposited
<1>7. f[user] <= SumFunctionOnSet(f, Users)
  <2> HIDE DEF f
  <2> QED
    BY <1>5, HoldersFinite, SumAtLeast
<1>8. f[user] \in Nat
  BY <1>5
<1> HIDE DEF f, d, h
<1>9. r = 0
  BY <1>1, <1>2, <1>3, <1>4, <1>6, <1>7, <1>8
<1>10. SUFFICES ASSUME CanAddExt(user, e, -n) PROVE FALSE
  OBVIOUS
<1>11. <<user, e>> \in DOMAIN evodexacnts /\ evodexacnts[<<user, e>>] + (-n) \in 0 .. MaxAmount
  BY <1>10 DEF CanAddExt
<1>12. r = evodexacnts[<<user, e>>]
  BY <1>11 DEF Row
<1> HIDE DEF r
<1>13. 0 + (-n) \in 0 .. MaxAmount
  BY <1>9, <1>11, <1>12
<1> QED
  BY <1>13, MaxAmountAssumption

(* A pool is founded with other tokens than its own shares. *)
LEMMA InitTokenStep ==
    ASSUME Inv, Inv', NEW user \in Users, NEW e \in Evo, NEW s \in Tokens, NEW m,
           NEW t \in Tokens, NEW n, InitToken(user, e, s, m, t, n)
    PROVE  Market!Found(user, e)
<1> DEFINE pair   == {s, t}
           root   == Root(m * n)
           pool   == [x \in pair |-> IF x = s THEN m ELSE n]
           new    == [supply |-> root, fee |-> DefaultFee, pool |-> pool]
           change == [x \in pair |-> IF x = s THEN -m ELSE -n]
           p      == PoolsOf(stat)
           p2     == PoolsOf(stat')
<1>1. /\ m \in 1 .. InitMax - 1 /\ n \in 1 .. InitMax - 1
      /\ s # t /\ e \notin DOMAIN stat
      /\ CanAddExt(user, s, -m) /\ CanAddExt(user, t, -n)
      /\ stat' = Put(stat, e, new)
      /\ accounts' = AddBalance(accounts, user, e, root)
      /\ evodexacnts' = AddExt(user, change)
  BY DEF InitToken
<1>2. /\ m \in Nat /\ n \in Nat /\ m > 0 /\ n > 0
      /\ user \in Holders /\ e \in Tokens
  BY <1>1, InputsAssumption, UsersAreHolders DEF Tokens
<1>3. s # e /\ t # e
  BY <1>1, <1>2, NoShareBefore
<1>4. root \in Nat /\ root * root <= m * n /\ m * n < (root + 1) * (root + 1)
  BY <1>1, RootBounds
<1> HIDE DEF root
<1>5. DOMAIN change = pair /\ \A x \in pair : change[x] = -pool[x] /\ pool[x] \in Nat /\ pool[x] > 0
  BY <1>2
<1>6. /\ DOMAIN stat' = DOMAIN stat \cup {e} /\ stat'[e] = new
      /\ \A f \in DOMAIN stat : stat'[f] = stat[f]
  <2> HIDE DEF new
  <2> QED
    BY <1>1 DEF Put
<1>7. stat'[e].supply = root /\ stat'[e].pool = pool
  BY <1>6
<1>8. Market!Between(user, e)
  <2>1. \A a, x : Row(accounts', <<a, x>>) = Added(accounts, user, e, root, a, x)
    <3>1. Row(accounts, <<user, e>>) + root >= 0 /\ AccountsOK(accounts)
      <4>1. Row(accounts, <<user, e>>) \in Nat
        BY HasIs
      <4> QED
        BY <1>4, <4>1, InvTypes
    <3>2. \A a, x : Row(AddBalance(accounts, user, e, root), <<a, x>>) =
                       Added(accounts, user, e, root, a, x)
      <4> TAKE a, x
      <4> QED
        BY <1>2, <1>4, <3>1, BalanceRows
    <3> QED
      BY <1>1, <3>2
  <2>2. \A u, x :
          Row(evodexacnts', <<u, x>>) =
              Row(evodexacnts, <<u, x>>) + Gets(u, x, user, change)
    <3>1. \A x \in DOMAIN change : change[x] \in Int /\ CanAddExt(user, x, change[x])
      BY <1>1, <1>2
    <3> HIDE DEF change
    <3> QED
      BY <1>1, <3>1, DepositRows
  <2>3. ASSUME NEW x \in Tokens
        PROVE  Has(user, x)' = Has(user, x)
               + (IF x = e THEN SupplyOf(stat', e) - SupplyOf(stat, e) ELSE 0)
               - (ReserveOf(stat', e, x) - ReserveOf(stat, e, x))
    <3> DEFINE g  == IF x = e THEN SupplyOf(stat', e) - SupplyOf(stat, e) ELSE 0
               r  == ReserveOf(stat', e, x) - ReserveOf(stat, e, x)
               a  == Row(accounts, <<user, x>>)
               a2 == Row(accounts', <<user, x>>)
               d  == Row(evodexacnts, <<user, x>>)
               d2 == Row(evodexacnts', <<user, x>>)
    <3>1. g = IF x = e THEN root ELSE 0
      BY <1>1, <1>4, <1>6, <1>7 DEF SupplyOf
    <3>2. r \in Int /\ d2 = d + (-r)
      <4>1. ReserveOf(stat, e, x) = 0
        BY <1>1 DEF ReserveOf
      <4>2. CASE x \in pair
        <5>1. ReserveOf(stat', e, x) = pool[x]
          BY <1>6, <1>7, <4>2 DEF ReserveOf, Row
        <5>2. pool[x] \in Nat /\ d2 = d + (-pool[x])
          BY <1>5, <2>2, <4>2 DEF Gets
        <5> HIDE DEF pool, pair, d, d2
        <5>3. r = pool[x]
          BY <4>1, <5>1, <5>2
        <5> HIDE DEF r
        <5> QED
          BY <5>2, <5>3
      <4>3. CASE x \notin pair
        <5>1. ReserveOf(stat', e, x) = 0
          BY <1>6, <1>7, <4>3 DEF ReserveOf, Row
        <5>2. d2 = d + 0
          BY <1>5, <2>2, <4>3 DEF Gets
        <5> QED
          BY <4>1, <5>1, <5>2
      <4> QED
        BY <4>2, <4>3
    <3>3. a2 = IF x = e THEN a + root ELSE a
      BY <2>1 DEF Added
    <3>4. a \in Int /\ d \in Int /\ Has(user, x) = a + d /\ Has(user, x)' = a2 + d2
      BY HasIs
    <3>5. a2 + d2 = (a + d) + g - r
      <4> HIDE DEF a, a2, d, d2, g, r
      <4> QED
        BY <1>4, <3>1, <3>2, <3>3, <3>4
    <3> HIDE DEF a, a2, d, d2, g, r
    <3>6. Has(user, x)' = Has(user, x) + g - r
      BY <3>4, <3>5
    <3> QED
      BY <3>6 DEF g, r
  <2>4. ASSUME NEW u \in Users \ {user}, NEW x \in Tokens
        PROVE  Has(u, x)' = Has(u, x)
    <3>1. Row(evodexacnts', <<u, x>>) = Row(evodexacnts, <<u, x>>) + 0
      BY <2>2 DEF Gets
    <3>2. Row(accounts', <<u, x>>) = Row(accounts, <<u, x>>)
      BY <2>1 DEF Added
    <3> QED
      BY <3>1, <3>2, HasIs
  <2> QED
    BY <1>6, <2>3, <2>4, PoolStep
<1>9. /\ e \notin DOMAIN p /\ e \in DOMAIN p2
      /\ p2[e].supply = root /\ p2[e].reserves = pool
  <2>1. e \notin DOMAIN stat /\ e \in DOMAIN stat'
    BY <1>1, <1>6
  <2> HIDE DEF pool, new
  <2> QED
    BY <1>7, <2>1, PoolsAre
<1>10. /\ DOMAIN pool = {s, t} /\ pool[s] = m /\ pool[t] = n
       /\ s \in Tokens \ {e} /\ t \in Tokens \ {e}
  BY <1>1, <1>3
<1> HIDE DEF pool, new, change, p, p2
<1>11. Market!Found(user, e)
  BY <1>1, <1>2, <1>4, <1>8, <1>9, <1>10 DEF Market!Found, p, p2
<1> QED
  BY <1>11

(* Every step is one of the market, or leaves it as it is. *)
LEMMA NextIsMarket ==
    ASSUME Inv, [Next]_vars
    PROVE  [Market!Next]_Market!vars
<1>1. Inv'
  BY NextKeeps
<1>2. CASE Depositing
  <2>1. CASE \E row \in ExtRows :
                 \/ OpenExt(row[1], row[2])
                 \/ \E to \in Users : CloseExt(row[1], to, row[2])
    <3>1. PICK row \in ExtRows :
                 \/ OpenExt(row[1], row[2])
                 \/ \E to \in Users : CloseExt(row[1], to, row[2])
      BY <2>1
    <3>2. row[1] \in Users /\ row[2] \in Tokens
      BY InputsAssumption
    <3> QED
      BY <1>1, <3>1, <3>2, OpenExtStep, CloseExtStep
  <2>2. CASE \E u, to \in Users, t \in Tokens : \E n \in Amounts[t] :
                 Deposit(u, to, t, n) \/ Withdraw(u, to, t, n)
    BY <1>1, <2>2, DepositStep, WithdrawStep
  <2> QED
    BY <1>2, <2>1, <2>2 DEF Depositing
<1>3. CASE Providing
  <2>1. PICK u \in Users, e \in DOMAIN stat :
            \E n \in Amounts[e], l \in [DOMAIN stat[e].pool -> Limits] :
                AddLiquidity(u, e, n, l) \/ RemLiquidity(u, e, n, l)
    BY <1>3 DEF Providing
  <2>2. PICK n \in Amounts[e], l \in [DOMAIN stat[e].pool -> Limits] :
                AddLiquidity(u, e, n, l) \/ RemLiquidity(u, e, n, l)
    BY <2>1
  <2>3. n \in Nat /\ n > 0
    BY InvTypes, PoolShape, AmountsAreNat DEF Tokens
  <2>4. e \in Evo /\ Market!Provide(u, e)
    <3>1. CASE AddLiquidity(u, e, n, l)
      <4>1. AddSignedLiq(u, e, n, AddLiquidityFee, l) /\ AddLiquidityFee \in Nat
        BY <3>1 DEF AddLiquidity, AddLiquidityFee
      <4> QED
        BY <1>1, <2>3, <4>1, LiquidityIsFair
    <3>2. CASE RemLiquidity(u, e, n, l)
      <4> DEFINE limit == [t \in DOMAIN l |-> -l[t]]
      <4>1. AddSignedLiq(u, e, -n, 0, limit)
        BY <3>2 DEF RemLiquidity
      <4>2. \A t \in DOMAIN stat[e].pool : limit[t] \in Int /\ limit[t] <= 0
        <5> TAKE t \in DOMAIN stat[e].pool
        <5>1. l[t] \in Nat /\ limit[t] = -l[t]
          BY InputsAssumption
        <5> HIDE DEF limit
        <5> QED
          BY <5>1
      <4>3. -n \in Int /\ 0 \in Nat
        BY <2>3
      <4> HIDE DEF limit
      <4> QED
        BY <1>1, <4>1, <4>2, <4>3, LiquidityIsFair
    <3> QED
      BY <2>2, <3>1, <3>2
  <2> QED
    BY <2>4 DEF Market!Next
<1>4. CASE Trading
  <2>1. PICK u \in Users, e \in DOMAIN stat, l \in Limits :
            \E t \in DOMAIN stat[e].pool : \E n \in Amounts[t] :
                \/ Exchange(u, e, t, n, l) \/ Exchange(u, e, t, -n, -l)
                \/ MemoExchange(u, e, t, n, l)
    BY <1>4 DEF Trading
  <2>2. l \in Nat /\ l \in Int /\ -l \in Int
    BY InputsAssumption
  <2>3. \A t \in DOMAIN stat[e].pool : \A n \in Amounts[t] : n \in Int /\ -n \in Int
    BY InvTypes, PoolShape, AmountsAreNat
  <2>4. e \in Evo /\ Market!Exchange(u, e)
    BY <1>1, <2>1, <2>2, <2>3, ExchangeIsFair, MemoExchangeIsFair
  <2> QED
    BY <2>4 DEF Market!Next
<1>5. CASE Governing
  <2>1. CASE \E u \in Users, e \in Evo, s, t \in Tokens :
                 \E m \in Amounts[s], n \in Amounts[t] : InitToken(u, e, s, m, t, n)
    <3>1. PICK u \in Users, e \in Evo : Market!Found(u, e)
      BY <1>1, <2>1, InitTokenStep
    <3> QED
      BY <3>1 DEF Market!Next
  <2>2. CASE \E e \in Evo : IndexPair(e)
    <3>1. stat' = stat /\ accounts' = accounts /\ evodexacnts' = evodexacnts
      BY <2>2 DEF IndexPair
    <3> QED
      BY <3>1, StillStep
  <2>3. CASE \E e \in Evo, fee \in Fees : ChangeFee(e, fee)
    BY <2>3, ChangeFeeStep
  <2> QED
    BY <1>5, <2>1, <2>2, <2>3 DEF Governing
<1>6. CASE Holding
  BY <1>1, <1>6, TransferStep, OpenStep, CloseStep DEF Holding
<1>7. CASE UNCHANGED vars
  <2>1. stat' = stat /\ accounts' = accounts /\ evodexacnts' = evodexacnts
    BY <1>7 DEF vars
  <2> QED
    BY <2>1, StillStep
<1> QED
  BY <1>2, <1>3, <1>4, <1>5, <1>6, <1>7 DEF Next

LEMMA InitIsMarket ==
    ASSUME Inv
    PROVE  Market!Init
<1>1. Owned(accounts, evodexacnts) \in [Users -> [Tokens -> Nat]]
  BY InvTypes, OwnedType
<1>2. DOMAIN PoolsOf(stat) \subseteq Evo
  BY InvTypes, PoolShape DEF PoolsOf
<1> QED
  BY <1>1, <1>2 DEF Market!Init

(* The contract implements the market: whatever is called, nobody else's   *)
(* money is touched, one pool at most takes part and gets what the user    *)
(* gives, and no exchange or share is cheaper than its reserves say        *)
(* (ontransfer, withdraw, process_exch, add_signed_liq, inittoken).        *)
THEOREM MarketIsKept == Spec => KeepsMarket
<1>1. Init => Market!Init
  BY InitInv, InitIsMarket
<1>2. Inv /\ [Next]_vars => [Market!Next]_Market!vars
  BY NextIsMarket
<1> QED
  BY <1>1, <1>2, AlwaysInv, PTL DEF Spec, KeepsMarket, Market!Spec
=============================================================================
