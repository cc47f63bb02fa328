---------------------------- MODULE WeVoteProofs -----------------------------
(***************************************************************************)
(* The fee contract: what TLAPS proves of WeVoteTheFee.                    *)
(*                                                                         *)
(* The invariant is Counted: the votes of a table are the balances of its  *)
(* voters.  It needs the types, and that voters and queued fees belong to  *)
(* pools that exist (Sound).  Every step either moves balances, and then   *)
(* the notifications move the votes by as much (Follows), or changes the   *)
(* votes themselves.                                                       *)
(***************************************************************************)
EXTENDS WeVoteTheFee, EvoDexProofs

FeeAccountsOK(fa) == IsTable(fa, Users \X Evo, MIN_FEE_INDEX .. MAX_FEE_INDEX)
FeeTablesOK(tables) == IsTable(tables, Evo, [Indices -> Int])

VotesOf(tables, e, i) == IF e \in DOMAIN tables THEN tables[e][i] ELSE 0

(* What user u's balance counts for place i. *)
Standing(fa, ac, u, e, i) ==
    IF <<u, e>> \in DOMAIN fa /\ fa[<<u, e>>] = i THEN Row(ac, <<u, e>>) ELSE 0

BackingOf(fa, ac, e, i) ==
    SumFunctionOnSet([u \in Users |-> Standing(fa, ac, u, e, i)], Users)

Matches(tables, fa, ac) ==
    \A e \in Evo, i \in Indices : VotesOf(tables, e, i) = BackingOf(fa, ac, e, i)

Counted == Matches(feetables, feeaccounts, accounts)

LEMMA CountedIsVotes == Counted <=> VotesAreBalances
  BY DEF Counted, Matches, VotesAreBalances, Votes, VotesOf, Backing, BackingOf, Standing,
         IsVoter

LEMMA StandingIsNat ==
    ASSUME NEW fa, NEW ac, AccountsOK(ac)
    PROVE  \A u, e, i : Standing(fa, ac, u, e, i) \in Nat
<1>1. \A k : Row(ac, k) \in Nat
  BY RowIsNat DEF AccountsOK
<1> QED
  BY <1>1 DEF Standing

LEMMA BackingIsNat ==
    ASSUME NEW fa, NEW ac, AccountsOK(ac), NEW e, NEW i
    PROVE  /\ BackingOf(fa, ac, e, i) \in Nat
           /\ \A u \in Users : Standing(fa, ac, u, e, i) <= BackingOf(fa, ac, e, i)
<1> DEFINE f == [u \in Users |-> Standing(fa, ac, u, e, i)]
<1>1. IsFiniteSet(Users) /\ \A u \in Users : f[u] \in Nat
  BY StandingIsNat, HoldersFinite
<1>2. SumFunctionOnSet(f, Users) \in Nat
  BY <1>1, SumIsNat
<1>3. \A u \in Users : f[u] <= SumFunctionOnSet(f, Users)
  BY <1>1, SumAtLeast
<1> QED
  BY <1>2, <1>3 DEF BackingOf

(* When the standing of one user changes, the sum changes by as much. *)
LEMMA BackingChanges ==
    ASSUME NEW fa, NEW ac, NEW fb, NEW bc, AccountsOK(ac), AccountsOK(bc),
           NEW user \in Users, NEW e, NEW i,
           \A u \in Users \ {user} : Standing(fb, bc, u, e, i) = Standing(fa, ac, u, e, i)
    PROVE  BackingOf(fb, bc, e, i) = BackingOf(fa, ac, e, i)
              + (Standing(fb, bc, user, e, i) - Standing(fa, ac, user, e, i))
<1> DEFINE f == [u \in Users |-> Standing(fa, ac, u, e, i)]
           h == [u \in Users |-> Standing(fb, bc, u, e, i)]
<1>1. \A u \in Users : f[u] \in Int /\ h[u] \in Int
  BY StandingIsNat
<1>2. IsFiniteSet(Users) /\ \A u \in Users \ {user} : h[u] = f[u]
  BY HoldersFinite
<1>3. SumFunctionOnSet(h, Users) = SumFunctionOnSet(f, Users) + (h[user] - f[user])
  BY <1>1, <1>2, SumUpdate
<1> QED
  BY <1>3 DEF BackingOf

LEMMA BackingStays ==
    ASSUME NEW fa, NEW ac, NEW fb, NEW bc, AccountsOK(ac), NEW e, NEW i,
           \A u \in Users : Standing(fb, bc, u, e, i) = Standing(fa, ac, u, e, i)
    PROVE  BackingOf(fb, bc, e, i) = BackingOf(fa, ac, e, i)
<1> DEFINE f == [u \in Users |-> Standing(fa, ac, u, e, i)]
           h == [u \in Users |-> Standing(fb, bc, u, e, i)]
<1>1. IsFiniteSet(Users) /\ \A u \in Users : f[u] \in Int /\ f[u] = h[u]
  BY StandingIsNat, HoldersFinite
<1>2. SumFunctionOnSet(f, Users) = SumFunctionOnSet(h, Users)
  BY <1>1, SumSame
<1> QED
  BY <1>2 DEF BackingOf
-----------------------------------------------------------------------------
LEMMA VotesAdded ==
    ASSUME NEW tables, FeeTablesOK(tables), NEW e \in DOMAIN tables,
           NEW i \in Indices, NEW n \in Int
    PROVE  LET new == AddVote(tables, e, i, n)
           IN  /\ FeeTablesOK(new) /\ DOMAIN new = DOMAIN tables
               /\ \A f, j : j \in Indices =>
                     VotesOf(new, f, j) = IF f = e /\ j = i THEN VotesOf(tables, f, j) + n
                                                           ELSE VotesOf(tables, f, j)
<1>1. tables[e] \in [Indices -> Int]
  BY DEF FeeTablesOK, IsTable
<1>2. AddVote(tables, e, i, n) =
          [f \in DOMAIN tables |-> IF f = e THEN [tables[e] EXCEPT ![i] = @ + n]
                                            ELSE tables[f]]
  BY DEF AddVote
<1>3. [tables[e] EXCEPT ![i] = @ + n] \in [Indices -> Int]
  BY <1>1
<1> QED
  BY <1>1, <1>2, <1>3 DEF FeeTablesOK, IsTable, VotesOf

(* The votes follow the balance of one account. *)
LEMMA BalanceFollowed ==
    ASSUME FeeAccountsOK(feeaccounts),
           NEW tables, FeeTablesOK(tables), NEW ac, AccountsOK(ac),
           NEW owner \in Holders, NEW token \in Tokens, NEW n \in Int,
           Row(ac, <<owner, token>>) + n >= 0,
           IsVoter(owner, token) => token \in DOMAIN tables
    PROVE  LET new == AddVotes(tables, owner, token, n)
           IN  /\ FeeTablesOK(new) /\ DOMAIN new = DOMAIN tables
               /\ Matches(tables, feeaccounts, ac) =>
                     Matches(new, feeaccounts, AddBalance(ac, owner, token, n))
<1> DEFINE new == AddVotes(tables, owner, token, n)
           bc  == AddBalance(ac, owner, token, n)
           fa  == feeaccounts
           B(a, u, e, i) == Standing(fa, a, u, e, i)
<1>1. /\ AccountsOK(bc)
      /\ \A a, t : Row(bc, <<a, t>>) = IF a = owner /\ t = token
                                       THEN Row(ac, <<a, t>>) + n ELSE Row(ac, <<a, t>>)
  BY BalanceAdded
<1>2. CASE IsVoter(owner, token)
  <2> DEFINE index == fa[<<owner, token>>]
  <2>1. owner \in Users /\ token \in Evo /\ index \in Indices
    BY <1>2 DEF IsVoter, FeeAccountsOK, IsTable, MIN_FEE_INDEX, MAX_FEE_INDEX, Indices
  <2>2. new = AddVote(tables, token, index, n)
    BY <1>2 DEF AddVotes
  <2>3. /\ FeeTablesOK(new) /\ DOMAIN new = DOMAIN tables
        /\ \A f, j : j \in Indices =>
              VotesOf(new, f, j) = IF f = token /\ j = index THEN VotesOf(tables, f, j) + n
                                                            ELSE VotesOf(tables, f, j)
    <3>1. token \in DOMAIN tables
      BY <1>2
    <3> HIDE DEF index
    <3> QED
      BY <2>1, <2>2, <3>1, VotesAdded
  <2>4. ASSUME Matches(tables, fa, ac), NEW e \in Evo, NEW i \in Indices
        PROVE  VotesOf(new, e, i) = BackingOf(fa, bc, e, i)
    <3>1. \A u \in Users \ {owner} : B(bc, u, e, i) = B(ac, u, e, i)
      BY <1>1 DEF Standing
    <3>2. BackingOf(fa, bc, e, i)
              = BackingOf(fa, ac, e, i) + (B(bc, owner, e, i) - B(ac, owner, e, i))
      BY <1>1, <2>1, <3>1, BackingChanges
    <3>3. B(bc, owner, e, i) - B(ac, owner, e, i) = IF e = token /\ i = index THEN n ELSE 0
      <4>1. Row(ac, <<owner, e>>) \in Nat
        BY RowIsNat DEF AccountsOK
      <4>2. CASE e = token
        BY <1>1, <1>2, <4>1, <4>2 DEF Standing, IsVoter
      <4>3. CASE e # token
        BY <1>1, <4>1, <4>3 DEF Standing
      <4> QED
        BY <4>2, <4>3
    <3>4. VotesOf(tables, e, i) = BackingOf(fa, ac, e, i) /\ BackingOf(fa, ac, e, i) \in Nat
      BY <2>4, BackingIsNat DEF Matches
    <3> QED
      BY <2>3, <3>2, <3>3, <3>4
  <2> QED
    BY <2>3, <2>4 DEF Matches
<1>3. CASE ~IsVoter(owner, token)
  <2>1. new = tables
    BY <1>3 DEF AddVotes
  <2>2. ASSUME NEW e \in Evo, NEW i \in Indices
        PROVE  BackingOf(fa, bc, e, i) = BackingOf(fa, ac, e, i)
    <3>1. \A u \in Users : B(bc, u, e, i) = B(ac, u, e, i)
      BY <1>1, <1>3 DEF Standing, IsVoter
    <3> QED
      BY <3>1, BackingStays
  <2> QED
    BY <2>1, <2>2 DEF Matches
<1> QED
  BY <1>2, <1>3
-----------------------------------------------------------------------------
Known(table) == \A k \in DOMAIN table : k[2] \in Evo => k[2] \in DOMAIN stat

ElectedFees == {FEE_VECTOR[i] : i \in Indices}

(* What is queued was the median, and still is. *)
QueuedFees ==
    /\ IsTable(changefees, DOMAIN stat, ElectedFees)
    /\ \A e \in DOMAIN changefees :
          /\ e \in DOMAIN feetables
          /\ \E i \in Indices : /\ changefees[e] = FEE_VECTOR[i]
                                /\ IsMedianIndex(i, feetables[e])

Sound ==
    /\ Inv
    /\ FeeAccountsOK(feeaccounts) /\ FeeTablesOK(feetables)
    /\ QueuedFees
    /\ Known(accounts) /\ Known(feeaccounts)

NoneQueued == DOMAIN changefees = {}

(* What a notification does to the votes. *)
Follows ==
    /\ UNCHANGED feeaccounts
    /\ FeeTablesOK(feetables')
    /\ QueuedFees'
    /\ Counted => Counted'

LEMMA SoundParts ==
    ASSUME Sound
    PROVE  /\ AccountsOK(accounts) /\ DepositsOK(evodexacnts) /\ StatOK(stat)
           /\ FeeAccountsOK(feeaccounts) /\ FeeTablesOK(feetables)
           /\ \A k : Row(accounts, k) \in Nat
           /\ \A e : ~IsVoter(Dex, e)
<1>1. AccountsOK(accounts) /\ DepositsOK(evodexacnts) /\ StatOK(stat)
  BY InvTypes DEF Sound
<1>2. \A k : Row(accounts, k) \in Nat
  BY <1>1, RowIsNat DEF AccountsOK
<1>3. \A e : ~IsVoter(Dex, e)
  BY HoldersFinite DEF Sound, FeeAccountsOK, IsTable, IsVoter
<1> QED
  BY <1>1, <1>2, <1>3 DEF Sound

LEMMA FeeCalled ==
    ASSUME NEW e \in DOMAIN stat', e \in DOMAIN feetables', UpdateFeeBy(feetables', e)
    PROVE  QueuedFees'
<1>1. PICK i \in Indices : /\ IsMedianIndex(i, feetables'[e])
                           /\ changefees' = [x \in {e} |-> FEE_VECTOR[i]]
  BY DEF UpdateFeeBy
<1>2. DOMAIN changefees' = {e} /\ changefees'[e] = FEE_VECTOR[i]
  BY <1>1
<1> QED
  BY <1>1, <1>2 DEF QueuedFees, IsTable, ElectedFees

LEMMA NothingCalled ==
    ASSUME NoneQueued, UNCHANGED changefees
    PROVE  QueuedFees'
  BY DEF NoneQueued, QueuedFees, IsTable

(* A voter's pool token names a pool, and can have its votes changed. *)
LEMMA VotersPool ==
    ASSUME Sound, NEW u, NEW e, IsVoter(u, e), DOMAIN stat' = DOMAIN stat
    PROVE  e \in Evo /\ e \in DOMAIN stat'
  BY DEF Sound, Known, IsVoter, FeeAccountsOK, IsTable

LEMMA TransferFollowed ==
    ASSUME Sound, NoneQueued, DOMAIN stat' = DOMAIN stat,
           NEW from \in Holders, NEW to \in Holders, NEW token \in Tokens, NEW n,
           CanTransfer(accounts, from, to, token, n),
           accounts' = Transferred(accounts, from, to, token, n),
           OnTransfer(from, to, token, n)
    PROVE  Follows /\ Known(accounts)'
<1> DEFINE mid == AddBalance(accounts, from, token, -n)
           tables == AddVotes(feetables, from, token, -n)
<1>1. n \in Nat \ {0} /\ n <= Row(accounts, <<from, token>>)
  BY SoundParts DEF CanTransfer
<1>2. -n \in Int /\ Row(accounts, <<from, token>>) + (-n) >= 0
  BY <1>1, SoundParts
<1>3. AccountsOK(mid)
  BY <1>2, SoundParts, BalanceAdded
<1>4. /\ FeeTablesOK(tables) /\ DOMAIN tables = DOMAIN feetables
      /\ Counted => Matches(tables, feeaccounts, mid)
  BY <1>2, SoundParts, BalanceFollowed DEF OnTransfer, CanAddVotes, Counted
<1>5. accounts' = AddBalance(mid, to, token, n)
  BY DEF Transferred
<1>6. feetables' = AddVotes(tables, to, token, n) /\ feeaccounts' = feeaccounts
  BY DEF OnTransfer
<1>7. Row(mid, <<to, token>>) + n >= 0
  BY <1>1, <1>3, RowIsNat DEF AccountsOK
<1> HIDE DEF mid, tables
<1>8. /\ FeeTablesOK(feetables') /\ DOMAIN feetables' = DOMAIN feetables
      /\ Counted => Counted'
  <2>1. IsVoter(to, token) => token \in DOMAIN tables
    BY <1>4 DEF OnTransfer, CanAddVotes
  <2> QED
    BY <1>1, <1>3, <1>4, <1>5, <1>6, <1>7, <2>1, SoundParts, BalanceFollowed DEF Counted
<1>9. QueuedFees'
  <2>1. CASE IsVoter(to, token)
    <3>1. token \in DOMAIN stat' /\ token \in DOMAIN feetables'
      BY <1>8, <2>1, VotersPool DEF OnTransfer, CanAddVotes
    <3> QED
      BY <2>1, <3>1, FeeCalled DEF OnTransfer
  <2>2. CASE ~IsVoter(to, token)
    BY <2>2, NothingCalled DEF OnTransfer
  <2> QED
    BY <2>1, <2>2
<1>10. Known(accounts)'
  <2>1. <<from, token>> \in DOMAIN accounts
    BY <1>1 DEF Row
  <2>2. DOMAIN accounts' = DOMAIN accounts \cup {<<from, token>>, <<to, token>>}
    BY <1>5 DEF AddBalance, Put, mid
  <2> QED
    BY <2>1, <2>2 DEF Known, Sound
<1> QED
  BY <1>6, <1>8, <1>9, <1>10 DEF Follows

LEMMA LiquidityFollowed ==
    ASSUME Sound, NoneQueued, DOMAIN stat' = DOMAIN stat,
           NEW user \in Users, NEW e \in DOMAIN stat, NEW n \in Int,
           Row(accounts, <<user, e>>) + n >= 0,
           accounts' = AddBalance(accounts, user, e, n),
           OnLiquidity(user, e, n)
    PROVE  Follows /\ Known(accounts)'
<1>1. user \in Holders /\ e \in Tokens
  BY SoundParts DEF Holders, Tokens, StatOK, IsTable
<1>2. feetables' = AddVotes(feetables, user, e, n) /\ feeaccounts' = feeaccounts
  BY DEF OnLiquidity
<1>3. /\ FeeTablesOK(feetables') /\ DOMAIN feetables' = DOMAIN feetables
      /\ Counted => Counted'
  BY <1>1, <1>2, SoundParts, BalanceFollowed DEF OnLiquidity, CanAddVotes, Counted
<1>4. QueuedFees'
  <2>1. CASE IsVoter(user, e)
    BY <1>3, <2>1, FeeCalled DEF OnLiquidity, CanAddVotes
  <2>2. CASE ~IsVoter(user, e)
    BY <2>2, NothingCalled DEF OnLiquidity
  <2> QED
    BY <2>1, <2>2
<1>5. Known(accounts)'
  <2>1. DOMAIN accounts' = DOMAIN accounts \cup {<<user, e>>}
    BY DEF AddBalance, Put
  <2> QED
    BY <2>1 DEF Known, Sound
<1> QED
  BY <1>2, <1>3, <1>4, <1>5 DEF Follows

(* A step of which the fee contract is not told, and that changes no       *)
(* balance of a voter.                                                     *)
LEMMA NothingFollowed ==
    ASSUME Sound, NoneQueued, NotConcerned,
           \A u, e : IsVoter(u, e) => Row(accounts', <<u, e>>) = Row(accounts, <<u, e>>)
    PROVE  Follows
<1>1. Counted => Counted'
  <2>1. ASSUME NEW e \in Evo, NEW i \in Indices
        PROVE  BackingOf(feeaccounts', accounts', e, i) = BackingOf(feeaccounts, accounts, e, i)
    <3>1. \A u \in Users : Standing(feeaccounts', accounts', u, e, i)
                             = Standing(feeaccounts, accounts, u, e, i)
      BY DEF Standing, IsVoter, NotConcerned
    <3> QED
      BY <3>1, SoundParts, BackingStays
  <2> QED
    BY <2>1 DEF Counted, Matches, NotConcerned
<1> QED
  BY <1>1, NothingCalled, SoundParts DEF Follows, NotConcerned

(* The contract itself has no vote. *)
LEMMA DexNotFollowed ==
    ASSUME Sound, NEW tables, FeeTablesOK(tables), NEW ac, AccountsOK(ac),
           NEW token \in Tokens, NEW n \in Int, Row(ac, <<Dex, token>>) + n >= 0
    PROVE  /\ AccountsOK(AddBalance(ac, Dex, token, n))
           /\ Matches(tables, feeaccounts, ac) =>
                 Matches(tables, feeaccounts, AddBalance(ac, Dex, token, n))
<1>1. Dex \in Holders /\ ~IsVoter(Dex, token)
  BY SoundParts DEF Holders
<1>2. AddVotes(tables, Dex, token, n) = tables
  BY <1>1 DEF AddVotes
<1> QED
  BY <1>1, <1>2, SoundParts, BalanceFollowed, BalanceAdded

LEMMA MemoFollowed ==
    ASSUME Sound, NoneQueued, NEW user \in Users, NEW e, NEW token, NEW n \in Int, NEW min,
           MemoExchange(user, e, token, n, min), OnMemoExchange(user, e, token, n)
    PROVE  Follows /\ Known(accounts)'
<1> DEFINE other == Other(e, token)
           out   == Out(e, token, n)
           paid  == Transferred(accounts, user, Dex, token, n)
           m1    == AddBalance(accounts, user, token, -n)
           m3    == AddBalance(paid, Dex, other, -out)
           t1    == AddVotes(feetables, user, token, -n)
<1>1. user \in Holders /\ Dex \in Holders
  BY DEF Holders
<1>2. /\ token \in Tokens /\ other \in Tokens /\ out \in Int
      /\ DOMAIN stat' = DOMAIN stat
  BY ExchangedReserves, ExchangedPool DEF MemoExchange, Sound
<1>3. /\ CanTransfer(accounts, user, Dex, token, n)
      /\ CanTransfer(paid, Dex, user, other, out)
      /\ accounts' = Transferred(paid, Dex, user, other, out)
      /\ CanAddVotes(user, token) /\ CanAddVotes(user, other)
      /\ feetables' = AddVotes(t1, user, other, out)
      /\ feeaccounts' = feeaccounts
      /\ IF IsVoter(user, other) THEN UpdateFeeBy(feetables', other) ELSE UNCHANGED changefees
  BY DEF MemoExchange, OnMemoExchange
<1> HIDE DEF other, out
<1>4. n \in Nat \ {0} /\ n <= Row(accounts, <<user, token>>)
      /\ out \in Nat \ {0} /\ out <= Row(paid, <<Dex, other>>)
  <2>1. Row(accounts, <<user, token>>) \in Nat
    BY SoundParts
  <2>2. AccountsOK(paid)
    BY <1>1, <1>2, <1>3, SoundParts, TransferMoves
  <2>3. Row(paid, <<Dex, other>>) \in Nat
    BY <2>2, RowIsNat DEF AccountsOK
  <2> QED
    BY <1>3, <2>1, <2>3 DEF CanTransfer
<1>5. /\ AccountsOK(m1) /\ FeeTablesOK(t1) /\ DOMAIN t1 = DOMAIN feetables
      /\ Counted => Matches(t1, feeaccounts, m1)
  <2>1. -n \in Int /\ Row(accounts, <<user, token>>) + (-n) >= 0
    BY <1>4, SoundParts
  <2> QED
    BY <1>1, <1>2, <1>3, <2>1, SoundParts, BalanceAdded, BalanceFollowed
       DEF CanAddVotes, Counted
<1>6. paid = AddBalance(m1, Dex, token, n)
      /\ accounts' = AddBalance(m3, user, other, out)
  BY <1>3 DEF Transferred
<1> HIDE DEF m1, t1, paid
<1>7. AccountsOK(paid) /\ (Counted => Matches(t1, feeaccounts, paid))
  <2>1. Row(m1, <<Dex, token>>) + n >= 0
    BY <1>4, <1>5, RowIsNat DEF AccountsOK
  <2> QED
    BY <1>2, <1>5, <1>6, <2>1, DexNotFollowed
<1>8. AccountsOK(m3) /\ (Counted => Matches(t1, feeaccounts, m3))
  <2>1. -out \in Int /\ Row(paid, <<Dex, other>>) + (-out) >= 0
    BY <1>4, <1>7, RowIsNat DEF AccountsOK
  <2> QED
    BY <1>2, <1>5, <1>7, <2>1, DexNotFollowed
<1> HIDE DEF m3
<1>9. /\ FeeTablesOK(feetables') /\ DOMAIN feetables' = DOMAIN feetables
      /\ Counted => Counted'
  <2>1. Row(m3, <<user, other>>) + out >= 0
    BY <1>4, <1>8, RowIsNat DEF AccountsOK
  <2>2. IsVoter(user, other) => other \in DOMAIN t1
    BY <1>3, <1>5 DEF CanAddVotes
  <2> QED
    BY <1>1, <1>2, <1>3, <1>5, <1>6, <1>8, <2>1, <2>2, SoundParts, BalanceFollowed
       DEF Counted
<1>10. QueuedFees'
  <2>1. CASE IsVoter(user, other)
    <3>1. other \in DOMAIN stat' /\ other \in DOMAIN feetables'
      BY <1>2, <1>3, <1>9, <2>1, VotersPool DEF CanAddVotes
    <3> QED
      BY <1>3, <2>1, <3>1, FeeCalled
  <2>2. CASE ~IsVoter(user, other)
    BY <1>3, <2>2, NothingCalled
  <2> QED
    BY <2>1, <2>2
<1>11. Known(accounts)'
  <2>1. DOMAIN paid = DOMAIN accounts \cup {<<user, token>>, <<Dex, token>>}
    BY DEF paid, Transferred, AddBalance, Put
  <2>2. DOMAIN accounts' = DOMAIN paid \cup {<<Dex, other>>, <<user, other>>}
    BY <1>3 DEF Transferred, AddBalance, Put
  <2>3. <<user, token>> \in DOMAIN accounts /\ <<Dex, other>> \in DOMAIN paid
    BY <1>4 DEF Row
  <2> QED
    BY <1>2, <2>1, <2>2, <2>3 DEF Known, Sound
<1> QED
  BY <1>3, <1>9, <1>10, <1>11 DEF Follows
-----------------------------------------------------------------------------
FeesKept ==
    DOMAIN stat' = DOMAIN stat /\ \A e \in DOMAIN stat : stat'[e].fee = stat[e].fee

LEMMA DepositingFollowed ==
    ASSUME Sound, NoneQueued, NotifiedDepositing
    PROVE  Next /\ Follows /\ Known(accounts)' /\ FeesKept
<1> USE AmountsAreNat
<1>1. ASSUME NEW user \in Users, NEW token \in Tokens, OpenExt(user, token), NotConcerned
      PROVE  Follows /\ Known(accounts)' /\ FeesKept
  BY <1>1, NothingFollowed DEF OpenExt, FeesKept, Known, Sound
<1>2. ASSUME NEW user \in Users, NEW to \in Users, NEW token \in Tokens,
             CloseExt(user, to, token),
             IF evodexacnts[<<user, token>>] = 0 THEN NotConcerned
             ELSE OnTransfer(Dex, to, token, evodexacnts[<<user, token>>])
      PROVE  Follows /\ Known(accounts)' /\ FeesKept
  <2>1. FeesKept
    BY <1>2 DEF CloseExt, FeesKept
  <2>2. CASE evodexacnts[<<user, token>>] = 0
    <3>1. accounts' = accounts
      BY <1>2, <2>2 DEF CloseExt, CanTransfer
    <3>2. Follows
      BY <1>2, <2>2, <3>1, NothingFollowed
    <3> QED
      BY <1>2, <2>1, <3>1, <3>2 DEF Known, Sound, CloseExt
  <2>3. CASE evodexacnts[<<user, token>>] # 0
    <3>1. Dex \in Holders /\ to \in Holders
      BY DEF Holders
    <3> QED
      BY <1>2, <2>1, <2>3, <3>1, TransferFollowed DEF CloseExt, FeesKept
  <2> QED
    BY <2>2, <2>3
<1>3. ASSUME NEW from \in Users, NEW to \in Users, NEW token \in Tokens, NEW n,
             Deposit(from, to, token, n), OnTransfer(from, Dex, token, n)
      PROVE  Follows /\ Known(accounts)' /\ FeesKept
  <2>1. from \in Holders /\ Dex \in Holders
    BY DEF Holders
  <2> QED
    BY <1>3, <2>1, TransferFollowed DEF Deposit, FeesKept
<1>4. ASSUME NEW user \in Users, NEW to \in Users, NEW token \in Tokens, NEW n,
             Withdraw(user, to, token, n), OnTransfer(Dex, to, token, n)
      PROVE  Follows /\ Known(accounts)' /\ FeesKept
  <2>1. to \in Holders /\ Dex \in Holders
    BY DEF Holders
  <2> QED
    BY <1>4, <2>1, TransferFollowed DEF Withdraw, FeesKept
<1>5. Next
  BY DEF NotifiedDepositing, Next, Depositing
<1>6. \A row \in ExtRows : \E user \in Users, token \in Tokens :
          row = <<user, token>> /\ row[1] = user /\ row[2] = token
  BY InputsAssumption
<1>7. CASE \E row \in ExtRows :
            \/ OpenExt(row[1], row[2]) /\ NotConcerned
            \/ \E to \in Users :
                  /\ CloseExt(row[1], to, row[2])
                  /\ IF evodexacnts[row] = 0 THEN NotConcerned
                     ELSE OnTransfer(Dex, to, row[2], evodexacnts[row])
  <2>1. PICK row \in ExtRows :
            \/ OpenExt(row[1], row[2]) /\ NotConcerned
            \/ \E to \in Users :
                  /\ CloseExt(row[1], to, row[2])
                  /\ IF evodexacnts[row] = 0 THEN NotConcerned
                     ELSE OnTransfer(Dex, to, row[2], evodexacnts[row])
    BY <1>7
  <2>2. PICK user \in Users, token \in Tokens :
            row = <<user, token>> /\ row[1] = user /\ row[2] = token
    BY <1>6
  <2> QED
    BY <1>1, <1>2, <1>5, <2>1, <2>2
<1> QED
  BY <1>3, <1>4, <1>5, <1>7 DEF NotifiedDepositing

LEMMA ProvidingFollowed ==
    ASSUME Sound, NoneQueued, NotifiedProviding
    PROVE  Next /\ Follows /\ Known(accounts)' /\ FeesKept
<1>1. ASSUME NEW user \in Users, NEW e \in DOMAIN stat, NEW n \in Int, NEW fee, NEW limit,
             AddSignedLiq(user, e, n, fee, limit), OnLiquidity(user, e, n)
      PROVE  Follows /\ Known(accounts)' /\ FeesKept
  <2>1. FeesKept
    <3>1. stat[e] \in PoolType
      BY SoundParts, PoolShape
    <3> QED
      BY <1>1, <3>1 DEF AddSignedLiq, FeesKept
  <2> QED
    BY <1>1, <2>1, LiquidityFollowed DEF AddSignedLiq, FeesKept
<1>2. PICK u \in Users, e \in DOMAIN stat :
          \E n \in Amounts[e], l \in [DOMAIN stat[e].pool -> Limits] :
              \/ AddLiquidity(u, e, n, l) /\ OnLiquidity(u, e, n)
              \/ RemLiquidity(u, e, n, l) /\ OnLiquidity(u, e, -n)
  BY DEF NotifiedProviding
<1>3. PICK n \in Amounts[e], l \in [DOMAIN stat[e].pool -> Limits] :
              \/ AddLiquidity(u, e, n, l) /\ OnLiquidity(u, e, n)
              \/ RemLiquidity(u, e, n, l) /\ OnLiquidity(u, e, -n)
  BY <1>2
<1>4. e \in Tokens
  BY SoundParts DEF StatOK, IsTable, Tokens
<1>5. n \in Int /\ -n \in Int
  BY <1>4, AmountsAreNat
<1>6. Next
  BY <1>3 DEF Next, Providing
<1> QED
  BY <1>1, <1>3, <1>5, <1>6 DEF AddLiquidity, RemLiquidity

LEMMA TradingFollowed ==
    ASSUME Sound, NoneQueued, NotifiedTrading
    PROVE  Next /\ Follows /\ Known(accounts)' /\ FeesKept
<1>1. ASSUME NEW e, NEW token, NEW n,
             stat' = [stat EXCEPT ![e].pool = PoolAfter(e, token, n)]
      PROVE  FeesKept
  BY <1>1, SoundParts, PoolShape DEF FeesKept, PoolType
<1>2. ASSUME NEW user, NEW e, NEW token, NEW n, NEW min,
             Exchange(user, e, token, n, min), NotConcerned
      PROVE  Follows /\ Known(accounts)' /\ FeesKept
  <2>1. accounts' = accounts /\ FeesKept
    BY <1>1, <1>2 DEF Exchange
  <2>2. Follows
    BY <1>2, <2>1, NothingFollowed
  <2> QED
    BY <2>1, <2>2 DEF Known, Sound, FeesKept
<1>3. ASSUME NEW user \in Users, NEW e, NEW token, NEW n \in Int, NEW min,
             MemoExchange(user, e, token, n, min), OnMemoExchange(user, e, token, n)
      PROVE  Follows /\ Known(accounts)' /\ FeesKept
  BY <1>1, <1>3, MemoFollowed DEF MemoExchange
<1>4. PICK u \in Users, e \in DOMAIN stat, l \in Limits :
        \E t \in DOMAIN stat[e].pool : \E n \in Amounts[t] :
            \/ (Exchange(u, e, t, n, l) \/ Exchange(u, e, t, -n, -l)) /\ NotConcerned
            \/ MemoExchange(u, e, t, n, l) /\ OnMemoExchange(u, e, t, n)
  BY DEF NotifiedTrading
<1>5. PICK t \in DOMAIN stat[e].pool :
        \E n \in Amounts[t] :
            \/ (Exchange(u, e, t, n, l) \/ Exchange(u, e, t, -n, -l)) /\ NotConcerned
            \/ MemoExchange(u, e, t, n, l) /\ OnMemoExchange(u, e, t, n)
  BY <1>4
<1>6. PICK n \in Amounts[t] :
            \/ (Exchange(u, e, t, n, l) \/ Exchange(u, e, t, -n, -l)) /\ NotConcerned
            \/ MemoExchange(u, e, t, n, l) /\ OnMemoExchange(u, e, t, n)
  BY <1>5
<1>7. t \in Tokens
  BY SoundParts, PoolShape
<1>8. n \in Int
  BY <1>7, AmountsAreNat
<1>9. Next
  BY <1>6 DEF Next, Trading
<1> QED
  BY <1>2, <1>3, <1>6, <1>8, <1>9

LEMMA HoldingFollowed ==
    ASSUME Sound, NoneQueued, NotifiedHolding
    PROVE  Next /\ Follows /\ Known(accounts)' /\ FeesKept
<1>1. ASSUME NEW from \in Users, NEW to \in Users, NEW e \in Evo, NEW n,
             Transfer(from, to, e, n), OnTransfer(from, to, e, n)
      PROVE  Follows /\ Known(accounts)' /\ FeesKept
  <2>1. from \in Holders /\ to \in Holders /\ e \in Tokens
    BY DEF Holders, Tokens
  <2> QED
    BY <1>1, <2>1, TransferFollowed DEF Transfer, FeesKept
<1>2. ASSUME NEW u \in Users, NEW e \in Evo, Open(u, e), NotConcerned
      PROVE  Follows /\ Known(accounts)' /\ FeesKept
  <2>1. \A k : Row(accounts', k) = Row(accounts, k)
    BY <1>2, PutRow DEF Open, Row
  <2>2. Known(accounts)'
    BY <1>2 DEF Open, Put, Known, Sound
  <2> QED
    BY <1>2, <2>1, <2>2, NothingFollowed DEF Open, FeesKept
<1>3. ASSUME NEW u \in Users, NEW e \in Evo, Close(u, e), NotConcerned
      PROVE  Follows /\ Known(accounts)' /\ FeesKept
  <2>1. \A k : Row(accounts', k) = Row(accounts, k)
    BY <1>3, DeleteRow DEF Close, Row
  <2>2. Known(accounts)'
    BY <1>3 DEF Close, Delete, Known, Sound
  <2> QED
    BY <1>3, <2>1, <2>2, NothingFollowed DEF Close, FeesKept
<1>4. Next
  BY DEF NotifiedHolding, Next, Holding
<1> QED
  BY <1>1, <1>2, <1>3, <1>4 DEF NotifiedHolding

Launched(e) ==
    /\ e \in Evo \ DOMAIN stat
    /\ DOMAIN stat' = DOMAIN stat \cup {e}
    /\ stat'[e].fee = DefaultFee
    /\ \A f \in DOMAIN stat : stat'[f].fee = stat[f].fee

LEMMA FoundingFollowed ==
    ASSUME Sound, NoneQueued, Founding
    PROVE  Next /\ Follows /\ Known(accounts)' /\ (FeesKept \/ \E e \in Evo : Launched(e))
<1>1. ASSUME NEW u \in Users, NEW e \in Evo, NEW s, NEW m, NEW t, NEW n,
             InitToken(u, e, s, m, t, n), NotConcerned
      PROVE  Follows /\ Known(accounts)' /\ Launched(e)
  <2>1. accounts' = Put(accounts, <<u, e>>, Row(accounts, <<u, e>>) + Root(m * n))
    BY <1>1 DEF InitToken, AddBalance
  <2>2. \A v, f : IsVoter(v, f) => Row(accounts', <<v, f>>) = Row(accounts, <<v, f>>)
    <3>1. \A v : ~IsVoter(v, e)
      BY <1>1 DEF Sound, Known, IsVoter, InitToken
    <3> QED
      BY <2>1, <3>1, PutRow
  <2>3. Launched(e)
    BY <1>1 DEF InitToken, Put, Launched
  <2>4. Known(accounts)'
    BY <2>1, <2>3 DEF Put, Known, Sound, Launched
  <2> QED
    BY <1>1, <2>2, <2>3, <2>4, NothingFollowed
<1>2. ASSUME NEW e \in Evo, IndexPair(e), NotConcerned
      PROVE  Follows /\ Known(accounts)' /\ FeesKept
  BY <1>2, NothingFollowed DEF IndexPair, FeesKept, Known, Sound
<1>3. Next
  BY DEF Founding, Next, Governing
<1> QED
  BY <1>1, <1>2, <1>3 DEF Founding

-----------------------------------------------------------------------------
(* The least fee that is not below one in range is one that may be voted.  *)
LEMMA IndexInRange ==
    ASSUME NEW index \in Indices, NEW fee \in Nat, IsIndexOf(index, fee), InRange(fee)
    PROVE  index \in MIN_FEE_INDEX .. MAX_FEE_INDEX
<1> USE DEF MIN_FEE_INDEX, MAX_FEE_INDEX
<1>1. index \in Int /\ 1 <= index /\ index <= 15
  BY DEF Indices
<1>2. /\ FEE_VECTOR[6] = 10 /\ FEE_VECTOR[12] = 100
      /\ \A i \in 1 .. 5 : FEE_VECTOR[i] \in Nat /\ FEE_VECTOR[i] < 10
  BY DEF FEE_VECTOR
<1>3. FEE_VECTOR[index] >= fee /\ \A j \in 1 .. index - 1 : FEE_VECTOR[j] < fee
  BY DEF IsIndexOf
<1>4. FEE_VECTOR[6] <= fee /\ fee <= FEE_VECTOR[12]
  BY DEF InRange
<1>5. CASE index > 12
  <2>1. FEE_VECTOR[12] < fee
    BY <1>1, <1>3, <1>5
  <2> QED
    BY <1>2, <1>4, <2>1
<1>6. CASE index < 6
  <2>1. FEE_VECTOR[index] < 10 /\ FEE_VECTOR[index] \in Nat
    BY <1>1, <1>2, <1>6
  <2> QED
    BY <1>2, <1>3, <1>4, <2>1
<1> QED
  BY <1>1, <1>5, <1>6

(* What voting and closing a vote do to the votes of one user.             *)
LEMMA VotesTaken ==
    ASSUME Sound, NEW user \in Users, NEW e \in DOMAIN feetables, NEW n \in Int
    PROVE  LET new == AddVotes(feetables, user, e, n)
           IN  /\ FeeTablesOK(new) /\ DOMAIN new = DOMAIN feetables
               /\ \A f, i : i \in Indices =>
                     VotesOf(new, f, i) =
                         IF f = e /\ IsVoter(user, e) /\ i = feeaccounts[<<user, e>>]
                         THEN VotesOf(feetables, f, i) + n ELSE VotesOf(feetables, f, i)
<1> DEFINE index == feeaccounts[<<user, e>>]
           new   == AddVotes(feetables, user, e, n)
<1>1. CASE IsVoter(user, e)
  <2>1. index \in Indices
    BY <1>1, SoundParts DEF IsVoter, FeeAccountsOK, IsTable, Indices,
                            MIN_FEE_INDEX, MAX_FEE_INDEX
  <2>2. new = AddVote(feetables, e, index, n)
    BY <1>1 DEF AddVotes
  <2> HIDE DEF index, new
  <2>3. /\ FeeTablesOK(new) /\ DOMAIN new = DOMAIN feetables
        /\ \A f, i : i \in Indices =>
              VotesOf(new, f, i) = IF f = e /\ i = index THEN VotesOf(feetables, f, i) + n
                                                        ELSE VotesOf(feetables, f, i)
    BY <2>1, <2>2, SoundParts, VotesAdded
  <2> QED
    BY <1>1, <2>3 DEF index, new
<1>2. CASE ~IsVoter(user, e)
  BY <1>2, SoundParts DEF AddVotes
<1> QED
  BY <1>1, <1>2

(* The votes of all other users and pools stay. *)
LEMMA VotesMatch ==
    ASSUME Sound, Counted, NEW user \in Users, NEW e \in Evo, NEW tables, NEW fa,
           \A k : k # <<user, e>> =>
               /\ k \in DOMAIN fa <=> k \in DOMAIN feeaccounts
               /\ k \in DOMAIN fa => fa[k] = feeaccounts[k],
           \A f \in Evo, i \in Indices :
               VotesOf(tables, f, i) =
                   IF f = e
                   THEN VotesOf(feetables, f, i)
                          + (Standing(fa, accounts, user, e, i)
                               - Standing(feeaccounts, accounts, user, e, i))
                   ELSE VotesOf(feetables, f, i)
    PROVE  Matches(tables, fa, accounts)
<1> SUFFICES ASSUME NEW f \in Evo, NEW i \in Indices
             PROVE  VotesOf(tables, f, i) = BackingOf(fa, accounts, f, i)
  BY DEF Matches
<1>1. VotesOf(feetables, f, i) = BackingOf(feeaccounts, accounts, f, i)
  BY DEF Counted, Matches
<1>2. CASE f = e
  <2>1. \A u \in Users \ {user} :
            Standing(fa, accounts, u, f, i) = Standing(feeaccounts, accounts, u, f, i)
    BY DEF Standing
  <2>2. BackingOf(fa, accounts, f, i) = BackingOf(feeaccounts, accounts, f, i)
            + (Standing(fa, accounts, user, f, i) - Standing(feeaccounts, accounts, user, f, i))
    BY <2>1, SoundParts, BackingChanges
  <2> QED
    BY <1>1, <1>2, <2>2
<1>3. CASE f # e
  <2>1. \A u \in Users :
            Standing(fa, accounts, u, f, i) = Standing(feeaccounts, accounts, u, f, i)
    BY <1>3 DEF Standing
  <2>2. BackingOf(fa, accounts, f, i) = BackingOf(feeaccounts, accounts, f, i)
    BY <2>1, SoundParts, BackingStays
  <2> QED
    BY <1>1, <1>3, <2>2
<1> QED
  BY <1>2, <1>3

(* What an action of voters does. *)
VotesKeepTypes ==
    /\ UNCHANGED vars
    /\ FeeAccountsOK(feeaccounts') /\ FeeTablesOK(feetables')
    /\ QueuedFees' /\ Known(feeaccounts)'

LEMMA VoteFeeKeeps ==
    ASSUME Sound, NEW user \in Users, NEW e \in Evo, NEW fee \in Nat, VoteFee(user, e, fee)
    PROVE  /\ VotesKeepTypes
           /\ Counted => Counted'
           /\ \E i \in MIN_FEE_INDEX .. MAX_FEE_INDEX :
                 feeaccounts' = Put(feeaccounts, <<user, e>>, i)
<1>1. PICK index \in Indices :
        /\ IsIndexOf(index, fee) /\ InRange(fee)
        /\ <<user, e>> \in DOMAIN accounts /\ e \in DOMAIN feetables
        /\ feetables' = Revoted(user, e, index, accounts[<<user, e>>])
        /\ feeaccounts' = Put(feeaccounts, <<user, e>>, index)
        /\ UpdateFeeBy(feetables', e)
        /\ UNCHANGED vars
  BY DEF VoteFee
<1> DEFINE n     == accounts[<<user, e>>]
           taken == AddVotes(feetables, user, e, -n)
<1>2. index \in MIN_FEE_INDEX .. MAX_FEE_INDEX
  BY <1>1, IndexInRange
<1>3. n = Row(accounts, <<user, e>>) /\ n \in Int /\ -n \in Int
  <2>1. n = Row(accounts, <<user, e>>)
    BY <1>1 DEF Row
  <2> QED
    BY <2>1, SoundParts
<1>4. /\ FeeTablesOK(taken) /\ DOMAIN taken = DOMAIN feetables
      /\ \A f, i : i \in Indices =>
            VotesOf(taken, f, i) =
                IF f = e /\ IsVoter(user, e) /\ i = feeaccounts[<<user, e>>]
                THEN VotesOf(feetables, f, i) + (-n) ELSE VotesOf(feetables, f, i)
  <2> HIDE DEF n
  <2> QED
    BY <1>1, <1>3, VotesTaken
<1>5. feetables' = AddVote(taken, e, index, n)
  BY <1>1 DEF Revoted
<1> HIDE DEF taken, n
<1>6. /\ FeeTablesOK(feetables') /\ DOMAIN feetables' = DOMAIN feetables
      /\ \A f, i : i \in Indices =>
            VotesOf(feetables', f, i) = IF f = e /\ i = index THEN VotesOf(taken, f, i) + n
                                                              ELSE VotesOf(taken, f, i)
  <2> DEFINE new == AddVote(taken, e, index, n)
  <2>1. e \in DOMAIN taken /\ FeeTablesOK(taken) /\ DOMAIN taken = DOMAIN feetables
    BY <1>1, <1>4
  <2>2. /\ FeeTablesOK(new) /\ DOMAIN new = DOMAIN taken
        /\ \A f, i : i \in Indices =>
              VotesOf(new, f, i) = IF f = e /\ i = index THEN VotesOf(taken, f, i) + n
                                                         ELSE VotesOf(taken, f, i)
    BY <1>3, <2>1, VotesAdded
  <2>3. feetables' = new
    BY <1>5
  <2> HIDE DEF new
  <2> QED
    BY <2>1, <2>2, <2>3
<1>7. e \in DOMAIN stat'
  BY <1>1 DEF Sound, Known, vars
<1>8. VotesKeepTypes
  <2>1. QueuedFees'
    BY <1>1, <1>6, <1>7, FeeCalled
  <2>2. FeeAccountsOK(feeaccounts')
    BY <1>1, <1>2, SoundParts, PutTable DEF FeeAccountsOK
  <2>3. Known(feeaccounts)'
    BY <1>1, <1>7 DEF Put, Known, Sound, vars
  <2> QED
    BY <1>1, <1>6, <2>1, <2>2, <2>3 DEF VotesKeepTypes
<1>9. ASSUME Counted PROVE Counted'
  <2>1. \A k : k # <<user, e>> =>
               /\ k \in DOMAIN feeaccounts' <=> k \in DOMAIN feeaccounts
               /\ k \in DOMAIN feeaccounts' => feeaccounts'[k] = feeaccounts[k]
    BY <1>1 DEF Put
  <2>2. ASSUME NEW f \in Evo, NEW i \in Indices
        PROVE  VotesOf(feetables', f, i) =
                   IF f = e
                   THEN VotesOf(feetables, f, i)
                          + (Standing(feeaccounts', accounts, user, e, i)
                               - Standing(feeaccounts, accounts, user, e, i))
                   ELSE VotesOf(feetables, f, i)
    <3>1. Standing(feeaccounts', accounts, user, e, i) = IF i = index THEN n ELSE 0
      BY <1>1, <1>3 DEF Standing, Put
    <3>2. Standing(feeaccounts, accounts, user, e, i)
              = IF IsVoter(user, e) /\ i = feeaccounts[<<user, e>>] THEN n ELSE 0
      BY <1>3 DEF Standing, IsVoter
    <3>3. VotesOf(feetables, f, i) \in Int
      BY <1>9, SoundParts, BackingIsNat DEF Counted, Matches
    <3> QED
      BY <1>3, <1>4, <1>6, <3>1, <3>2, <3>3
  <2>3. Matches(feetables', feeaccounts', accounts)
    BY <1>9, <2>1, <2>2, VotesMatch
  <2> QED
    BY <1>1, <2>3 DEF Counted, vars
<1> QED
  BY <1>1, <1>2, <1>8, <1>9

LEMMA CloseVoteKeeps ==
    ASSUME Sound, NEW user \in Users, NEW e \in Evo, CloseVote(user, e)
    PROVE  /\ VotesKeepTypes
           /\ Counted => Counted'
           /\ feeaccounts' = Delete(feeaccounts, <<user, e>>)
<1> DEFINE n == accounts[<<user, e>>]
<1>1. n = Row(accounts, <<user, e>>) /\ n \in Int /\ -n \in Int
  <2>1. n = Row(accounts, <<user, e>>)
    BY DEF Row, CloseVote
  <2> QED
    BY <2>1, SoundParts
<1>2. /\ FeeTablesOK(feetables') /\ DOMAIN feetables' = DOMAIN feetables
      /\ \A f, i : i \in Indices =>
            VotesOf(feetables', f, i) =
                IF f = e /\ IsVoter(user, e) /\ i = feeaccounts[<<user, e>>]
                THEN VotesOf(feetables, f, i) + (-n) ELSE VotesOf(feetables, f, i)
  <2>1. feetables' = AddVotes(feetables, user, e, -n) /\ e \in DOMAIN feetables
    BY DEF CloseVote
  <2> HIDE DEF n
  <2> QED
    BY <1>1, <2>1, VotesTaken
<1> HIDE DEF n
<1>3. VotesKeepTypes
  <2>1. e \in DOMAIN stat' /\ UNCHANGED vars
    BY DEF CloseVote, Sound, Known, vars
  <2>2. QueuedFees'
    BY <1>2, <2>1, FeeCalled DEF CloseVote
  <2>3. FeeAccountsOK(feeaccounts')
    BY SoundParts, DeleteTable DEF FeeAccountsOK, CloseVote
  <2>4. Known(feeaccounts)'
    BY <2>1 DEF Delete, Known, Sound, vars, CloseVote
  <2> QED
    BY <1>2, <2>1, <2>2, <2>3, <2>4 DEF VotesKeepTypes
<1>4. ASSUME Counted PROVE Counted'
  <2>1. \A k : k # <<user, e>> =>
               /\ k \in DOMAIN feeaccounts' <=> k \in DOMAIN feeaccounts
               /\ k \in DOMAIN feeaccounts' => feeaccounts'[k] = feeaccounts[k]
    BY DEF Delete, CloseVote
  <2>2. ASSUME NEW f \in Evo, NEW i \in Indices
        PROVE  VotesOf(feetables', f, i) =
                   IF f = e
                   THEN VotesOf(feetables, f, i)
                          + (Standing(feeaccounts', accounts, user, e, i)
                               - Standing(feeaccounts, accounts, user, e, i))
                   ELSE VotesOf(feetables, f, i)
    <3>1. Standing(feeaccounts', accounts, user, e, i) = 0
      BY DEF Standing, Delete, CloseVote
    <3>2. Standing(feeaccounts, accounts, user, e, i)
              = IF IsVoter(user, e) /\ i = feeaccounts[<<user, e>>] THEN n ELSE 0
      BY <1>1 DEF Standing, IsVoter
    <3>3. VotesOf(feetables, f, i) \in Int
      BY <1>4, SoundParts, BackingIsNat DEF Counted, Matches
    <3> QED
      BY <1>1, <1>2, <3>1, <3>2, <3>3
  <2>3. Matches(feetables', feeaccounts', accounts)
    BY <1>4, <2>1, <2>2, VotesMatch
  <2> QED
    BY <2>3 DEF Counted, vars, CloseVote
<1> QED
  BY <1>3, <1>4 DEF CloseVote

(* The hypothesis of the theorems on votes: no fee of any pool has 2^32    *)
(* votes or more, so that IsEmpty says what closefeetable means by it.     *)
VotesFit ==
    \A e \in DOMAIN feetables, i \in Indices : feetables[e][i] < IntSpan

LEMMA OpenTableKeeps ==
    ASSUME Sound, NoneQueued, NEW e \in Evo, OpenFeeTable(e)
    PROVE  VotesKeepTypes /\ (Counted => Counted')
<1> DEFINE zeros == [i \in Indices |-> 0]
<1>1. zeros \in [Indices -> Int]
  OBVIOUS
<1>2. FeeTablesOK(feetables')
  BY <1>1, SoundParts, PutTable DEF FeeTablesOK, OpenFeeTable
<1>3. VotesKeepTypes
  BY <1>2, NothingCalled, SoundParts DEF VotesKeepTypes, OpenFeeTable, Known, Sound, vars
<1>4. \A f, i : i \in Indices => VotesOf(feetables', f, i) = VotesOf(feetables, f, i)
  BY DEF OpenFeeTable, Put, VotesOf
<1>5. Counted => Counted'
  BY <1>4 DEF Counted, Matches, OpenFeeTable, vars
<1> QED
  BY <1>3, <1>5

LEMMA CloseTableKeeps ==
    ASSUME Sound, NoneQueued, NEW e \in Evo, CloseFeeTable(e)
    PROVE  VotesKeepTypes /\ (Counted /\ VotesFit => Counted')
<1>1. FeeTablesOK(feetables')
  BY SoundParts, DeleteTable DEF FeeTablesOK, CloseFeeTable
<1>2. VotesKeepTypes
  BY <1>1, NothingCalled, SoundParts DEF VotesKeepTypes, CloseFeeTable, Known, Sound, vars
<1>3. ASSUME Counted, VotesFit
      PROVE  Counted'
  <2>1. ASSUME NEW i \in Indices
        PROVE  VotesOf(feetables, e, i) = 0
    <3> DEFINE votes == feetables[e][i]
    <3>1. votes = BackingOf(feeaccounts, accounts, e, i)
      BY <1>3 DEF Counted, Matches, VotesOf, CloseFeeTable
    <3>2. votes \in Nat
      BY <3>1, SoundParts, BackingIsNat
    <3>3. votes < IntSpan /\ votes % IntSpan = 0 /\ IntSpan \in Nat \ {0}
      BY <1>3, VotingAssumption DEF VotesFit, CloseFeeTable, IsEmpty
    <3> HIDE DEF votes
    <3>4. votes = 0
      BY <3>2, <3>3
    <3> QED
      BY <3>4 DEF votes, VotesOf, CloseFeeTable
  <2>2. \A f \in Evo, i \in Indices : VotesOf(feetables', f, i) = VotesOf(feetables, f, i)
    BY <2>1 DEF CloseFeeTable, Delete, VotesOf
  <2> QED
    BY <1>3, <2>2 DEF Counted, Matches, CloseFeeTable, vars
<1> QED
  BY <1>2, <1>3

LEMMA UpdateKeeps ==
    ASSUME Sound, NEW e \in Evo, UpdateFee(e)
    PROVE  VotesKeepTypes /\ (Counted => Counted')
<1>1. QueuedFees'
  <2>1. /\ e \in DOMAIN stat' /\ e \in DOMAIN feetables'
        /\ UpdateFeeBy(feetables', e)
    BY DEF UpdateFee, UpdateFeeBy, vars
  <2> QED
    BY <2>1, FeeCalled
<1>2. VotesKeepTypes
  BY <1>1, SoundParts DEF VotesKeepTypes, UpdateFee, Known, Sound, vars
<1>3. Counted => Counted'
  BY DEF Counted, UpdateFee, vars
<1> QED
  BY <1>2, <1>3

LEMMA VotingKeeps ==
    ASSUME Sound, NoneQueued, Voting
    PROVE  VotesKeepTypes /\ (Counted /\ VotesFit => Counted')
<1>1. PICK e \in Elections :
          \/ \E u \in Users : CloseVote(u, e) \/ \E fee \in FeesAsked : VoteFee(u, e, fee)
          \/ OpenFeeTable(e) \/ CloseFeeTable(e) \/ UpdateFee(e)
  BY DEF Voting
<1>2. e \in Evo /\ FeesAsked \subseteq Nat
  BY VotingAssumption
<1>3. CASE \E u \in Users : CloseVote(u, e)
  BY <1>2, <1>3, CloseVoteKeeps
<1>4. CASE \E u \in Users : \E fee \in FeesAsked : VoteFee(u, e, fee)
  BY <1>2, <1>4, VoteFeeKeeps
<1> QED
  BY <1>1, <1>2, <1>3, <1>4, OpenTableKeeps, CloseTableKeeps, UpdateKeeps

LEMMA RunChangeFeeKeeps ==
    ASSUME Sound, NEW e, RunChangeFee(e)
    PROVE  /\ Next /\ e \in DOMAIN stat
           /\ UNCHANGED <<accounts, feeaccounts, feetables>>
           /\ DOMAIN stat' = DOMAIN stat
           /\ QueuedFees'
<1>1. e \in DOMAIN stat /\ e \in Evo /\ changefees[e] \in Fees
  <2>1. e \in DOMAIN stat /\ changefees[e] \in ElectedFees
    BY DEF Sound, QueuedFees, IsTable, RunChangeFee
  <2> QED
    BY <2>1, SoundParts, VotingAssumption DEF ElectedFees, StatOK, IsTable
<1>2. Next
  BY <1>1 DEF RunChangeFee, Next, Governing
<1>3. DOMAIN stat' = DOMAIN stat
  BY DEF RunChangeFee, ChangeFee
<1>4. QueuedFees'
  BY <1>3 DEF QueuedFees, IsTable, RunChangeFee, Delete, Sound
<1> QED
  BY <1>1, <1>2, <1>3, <1>4 DEF RunChangeFee, ChangeFee
-----------------------------------------------------------------------------
LEMMA VotingInitSound ==
    ASSUME VotingInit
    PROVE  Sound /\ Counted
<1>1. Inv
  BY InitInv DEF VotingInit
<1>2. Known(accounts) /\ Known(feeaccounts)
  BY VotingAssumption DEF VotingInit, Init, Known
<1>3. Sound
  BY <1>1, <1>2 DEF Sound, VotingInit, FeeAccountsOK, FeeTablesOK, QueuedFees, IsTable
<1>4. ASSUME NEW e \in Evo, NEW i \in Indices
      PROVE  BackingOf(feeaccounts, accounts, e, i) = 0
  <2> DEFINE f == [u \in Users |-> Standing(feeaccounts, accounts, u, e, i)]
  <2>1. IsFiniteSet(Users) /\ \A u \in Users : f[u] = 0
    BY HoldersFinite DEF VotingInit, Standing
  <2>2. SumFunctionOnSet(f, Users) = 0
    BY <2>1, SumZero
  <2> QED
    BY <2>2 DEF BackingOf
<1>5. Counted
  BY <1>4 DEF Counted, Matches, VotesOf, VotingInit
<1> QED
  BY <1>3, <1>5

LEMMA SoundAfter ==
    ASSUME Sound, [Next]_vars, FeeAccountsOK(feeaccounts'), FeeTablesOK(feetables'),
           QueuedFees', Known(accounts)', Known(feeaccounts)'
    PROVE  Sound'
<1>1. Inv'
  BY NextKeeps DEF Sound
<1> QED
  BY <1>1 DEF Sound, FeeAccountsOK, FeeTablesOK

(* What a step of the two contracts is: one of the swap contract, which    *)
(* the votes follow, one of voters, or the new fee.                        *)
LEMMA VotingSteps ==
    ASSUME Sound, VotingNext
    PROVE  \/ /\ Next /\ Follows /\ Known(accounts)'
              /\ FeesKept \/ \E e \in Evo : Launched(e)
           \/ Voting /\ NoneQueued /\ VotesKeepTypes
           \/ \E e \in DOMAIN changefees : RunChangeFee(e)
<1>1. CASE \E e \in DOMAIN changefees : RunChangeFee(e)
  BY <1>1
<1>2. CASE DOMAIN changefees = {} /\ Transaction
  <2>1. NoneQueued
    BY <1>2 DEF NoneQueued
  <2>2. CASE Voting
    BY <2>1, <2>2, VotingKeeps
  <2>3. CASE ~Voting
    BY <1>2, <2>1, <2>3, DepositingFollowed, ProvidingFollowed, TradingFollowed,
       HoldingFollowed, FoundingFollowed DEF Transaction
  <2> QED
    BY <2>2, <2>3
<1> QED
  BY <1>1, <1>2 DEF VotingNext

LEMMA VotingKeepsSound ==
    ASSUME Sound, [VotingNext]_allvars
    PROVE  Sound' /\ [Next]_vars /\ (Counted /\ VotesFit => Counted')
<1>1. CASE UNCHANGED allvars
  <2>1. UNCHANGED vars
    BY <1>1 DEF allvars, vars
  <2>2. UNCHANGED <<accounts, stat, feeaccounts, feetables, changefees>>
    BY <1>1 DEF allvars
  <2>3. FeeAccountsOK(feeaccounts') /\ FeeTablesOK(feetables') /\ QueuedFees'
    BY <2>2, SoundParts DEF Sound, QueuedFees, IsTable
  <2>4. Known(accounts)' /\ Known(feeaccounts)'
    BY <2>2 DEF Sound, Known
  <2>5. Counted => Counted'
    BY <2>2 DEF Counted
  <2> QED
    BY <2>1, <2>3, <2>4, <2>5, SoundAfter
<1>2. CASE /\ Next /\ Follows /\ Known(accounts)'
           /\ FeesKept \/ \E e \in Evo : Launched(e)
  <2>1. DOMAIN stat \subseteq DOMAIN stat' /\ feeaccounts' = feeaccounts
    BY <1>2 DEF FeesKept, Launched, Follows
  <2>2. Known(feeaccounts)'
    BY <2>1 DEF Known, Sound
  <2>3. FeeAccountsOK(feeaccounts')
    BY <2>1, SoundParts
  <2>4. Sound'
    BY <1>2, <2>2, <2>3, SoundAfter DEF Follows
  <2> QED
    BY <1>2, <2>4 DEF Follows
<1>3. CASE Voting /\ NoneQueued /\ VotesKeepTypes
  <2>1. UNCHANGED vars /\ UNCHANGED <<accounts, stat>>
    BY <1>3 DEF VotesKeepTypes, vars
  <2>2. Known(accounts)'
    BY <2>1 DEF Known, Sound
  <2>3. Sound'
    BY <1>3, <2>1, <2>2, SoundAfter DEF VotesKeepTypes
  <2> QED
    BY <1>3, <2>1, <2>3, VotingKeeps
<1>4. ASSUME NEW e \in DOMAIN changefees, RunChangeFee(e)
      PROVE  Sound' /\ Next /\ (Counted => Counted')
  <2>1. /\ Next /\ UNCHANGED <<accounts, feeaccounts, feetables>>
        /\ DOMAIN stat' = DOMAIN stat /\ QueuedFees'
    BY <1>4, RunChangeFeeKeeps
  <2>2. Known(accounts)' /\ Known(feeaccounts)'
    BY <2>1 DEF Known, Sound
  <2>3. Counted => Counted'
    BY <2>1 DEF Counted
  <2> QED
    BY <2>1, <2>2, <2>3, SoundParts, SoundAfter
<1> QED
  BY <1>1, <1>2, <1>3, <1>4, VotingSteps

-----------------------------------------------------------------------------
(* Both contracts together are still the swap contract: what is proved of  *)
(* its Spec holds with the fee contract notified and changing the fees.    *)
THEOREM StillTheSwapContract == VotingSpec => Spec
<1>1. VotingInit => Sound /\ Init
  BY VotingInitSound DEF VotingInit
<1>2. Sound /\ [VotingNext]_allvars => Sound' /\ [Next]_vars
  BY VotingKeepsSound
<1> QED
  BY <1>1, <1>2, PTL DEF VotingSpec, Spec

LEMMA AlwaysSound == VotingSpec => []Sound
<1>1. VotingInit => Sound
  BY VotingInitSound
<1>2. Sound /\ [VotingNext]_allvars => Sound'
  BY VotingKeepsSound
<1> QED
  BY <1>1, <1>2, PTL DEF VotingSpec

(* The type invariant: voters are only of fees that may be voted for, and  *)
(* changefee is only sent, with a fee of the vector, for pools that exist. *)
THEOREM VotingTypesHold == VotingSpec => []VotingTypeOK
<1>1. Sound => VotingTypeOK
  BY DEF Sound, VotingTypeOK, FeeAccountsOK, FeeTablesOK, QueuedFees, ElectedFees, Inv
<1> QED
  BY <1>1, AlwaysSound, PTL

LEMMA AlwaysCounted == VotingSpec /\ []VotesFit => []Counted
<1>1. VotingInit => Sound /\ Counted
  BY VotingInitSound
<1>2. Sound /\ Counted /\ VotesFit /\ [VotingNext]_allvars => Sound' /\ Counted'
  BY VotingKeepsSound
<1> QED
  BY <1>1, <1>2, PTL DEF VotingSpec

(* The votes of each fee are the balances of its voters: the notifications *)
(* of the swap contract miss no way in which pool tokens move.             *)
THEOREM VotesFollowBalances == VotingSpec /\ []VotesFit => []VotesAreBalances
<1>1. Counted => VotesAreBalances
  BY CountedIsVotes
<1> QED
  BY <1>1, AlwaysCounted, PTL

(* add_balance finds the table of votes for every voter who holds pool     *)
(* tokens, so that no transfer of them can fail in the fee contract.       *)
THEOREM NoVoterIsStuck == VotingSpec /\ []VotesFit => []VotersAreFree
<1>1. ASSUME Sound, Counted, NEW e \in Evo, NEW u \in Users,
             IsVoter(u, e), Row(accounts, <<u, e>>) > 0
      PROVE  e \in DOMAIN feetables
  <2> DEFINE i == feeaccounts[<<u, e>>]
  <2>1. i \in Indices
    BY <1>1, SoundParts DEF IsVoter, FeeAccountsOK, IsTable, Indices,
                            MIN_FEE_INDEX, MAX_FEE_INDEX
  <2>2. Standing(feeaccounts, accounts, u, e, i) = Row(accounts, <<u, e>>)
    BY <1>1 DEF Standing, IsVoter
  <2>3. VotesOf(feetables, e, i) = BackingOf(feeaccounts, accounts, e, i)
    BY <1>1, <2>1 DEF Counted, Matches
  <2>4. /\ BackingOf(feeaccounts, accounts, e, i) \in Nat
        /\ Standing(feeaccounts, accounts, u, e, i) <= BackingOf(feeaccounts, accounts, e, i)
    BY <1>1, SoundParts, BackingIsNat
  <2>5. VotesOf(feetables, e, i) # 0
    BY <1>1, <2>2, <2>3, <2>4, SoundParts
  <2> QED
    BY <2>5 DEF VotesOf
<1>2. Sound /\ Counted => VotersAreFree
  BY <1>1 DEF VotersAreFree
<1> QED
  BY <1>2, AlwaysSound, AlwaysCounted, PTL

-----------------------------------------------------------------------------
(***************************************************************************)
(* The election.  Votes are kept for each place, ballots for each voter:   *)
(* the sum of the votes up to a place is what the ballots up to it weigh.  *)
(***************************************************************************)
Shares(ac) == [k \in Users \X Evo |-> Row(ac, k)]
FeesOf(st) == [e \in DOMAIN st |-> st[e].fee]

(* What user u's ballot weighs for a set of places, and what all weigh.    *)
Ballot(fa, ac, u, e, places) ==
    IF <<u, e>> \in DOMAIN fa /\ fa[<<u, e>>] \in places THEN Row(ac, <<u, e>>) ELSE 0

WeightOf(fa, ac, e, places) ==
    SumFunctionOnSet([u \in Users |-> Ballot(fa, ac, u, e, places)], Users)

LEMMA SameSums ==
    ASSUME NEW f, NEW S
    PROVE  Election!SumFunctionOnSet(f, S) = SumFunctionOnSet(f, S)
  BY DEF SumFunctionOnSet, FoldFunctionOnSet, MapThenFoldSet, Election!SumFunctionOnSet,
         Election!FoldFunctionOnSet, Election!MapThenFoldSet

LEMMA WeightIs ==
    ASSUME NEW e \in Evo, NEW places
    PROVE  Election!Weight(e, places) = WeightOf(feeaccounts, accounts, e, places)
<1> DEFINE f == [u \in Users |->
                    IF <<u, e>> \in DOMAIN feeaccounts /\ feeaccounts[<<u, e>>] \in places
                    THEN [k \in Users \X Evo |-> Row(accounts, k)][<<u, e>>] ELSE 0]
           h == [u \in Users |-> Ballot(feeaccounts, accounts, u, e, places)]
<1>1. f = h
  BY DEF Ballot
<1>2. Election!Weight(e, places) = Election!SumFunctionOnSet(f, Users)
  BY DEF Election!Weight
<1>3. WeightOf(feeaccounts, accounts, e, places) = SumFunctionOnSet(h, Users)
  BY DEF WeightOf
<1> HIDE DEF f, h
<1> QED
  BY <1>1, <1>2, <1>3, SameSums

LEMMA WeightSplits ==
    ASSUME NEW fa, NEW ac, AccountsOK(ac), NEW e, NEW places, NEW i, i \notin places
    PROVE  WeightOf(fa, ac, e, places \cup {i})
             = WeightOf(fa, ac, e, places) + BackingOf(fa, ac, e, i)
<1> DEFINE f == [u \in Users |-> Ballot(fa, ac, u, e, places)]
           g == [u \in Users |-> Standing(fa, ac, u, e, i)]
           h == [u \in Users |-> Ballot(fa, ac, u, e, places \cup {i})]
<1>1. \A k : Row(ac, k) \in Nat
  BY RowIsNat DEF AccountsOK
<1>2. \A u \in Users : f[u] \in Int /\ g[u] \in Int /\ h[u] = f[u] + g[u]
  BY <1>1 DEF Ballot, Standing
<1>3. SumFunctionOnSet(h, Users) = SumFunctionOnSet(f, Users) + SumFunctionOnSet(g, Users)
  BY <1>2, HoldersFinite, SumPlus
<1> QED
  BY <1>3 DEF WeightOf, BackingOf

LEMMA WeightOfNone ==
    ASSUME NEW fa, NEW ac, NEW e
    PROVE  WeightOf(fa, ac, e, {}) = 0
<1> DEFINE f == [u \in Users |-> Ballot(fa, ac, u, e, {})]
<1>1. IsFiniteSet(Users) /\ \A u \in Users : f[u] = 0
  BY HoldersFinite DEF Ballot
<1>2. SumFunctionOnSet(f, Users) = 0
  BY <1>1, SumZero
<1> QED
  BY <1>2 DEF WeightOf

LEMMA PartialSumGrows ==
    ASSUME NEW votes \in [Indices -> Int], NEW i \in Indices
    PROVE  PartialSum(votes, i) = votes[i] + PartialSum(votes, i - 1)
<1>1. i \in 1 .. i /\ (1 .. i) \ {i} = 1 .. (i - 1)
  BY DEF Indices
<1>2. IsFiniteSet(1 .. i)
  BY FS_Interval DEF Indices
<1>3. \A j \in 1 .. i : votes[j] \in Int
  BY DEF Indices
<1> QED
  BY <1>1, <1>2, <1>3, SumRemove DEF PartialSum

LEMMA PartialSumIsWeight ==
    ASSUME Sound, Counted, NEW e \in Evo, e \in DOMAIN feetables
    PROVE  \A i \in 0 .. 15 :
              PartialSum(feetables[e], i) = WeightOf(feeaccounts, accounts, e, 1 .. i)
<1> DEFINE votes == feetables[e]
           W(i)  == WeightOf(feeaccounts, accounts, e, 1 .. i)
           T     == {i \in 0 .. 15 : PartialSum(votes, i) # W(i)}
<1>1. votes \in [Indices -> Int]
  BY SoundParts DEF FeeTablesOK, IsTable
<1>2. SUFFICES ASSUME T # {} PROVE FALSE
  OBVIOUS
<1>3. T \subseteq Nat
  OBVIOUS
<1>4. PICK i \in T : \A j \in T : i <= j
  BY <1>2, <1>3, Least
<1>5. i # 0
  <2>1. 1 .. 0 = {}
    OBVIOUS
  <2>2. PartialSum(votes, 0) = 0 /\ W(0) = 0
    BY <2>1, SumEmpty, WeightOfNone DEF PartialSum
  <2> QED
    BY <2>2
<1>6. i \in Indices /\ i - 1 \in 0 .. 15 /\ i - 1 \notin T
  BY <1>4, <1>5 DEF Indices
<1>7. PartialSum(votes, i - 1) = W(i - 1)
  BY <1>6
<1>8. PartialSum(votes, i) = votes[i] + W(i - 1)
  BY <1>1, <1>6, <1>7, PartialSumGrows
<1>9. votes[i] = BackingOf(feeaccounts, accounts, e, i)
  BY <1>6 DEF Counted, Matches, VotesOf
<1>10. W(i) = W(i - 1) + BackingOf(feeaccounts, accounts, e, i)
  <2>1. 1 .. i = (1 .. (i - 1)) \cup {i} /\ i \notin 1 .. (i - 1)
    BY <1>6 DEF Indices
  <2> QED
    BY <2>1, SoundParts, WeightSplits
<1>11. W(i - 1) \in Int
  <2> DEFINE f == [u \in Users |-> Ballot(feeaccounts, accounts, u, e, 1 .. (i - 1))]
  <2>1. \A u \in Users : f[u] \in Int
    BY SoundParts DEF Ballot
  <2>2. SumFunctionOnSet(f, Users) \in Int
    BY <2>1, HoldersFinite, SumIsInt
  <2> QED
    BY <2>2 DEF WeightOf
<1>12. votes[i] \in Int
  BY <1>1, <1>6
<1> HIDE DEF W, votes
<1>13. PartialSum(votes, i) = W(i)
  BY <1>8, <1>9, <1>10, <1>11, <1>12
<1> QED
  BY <1>4, <1>13

(* What median finds is what the ballots elect. *)
LEMMA MedianIsElected ==
    ASSUME Sound, Counted, NEW e \in Evo, e \in DOMAIN feetables, NEW i \in Indices,
           IsMedianIndex(i, feetables[e])
    PROVE  Election!Elected(e, i)
<1>1. \A j \in 1 .. 15 : PartialSum(feetables[e], j) = Election!Weight(e, 1 .. j)
  <2> SUFFICES ASSUME NEW j \in 1 .. 15
               PROVE  PartialSum(feetables[e], j) = Election!Weight(e, 1 .. j)
    OBVIOUS
  <2>1. Election!Weight(e, 1 .. j) = WeightOf(feeaccounts, accounts, e, 1 .. j)
    BY WeightIs
  <2>2. j \in 0 .. 15
    OBVIOUS
  <2> QED
    BY <2>1, <2>2, PartialSumIsWeight
<1>2. Election!Places = 1 .. 15
  BY DEF Election!Places, FEE_VECTOR
<1>3. PartialSum(feetables[e], 15) = Election!Weight(e, Election!Places)
  BY <1>1, <1>2
<1>4. \A j \in 1 .. i : Election!Reached(e, j)
                          <=> PartialSum(feetables[e], j) >= Half(feetables[e])
  <2> SUFFICES ASSUME NEW j \in 1 .. i
               PROVE  Election!Reached(e, j)
                        <=> PartialSum(feetables[e], j) >= Half(feetables[e])
    OBVIOUS
  <2>1. j \in 1 .. 15
    BY DEF Indices
  <2>2. PartialSum(feetables[e], j) = Election!Weight(e, 1 .. j)
    BY <1>1, <2>1
  <2> QED
    BY <1>3, <2>2 DEF Election!Reached, Half
<1>5. \A j \in 1 .. 15 : PartialSum(feetables[e], j) \in Int
  <2>1. feetables[e] \in [Indices -> Int]
    BY SoundParts DEF FeeTablesOK, IsTable
  <2>2. ASSUME NEW j \in 1 .. 15 PROVE PartialSum(feetables[e], j) \in Int
    <3>1. \A k \in 1 .. j : feetables[e][k] \in Int
      BY <2>1 DEF Indices
    <3>2. IsFiniteSet(1 .. j)
      BY FS_Interval
    <3> QED
      BY <3>1, <3>2, SumIsInt DEF PartialSum
  <2> QED
    BY <2>2
<1>6. CASE PartialSum(feetables[e], 15) = 0
  BY <1>3, <1>6 DEF Election!Elected, IsMedianIndex
<1>7. CASE PartialSum(feetables[e], 15) # 0
  <2>1. i \in 1 .. i /\ 1 .. i - 1 \subseteq 1 .. i /\ i \in 1 .. 15
    BY DEF Indices
  <2>2. Half(feetables[e]) \in Int
    BY <1>5 DEF Half
  <2>3. \A j \in 1 .. i : j \in 1 .. 15
    BY DEF Indices
  <2>4. Election!Reached(e, i)
    BY <1>4, <1>7, <2>1 DEF IsMedianIndex
  <2>5. ASSUME NEW j \in 1 .. i - 1 PROVE ~Election!Reached(e, j)
    BY <1>4, <1>5, <1>7, <2>1, <2>2, <2>3 DEF IsMedianIndex
  <2> QED
    BY <1>3, <1>7, <2>4, <2>5 DEF Election!Elected
<1> QED
  BY <1>6, <1>7
-----------------------------------------------------------------------------
(* The steps of the contracts are steps of the election. *)
LEMMA SharesAreNat ==
    ASSUME Sound PROVE Shares(accounts) \in [Users \X Evo -> Nat]
  BY SoundParts DEF Shares

LEMMA SwapStepElects ==
    ASSUME Sound', UNCHANGED feeaccounts, FeesKept \/ \E e \in Evo : Launched(e)
    PROVE  Election!Next
<1>1. Shares(accounts') \in [Users \X Evo -> Nat]
  <2>1. AccountsOK(accounts')
    BY DEF Sound, Inv, TypeOK, TablesOK, AccountsOK
  <2> QED
    BY <2>1, RowIsNat DEF Shares, AccountsOK
<1>2. CASE FeesKept
  <2>1. FeesOf(stat') = FeesOf(stat)
    BY <1>2 DEF FeesKept, FeesOf
  <2>2. Election!Trade
    BY <1>1, <2>1 DEF Election!Trade, Shares, FeesOf
  <2> QED
    BY <2>2 DEF Election!Next
<1>3. ASSUME NEW e \in Evo, Launched(e) PROVE Election!Launch(e)
  <2>1. e \notin DOMAIN FeesOf(stat) /\ DOMAIN FeesOf(stat) = DOMAIN stat
    BY <1>3 DEF Launched, FeesOf
  <2>2. FeesOf(stat') = [f \in DOMAIN FeesOf(stat) \cup {e} |->
                            IF f = e THEN 10 ELSE FeesOf(stat)[f]]
    BY <1>3 DEF Launched, FeesOf, DefaultFee
  <2>3. FEE_VECTOR[DEFAULT_FEE_INDEX] = 10
    BY DEF FEE_VECTOR, DEFAULT_FEE_INDEX
  <2> QED
    BY <1>1, <2>1, <2>2, <2>3 DEF Election!Launch, Shares, FeesOf
<1> QED
  BY <1>2, <1>3 DEF Election!Next

LEMMA VotingElects ==
    ASSUME Sound, NoneQueued, Voting
    PROVE  [Election!Next]_Election!vars
<1>1. PICK e \in Elections :
          \/ \E u \in Users : CloseVote(u, e) \/ \E fee \in FeesAsked : VoteFee(u, e, fee)
          \/ OpenFeeTable(e) \/ CloseFeeTable(e) \/ UpdateFee(e)
  BY DEF Voting
<1>2. e \in Evo /\ FeesAsked \subseteq Nat
  BY VotingAssumption
<1>3. UNCHANGED <<accounts, stat>>
  BY VotingKeeps DEF VotesKeepTypes, vars
<1>4. ASSUME NEW u \in Users, NEW fee \in FeesAsked, VoteFee(u, e, fee)
      PROVE  Election!Vote(u, e)
  <2>1. PICK i \in MIN_FEE_INDEX .. MAX_FEE_INDEX :
            feeaccounts' = Put(feeaccounts, <<u, e>>, i)
    BY <1>2, <1>4, VoteFeeKeeps
  <2> QED
    BY <1>3, <2>1 DEF Election!Vote, Put
<1>5. ASSUME NEW u \in Users, CloseVote(u, e)
      PROVE  Election!Abstain(u, e)
  <2>1. feeaccounts' = Delete(feeaccounts, <<u, e>>)
    BY <1>2, <1>5, CloseVoteKeeps
  <2> QED
    BY <1>3, <2>1 DEF Election!Abstain, Delete
<1>6. ASSUME OpenFeeTable(e) \/ CloseFeeTable(e) \/ UpdateFee(e)
      PROVE  UNCHANGED Election!vars
  BY <1>3, <1>6 DEF OpenFeeTable, CloseFeeTable, UpdateFee, Election!vars
<1> QED
  BY <1>1, <1>2, <1>4, <1>5, <1>6 DEF Election!Next

LEMMA NewFeeElects ==
    ASSUME Sound, Counted, NEW e \in DOMAIN changefees, RunChangeFee(e)
    PROVE  Election!Next
<1>1. e \in DOMAIN stat /\ UNCHANGED <<accounts, feeaccounts>>
  BY RunChangeFeeKeeps
<1>2. e \in Evo
  BY <1>1, SoundParts DEF StatOK, IsTable
<1>3. PICK i \in Indices : /\ changefees[e] = FEE_VECTOR[i]
                           /\ IsMedianIndex(i, feetables[e])
                           /\ e \in DOMAIN feetables
  BY DEF Sound, QueuedFees
<1>4. Election!Elected(e, i)
  BY <1>2, <1>3, MedianIsElected
<1>5. i \in Election!Places
  BY DEF Election!Places, FEE_VECTOR, Indices
<1>6. FeesOf(stat') = [FeesOf(stat) EXCEPT ![e] = FEE_VECTOR[i]]
  <2>1. stat[e] \in PoolType
    BY <1>1, SoundParts, PoolShape
  <2> QED
    BY <1>1, <1>3, <2>1 DEF RunChangeFee, ChangeFee, FeesOf, PoolType
<1>7. Election!Elect(e)
  BY <1>1, <1>4, <1>5, <1>6 DEF Election!Elect, FeesOf
<1>8. e \in DOMAIN [f \in DOMAIN stat |-> stat[f].fee]
  BY <1>1
<1> QED
  BY <1>7, <1>8 DEF Election!Next

LEMMA VotingInitElects ==
    ASSUME VotingInit PROVE Election!Init
<1>1. Shares(accounts) \in [Users \X Evo -> Nat]
  BY VotingInitSound, SharesAreNat
<1>2. feeaccounts = [k \in {} |-> DEFAULT_FEE_INDEX]
  BY DEF VotingInit
<1>3. DOMAIN stat \subseteq Evo
  BY VotingInitSound, SoundParts DEF StatOK, IsTable
<1>4. FeesOf(stat) = [e \in DOMAIN stat |-> FEE_VECTOR[DEFAULT_FEE_INDEX]]
  <2>1. FEE_VECTOR[DEFAULT_FEE_INDEX] = DefaultFee
    BY DEF FEE_VECTOR, DEFAULT_FEE_INDEX, DefaultFee
  <2>2. \A e \in DOMAIN stat : stat[e].fee = DefaultFee
    BY VotingAssumption DEF VotingInit, Init
  <2> QED
    BY <2>1, <2>2 DEF FeesOf
<1> QED
  BY <1>1, <1>2, <1>3, <1>4 DEF Election!Init, Shares, FeesOf

(* The contracts implement the election: a fee changes only to the median  *)
(* of votes that weigh what their voters hold (median, updatefee), though  *)
(* only sums are kept, and changed one balance at a time.                  *)
THEOREM ContractsElect == VotingSpec /\ []VotesFit => FeesAreElected
<1>1. VotingInit => Election!Init
  BY VotingInitElects
<1>2. ASSUME Sound, Sound', Counted, [VotingNext]_allvars
      PROVE  [Election!Next]_Election!vars
  <2>1. CASE UNCHANGED allvars
    BY <2>1 DEF allvars, Election!vars
  <2>2. CASE /\ Next /\ Follows /\ Known(accounts)'
             /\ FeesKept \/ \E e \in Evo : Launched(e)
    BY <1>2, <2>2, SwapStepElects DEF Follows
  <2>3. CASE Voting /\ NoneQueued
    BY <1>2, <2>3, VotingElects
  <2>4. CASE \E e \in DOMAIN changefees : RunChangeFee(e)
    BY <1>2, <2>4, NewFeeElects
  <2> QED
    BY <1>2, <2>1, <2>2, <2>3, <2>4, VotingSteps
<1>3. Sound /\ Sound' /\ Counted /\ [VotingNext]_allvars => [Election!Next]_Election!vars
  BY <1>2
<1> QED
  BY <1>1, <1>3, AlwaysSound, AlwaysCounted, PTL
     DEF VotingSpec, FeesAreElected, Election!Spec
=============================================================================
