---------------------------- MODULE WeVoteTheFee -----------------------------
(***************************************************************************)
(* The fee contract, contracts/swapdex/wevotethefee, together with the     *)
(* swap contract: every pool has it for its fee_contract.                  *)
(*                                                                         *)
(* Who holds pool tokens votes for a fee with the weight of his balance.   *)
(* The contract keeps, per pool, the sum of the balances behind each fee.  *)
(* It follows the balances by the notifications of the swap contract, and  *)
(* answers with an inline action, changefee, which the chain executes      *)
(* within the same transaction: no other transaction comes between.        *)
(***************************************************************************)
EXTENDS EvoDex

CONSTANTS
    FeesAsked,          \* the fees users vote for
    Elections,          \* a bound: the pools that get a table of votes
    IntSpan             \* 2^32, how many values an int has

VARIABLES
    feeaccounts,        \* feeaccount table: <<user, pool token>> -> fee_index_voted
    feetables,          \* feetable table: pool token -> votes
    changefees          \* inline actions sent: pool token -> newfee

fvars == <<feeaccounts, feetables, changefees>>
allvars == <<stat, evodexacnts, accounts, evoindex, feeaccounts, feetables, changefees>>

(* The positions in the array are counted from one here. *)
FEE_VECTOR == <<1, 2, 3, 5, 7, 10, 15, 20, 30, 50, 75, 100, 150, 200, 300>>
Indices == 1 .. 15
DEFAULT_FEE_INDEX == 6
MIN_FEE_INDEX     == 6
MAX_FEE_INDEX     == 12

ASSUME VotingAssumption ==
    /\ IntSpan \in Nat \ {0}
    /\ FeesAsked \subseteq Nat
    /\ {FEE_VECTOR[i] : i \in Indices} \subseteq Fees
    /\ Elections \subseteq Evo
    /\ \A k \in DOMAIN Accounts0 : k[2] \in Evo => k[2] \in DOMAIN Stat0
    /\ \A e \in DOMAIN Stat0 : Stat0[e].fee = DefaultFee

(* get_index: the least fee of the vector that is not below the one asked. *)
IsIndexOf(i, fee) ==
    FEE_VECTOR[i] >= fee /\ \A j \in 1 .. i - 1 : FEE_VECTOR[j] < fee

(* partial_sum *)
PartialSum(votes, i) == SumFunctionOnSet(votes, 1 .. i)

(* Fault: half of the votes is rounded up. *)
HalfRoundedUp(votes) == (PartialSum(votes, 15) + 1) \div 2

Half(votes) == PartialSum(votes, 15) \div 2

(* median.  The partial sums are in ascending order, since no votes are    *)
(* negative: lower_bound finds the first that reaches one half.            *)
IsMedianIndex(i, votes) ==
    IF PartialSum(votes, 15) = 0 THEN i = DEFAULT_FEE_INDEX
    ELSE /\ PartialSum(votes, i) >= Half(votes)
         /\ \A j \in 1 .. i - 1 : PartialSum(votes, j) < Half(votes)

(* updatefee; that an index is found is a check of median. *)
UpdateFeeBy(tables, e) ==
    \E i \in Indices :
        /\ IsMedianIndex(i, tables[e])
        /\ changefees' = [x \in {e} |-> FEE_VECTOR[i]]
-----------------------------------------------------------------------------
IsVoter(user, e) == <<user, e>> \in DOMAIN feeaccounts

(* addvote *)
AddVote(tables, e, index, n) == [tables EXCEPT ![e][index] = @ + n]

(* add_balance: only voters count, and for them there must be a table. *)
CanAddVotes(user, e) == IsVoter(user, e) => e \in DOMAIN feetables

AddVotes(tables, user, e, n) ==
    IF IsVoter(user, e) THEN AddVote(tables, e, feeaccounts[<<user, e>>], n) ELSE tables

(* Nothing is voted on: the fee contract is not notified, or not concerned. *)
NotConcerned == UNCHANGED <<feeaccounts, feetables, changefees>>

(* Fault: the sender's votes stay. *)
SenderKeepsVotes(from, to, e, n) ==
    /\ CanAddVotes(from, e) /\ CanAddVotes(to, e)
    /\ feetables' = AddVotes(feetables, to, e, n)
    /\ IF IsVoter(to, e) THEN UpdateFeeBy(feetables', e) ELSE UNCHANGED changefees
    /\ UNCHANGED feeaccounts

(* ontransfer; the fee is updated for who receives.                        *)
OnTransfer(from, to, e, n) ==
    /\ CanAddVotes(from, e) /\ CanAddVotes(to, e)
    /\ feetables' = AddVotes(AddVotes(feetables, from, e, -n), to, e, n)
    /\ IF IsVoter(to, e) THEN UpdateFeeBy(feetables', e) ELSE UNCHANGED changefees
    /\ UNCHANGED feeaccounts

(* onaddliquidity, and onremliquidity for a negative amount. *)
OnLiquidity(user, e, n) ==
    /\ CanAddVotes(user, e)
    /\ feetables' = AddVotes(feetables, user, e, n)
    /\ IF IsVoter(user, e) THEN UpdateFeeBy(feetables', e) ELSE UNCHANGED changefees
    /\ UNCHANGED feeaccounts
-----------------------------------------------------------------------------
(***************************************************************************)
(* The actions of the fee contract.                                        *)
(***************************************************************************)

(* Fault: the vote is added, also when the user has voted before. *)
VotedAgain(user, e, index, balance) == AddVote(feetables, e, index, balance)

Revoted(user, e, index, balance) ==
    AddVote(AddVotes(feetables, user, e, -balance), e, index, balance)

(* Fault: whatever is asked is voted for. *)
AnyFee(fee) == fee <= FEE_VECTOR[15]

InRange(fee) == FEE_VECTOR[MIN_FEE_INDEX] <= fee /\ fee <= FEE_VECTOR[MAX_FEE_INDEX]

VoteFee(user, e, fee) ==
    \E index \in Indices :
        /\ IsIndexOf(index, fee)
        /\ InRange(fee)
        /\ <<user, e>> \in DOMAIN accounts
        /\ e \in DOMAIN feetables
        /\ feetables' = Revoted(user, e, index, accounts[<<user, e>>])
        /\ feeaccounts' = Put(feeaccounts, <<user, e>>, index)
        /\ UpdateFeeBy(feetables', e)
        /\ UNCHANGED vars

CloseVote(user, e) ==
    /\ IsVoter(user, e)
    /\ <<user, e>> \in DOMAIN accounts
    /\ e \in DOMAIN feetables
    /\ feetables' = AddVotes(feetables, user, e, -accounts[<<user, e>>])
    /\ feeaccounts' = Delete(feeaccounts, <<user, e>>)
    /\ UpdateFeeBy(feetables', e)
    /\ UNCHANGED vars

OpenFeeTable(e) ==
    /\ e \notin DOMAIN feetables
    /\ feetables' = Put(feetables, e, [i \in Indices |-> 0])
    /\ UNCHANGED <<feeaccounts, changefees>>
    /\ UNCHANGED vars

(* Fault: the fees that may not be voted for are not looked at, and one    *)
(* that may be is not either.                                              *)
LowVotesOnly(votes) == \A i \in 1 .. 7 : votes[i] = 0

(* The votes are compared as int, by their lower 32 bits. *)
IsEmpty(votes) == \A i \in Indices : votes[i] % IntSpan = 0

CloseFeeTable(e) ==
    /\ e \in DOMAIN feetables
    /\ IsEmpty(feetables[e])
    /\ feetables' = Delete(feetables, e)
    /\ UNCHANGED <<feeaccounts, changefees>>
    /\ UNCHANGED vars

(* By anyone; changefee fails for a table without a pool.                  *)
UpdateFee(e) ==
    /\ e \in DOMAIN feetables /\ e \in DOMAIN stat
    /\ UpdateFeeBy(feetables, e)
    /\ UNCHANGED <<feeaccounts, feetables>>
    /\ UNCHANGED vars

(* The inline action, in the swap contract. *)
RunChangeFee(e) ==
    /\ e \in DOMAIN changefees
    /\ ChangeFee(e, changefees[e])
    /\ changefees' = Delete(changefees, e)
    /\ UNCHANGED <<feeaccounts, feetables>>
-----------------------------------------------------------------------------
(***************************************************************************)
(* The actions of the swap contract, with the notification by each         *)
(* transfer of pool tokens and by liquidity.  The exchange of a deposit    *)
(* moves no pool tokens of users, inittoken does not notify.               *)
(***************************************************************************)
VotingInit ==
    /\ Init
    /\ feeaccounts = [k \in {} |-> 0]
    /\ feetables = [e \in {} |-> 0]
    /\ changefees = [e \in {} |-> 0]

NotifiedDepositing ==
    \/ \E row \in ExtRows :
          \/ OpenExt(row[1], row[2]) /\ NotConcerned
          \/ \E to \in Users :
                /\ CloseExt(row[1], to, row[2])
                /\ IF evodexacnts[row] = 0 THEN NotConcerned
                   ELSE OnTransfer(Dex, to, row[2], evodexacnts[row])
    \/ \E u, to \in Users, t \in Tokens : \E n \in Amounts[t] :
          \/ Deposit(u, to, t, n) /\ OnTransfer(u, Dex, t, n)
          \/ Withdraw(u, to, t, n) /\ OnTransfer(Dex, to, t, n)

NotifiedProviding ==
    \E u \in Users, e \in DOMAIN stat :
        \E n \in Amounts[e], l \in [DOMAIN stat[e].pool -> Limits] :
            \/ AddLiquidity(u, e, n, l) /\ OnLiquidity(u, e, n)
            \/ RemLiquidity(u, e, n, l) /\ OnLiquidity(u, e, -n)

(* memoexchange is notified of twice: of the tokens paid, which are not    *)
(* for a voter, and of those sent back.                                    *)
OnMemoExchange(user, e, token, n) ==
    LET other == Other(e, token)
        paid  == AddVotes(feetables, user, token, -n)
    IN  /\ CanAddVotes(user, token) /\ CanAddVotes(user, other)
        /\ feetables' = AddVotes(paid, user, other, Out(e, token, n))
        /\ IF IsVoter(user, other) THEN UpdateFeeBy(feetables', other)
                                   ELSE UNCHANGED changefees
        /\ UNCHANGED feeaccounts

NotifiedTrading ==
    \E u \in Users, e \in DOMAIN stat, l \in Limits :
        \E t \in DOMAIN stat[e].pool : \E n \in Amounts[t] :
            \/ (Exchange(u, e, t, n, l) \/ Exchange(u, e, t, -n, -l)) /\ NotConcerned
            \/ MemoExchange(u, e, t, n, l) /\ OnMemoExchange(u, e, t, n)

NotifiedHolding ==
    \E u \in Users, e \in Evo :
        \/ \E to \in Users, n \in Amounts[e] :
                Transfer(u, to, e, n) /\ OnTransfer(u, to, e, n)
        \/ (Open(u, e) \/ Close(u, e)) /\ NotConcerned

Founding ==
    \/ \E u \in Users, e \in Evo, s, t \in Tokens :
          \E m \in Amounts[s], n \in Amounts[t] :
              InitToken(u, e, s, m, t, n) /\ NotConcerned
    \/ \E e \in Evo : IndexPair(e) /\ NotConcerned

Voting ==
    \E e \in Elections :
        \/ \E u \in Users : CloseVote(u, e) \/ \E fee \in FeesAsked : VoteFee(u, e, fee)
        \/ OpenFeeTable(e) \/ CloseFeeTable(e) \/ UpdateFee(e)

Transaction ==
    NotifiedDepositing \/ NotifiedProviding \/ NotifiedTrading
        \/ NotifiedHolding \/ Founding \/ Voting

VotingNext ==
    \/ DOMAIN changefees = {} /\ Transaction
    \/ \E e \in DOMAIN changefees : RunChangeFee(e)

VotingSpec == VotingInit /\ [][VotingNext]_allvars
-----------------------------------------------------------------------------
(***************************************************************************)
(* The properties.                                                         *)
(***************************************************************************)
VotingTypeOK ==
    /\ TypeOK
    /\ IsTable(feeaccounts, Users \X Evo, MIN_FEE_INDEX .. MAX_FEE_INDEX)
    /\ IsTable(feetables, Evo, [Indices -> Int])
    /\ IsTable(changefees, DOMAIN stat, {FEE_VECTOR[i] : i \in Indices})

(* What the voters for one fee hold together. *)
Backing(e, index) ==
    LET backs(u) == IsVoter(u, e) /\ feeaccounts[<<u, e>>] = index
    IN  SumFunctionOnSet(
            [u \in Users |-> IF backs(u) THEN Row(accounts, <<u, e>>) ELSE 0], Users)

Votes(e, index) == IF e \in DOMAIN feetables THEN feetables[e][index] ELSE 0

(* The votes for each fee are what its voters hold, whatever way pool      *)
(* tokens take: transfers, deposits of them and withdrawals to others,     *)
(* liquidity, exchanges between pools, and votes changed or closed in      *)
(* between.  A table that is closed has lost no votes.                     *)
VotesAreBalances ==
    \A e \in Evo, i \in Indices : Votes(e, i) = Backing(e, i)

(* The fee contract, which may make any transfer fail, never does so for a *)
(* voter who wants to give away or sell what he holds.                     *)
VotersAreFree ==
    \A e \in Evo, u \in Users :
        IsVoter(u, e) /\ Row(accounts, <<u, e>>) > 0 => e \in DOMAIN feetables

(* The contracts are an election: a fee changes only to the median of votes*)
(* that weigh what their voters hold at that moment.                       *)
Election ==
    INSTANCE FeeElection WITH
        Pools     <- Evo,
        FeeVector <- FEE_VECTOR,
        Votable   <- MIN_FEE_INDEX .. MAX_FEE_INDEX,
        Default   <- DEFAULT_FEE_INDEX,
        shares    <- [k \in Users \X Evo |-> Row(accounts, k)],
        ballots   <- feeaccounts,
        fee       <- [e \in DOMAIN stat |-> stat[e].fee]
FeesAreElected == Election!Spec

(* Claimed by wevotethefee.contracts.md: to close a table fails if it is   *)
(* storing at least one vote.                                              *)
TablesCloseEmpty ==
    [][\A e \in DOMAIN feetables \ DOMAIN feetables' :
         \A i \in Indices : feetables[e][i] = 0]_allvars

(* Claimed by wevotethefee/README.md: the possible fee values are 10 .. 100. *)
FeesAreVotable ==
    \A e \in DOMAIN stat :
        \E i \in MIN_FEE_INDEX .. MAX_FEE_INDEX : stat[e].fee = FEE_VECTOR[i]

(* Claimed by wevotethefee.contracts.md: to update a fee by hand is always *)
(* unnecessary, since every other action that should does it.              *)
FeesAreCurrent ==
    \A e \in DOMAIN feetables \cap DOMAIN stat :
        DOMAIN changefees = {} =>
            \A i \in Indices :
                IsMedianIndex(i, feetables[e]) => stat[e].fee = FEE_VECTOR[i]
=============================================================================
