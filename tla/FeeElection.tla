----------------------------- MODULE FeeElection -----------------------------
(***************************************************************************)
(* What the holders of pool tokens are promised of the fee of their pool:  *)
(* it starts at the default and then changes only to the one elected, the  *)
(* weighted median of the ballots that stand at that moment, each weighing *)
(* what its voter then holds.  There is no count to be kept: the result is *)
(* a function of ballots and balances.                                     *)
(***************************************************************************)
EXTENDS Integers, Functions, FiniteSets

CONSTANTS
    Users, Pools,
    FeeVector,          \* the fees, a sequence
    Votable,            \* the places in it that may be voted for
    Default             \* the place of the fee without votes

VARIABLES
    shares,             \* <<user, pool>> -> what he holds
    ballots,            \* <<user, pool>> -> place voted for, if he votes
    fee                 \* pool -> fee

vars == <<shares, ballots, fee>>

(* What the ballots for the given places weigh together. *)
Weight(e, places) ==
    LET weight(u) ==
          IF <<u, e>> \in DOMAIN ballots /\ ballots[<<u, e>>] \in places
          THEN shares[<<u, e>>] ELSE 0
    IN  SumFunctionOnSet([u \in Users |-> weight(u)], Users)

Places == DOMAIN FeeVector

(* Half of all votes, rounded down, are for this place or a lower one. *)
Reached(e, i) == Weight(e, 1 .. i) >= Weight(e, Places) \div 2

Elected(e, i) ==
    IF Weight(e, Places) = 0 THEN i = Default
    ELSE Reached(e, i) /\ \A j \in 1 .. i - 1 : ~Reached(e, j)
-----------------------------------------------------------------------------
Vote(u, e) ==
    \E i \in Votable :
        /\ ballots' = [k \in DOMAIN ballots \cup {<<u, e>>} |->
                          IF k = <<u, e>> THEN i ELSE ballots[k]]
        /\ UNCHANGED <<shares, fee>>

Abstain(u, e) ==
    /\ ballots' = [k \in DOMAIN ballots \ {<<u, e>>} |-> ballots[k]]
    /\ UNCHANGED <<shares, fee>>

Elect(e) ==
    \E i \in Places :
        /\ Elected(e, i)
        /\ fee' = [fee EXCEPT ![e] = FeeVector[i]]
        /\ UNCHANGED <<shares, ballots>>

Trade ==
    /\ shares' \in [Users \X Pools -> Nat]
    /\ UNCHANGED <<ballots, fee>>

Launch(e) ==
    /\ e \notin DOMAIN fee
    /\ fee' = [f \in DOMAIN fee \cup {e} |->
                  IF f = e THEN FeeVector[Default] ELSE fee[f]]
    /\ shares' \in [Users \X Pools -> Nat]
    /\ UNCHANGED ballots

Init ==
    /\ shares \in [Users \X Pools -> Nat]
    /\ ballots = [k \in {} |-> Default]
    /\ \E open \in SUBSET Pools : fee = [e \in open |-> FeeVector[Default]]

Next ==
    \/ \E u \in Users, e \in Pools : Vote(u, e) \/ Abstain(u, e)
    \/ \E e \in Pools : Launch(e)
    \/ \E e \in DOMAIN fee : Elect(e)
    \/ Trade

Spec == Init /\ [][Next]_vars
=============================================================================
