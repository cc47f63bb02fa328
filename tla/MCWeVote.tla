------------------------------ MODULE MCWeVote -------------------------------
(* Small instances of the swap contract with its fee contract for TLC. *)
EXTENDS WeVoteTheFee

CONSTANTS u1, u2, A, B, E, F   \* users, tokens, pool tokens

(* A pool E, whose tokens both users have, and a pool F that has some of    *)
(* them for a reserve.  Of B and of F nothing is moved by itself.           *)
VoteAmounts ==
    [t \in {A, B, E, F} |-> CASE t = A -> {5} [] t = E -> {1} [] OTHER -> {}]
VoteAccounts ==
    [k \in {<<Dex, A>>, <<Dex, B>>, <<Dex, E>>, <<u1, E>>,
            <<u2, A>>, <<u1, F>>} |->
        CASE k \in {<<Dex, A>>, <<u2, A>>} -> 5 [] k = <<Dex, B>> -> 4
          [] k = <<Dex, E>> -> 3 [] OTHER -> 1]
VoteDeposits == [k \in {u1} \X {A, B} |-> 0]
VoteStat ==
    [e \in {E, F} |->
        IF e = E THEN [supply |-> 4, fee |-> 10, pool |-> [t \in {A, B} |-> 4]]
        ELSE [supply |-> 1, fee |-> 10, pool |-> [t \in {A, E} |-> IF t = A THEN 1 ELSE 3]]]
VoteIndex == [e \in {E, F} |-> DOMAIN VoteStat[e].pool]
VoteRows == {<<u2, E>>}
=============================================================================
