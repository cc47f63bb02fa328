------------------------------ MODULE MCEvoDex -------------------------------
(* Small instances of the swap contract for TLC. *)
EXTENDS EvoDex

CONSTANTS u1, u2, A, B, E, F   \* users, tokens, pool tokens

SwapAmounts == [t \in {A, B, E} |-> {1, 2, 4}]
PoolAmounts == [t \in {A, B, E, F} |-> {1}]

Without == [k \in {} |-> 0]

(* A pool E of A and B, all of whose tokens u1 has, with some deposits. *)
PoolAccounts ==
    [k \in ({u1, Dex} \X {A, B}) \cup {<<u1, E>>} |->
        CASE k = <<Dex, A>> -> 4 [] k = <<Dex, B>> -> 7 [] OTHER -> 3]
PoolDeposits == [k \in {u1} \X {A, B} |-> IF k[2] = A THEN 1 ELSE 2]
PoolStat ==
    [e \in {E} |-> [supply |-> 3, fee |-> 10,
                    pool |-> [t \in {A, B} |-> IF t = A THEN 3 ELSE 5]]]
PoolIndex == [e \in {E} |-> {A, B}]

PoolRows == {u1} \X {A, B, E}

(* A pool of A and B that is older than the index; and F, to be a pool of  *)
(* any two tokens, E among them.                                           *)
OldAccounts ==
    [k \in ({u1, u2, Dex} \X {A, B}) \cup {<<u1, E>>} |->
        CASE k = <<Dex, A>> -> 5 [] k = <<Dex, B>> -> 2 [] k = <<u1, E>> -> 2
          [] OTHER -> 0]
OldDeposits == [k \in {<<u1, A>>} |-> 3]
OldStat ==
    [e \in {E} |-> [supply |-> 2, fee |-> 10,
                    pool |-> [t \in {A, B} |-> 2]]]
OldRows == {u1} \X {A, B, E}
=============================================================================
