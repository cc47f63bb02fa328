------------------------------ MODULE PoolMarket -----------------------------
(***************************************************************************)
(* What the users of the swap contract are promised of their money,        *)
(* wherever they keep it: only its owner gives it away, to another user or *)
(* to one pool.  An exchange takes from a pool no more than its product    *)
(* allows, a share of it is bought and sold at no less than the proportion *)
(* of its reserves, and nothing is made or lost but the shares.            *)
(***************************************************************************)
EXTENDS Integers

CONSTANTS
    Users, Tokens,
    Shares              \* the tokens that are shares of a pool

VARIABLES
    wealth,             \* user -> token -> what he owns of it
    pools               \* share -> the supply of it, and the reserves

vars == <<wealth, pools>>

Supply(market, e) == IF e \in DOMAIN market THEN market[e].supply ELSE 0

Reserve(market, e, t) ==
    IF e \in DOMAIN market /\ t \in DOMAIN market[e].reserves
    THEN market[e].reserves[t] ELSE 0

(* Another user gets what this one gives. *)
Give(a, b, t) ==
    /\ \E n \in 1 .. wealth[a][t] :
          wealth' = [wealth EXCEPT ![a][t] = @ - n, ![b][t] = @ + n]
    /\ UNCHANGED pools

(* Nobody and no other pool takes part.  What the user gives is in the     *)
(* reserves, what he gets is out of them or new shares.                    *)
Between(u, e) ==
    /\ \A v \in Users \ {u} : wealth'[v] = wealth[v]
    /\ \A f \in DOMAIN pools \cup DOMAIN pools' :
          f # e => f \in DOMAIN pools \cap DOMAIN pools' /\ pools'[f] = pools[f]
    /\ \A t \in Tokens :
          /\ wealth'[u][t] >= 0
          /\ wealth'[u][t] - wealth[u][t] =
                (IF t = e THEN Supply(pools', e) - Supply(pools, e) ELSE 0)
                  - (Reserve(pools', e, t) - Reserve(pools, e, t))

(* The reserves after a step of an existing pool: still some of each token.*)
Moves(e) ==
    /\ e \in DOMAIN pools \cap DOMAIN pools'
    /\ DOMAIN pools'[e].reserves = DOMAIN pools[e].reserves
    /\ \A t \in DOMAIN pools[e].reserves : Reserve(pools', e, t) > 0

(* The product of the reserves does not fall, and who gives gets.          *)
Exchange(u, e) ==
    LET p == pools[e].reserves
        q == pools'[e].reserves
    IN  /\ Between(u, e) /\ Moves(e)
        /\ pools'[e].supply = pools[e].supply
        /\ \E t \in DOMAIN p : q[t] <= p[t]
        /\ \A s, t \in DOMAIN p : s # t => q[s] * q[t] >= p[s] * p[t]

(* A reserve is to the supply at least what it was.  Who buys shares pays  *)
(* of each token, who sells pays of none.                                  *)
Provide(u, e) ==
    LET p == pools[e]
        q == pools'[e]
    IN  /\ Between(u, e) /\ Moves(e)
        /\ q.supply > 0
        /\ \A t \in DOMAIN p.reserves :
              /\ p.supply * q.reserves[t] >= p.reserves[t] * q.supply
              /\ q.supply > p.supply => q.reserves[t] > p.reserves[t]
              /\ q.supply < p.supply => q.reserves[t] <= p.reserves[t]

(* The first shares of a pool: the root of its product, rounded down.      *)
Found(u, e) ==
    /\ e \notin DOMAIN pools /\ e \in DOMAIN pools'
    /\ Between(u, e)
    /\ LET q == pools'[e].reserves
           n == pools'[e].supply
       IN  \E s, t \in Tokens \ {e} :
              /\ s # t /\ DOMAIN q = {s, t}
              /\ q[s] > 0 /\ q[t] > 0
              /\ n * n <= q[s] * q[t] /\ q[s] * q[t] < (n + 1) * (n + 1)
-----------------------------------------------------------------------------
Init ==
    /\ wealth \in [Users -> [Tokens -> Nat]]
    /\ DOMAIN pools \subseteq Shares

Next ==
    \/ \E a, b \in Users, t \in Tokens : a # b /\ Give(a, b, t)
    \/ \E u \in Users, e \in Shares : Exchange(u, e) \/ Provide(u, e) \/ Found(u, e)

Spec == Init /\ [][Next]_vars
=============================================================================
