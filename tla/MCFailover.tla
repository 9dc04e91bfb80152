------------------------------ MODULE MCFailover ------------------------------
(***************************************************************************)
(* Failover for TLC: small configurations of providers and routes.         *)
(***************************************************************************)
EXTENDS Failover, TLC

CONSTANTS a1, a2, a3, pool, key, plug, ghost

AllProviders == {pool, key, plug, ghost}

\* A pool of two accounts, listed with an empty id and a repeat, an api_key
\* provider and a plugin with an account of its own; the saved order names one
\* account of the pool and one that is no longer listed there.
PairListed == pool :> <<a1, NoName, a2, a1>> @@ key :> <<>> @@ plug :> <<a3>> @@ ghost :> <<>>
PairOrder == pool :> <<a3, a2>> @@ key :> <<>> @@ plug :> <<>> @@ ghost :> <<>>

\* A priority route, and a round-robin one of a provider that is not configured,
\* a plugin and a key.
BothRoutes == {[names |-> <<pool, key>>, strategy |-> "priority"],
               [names |-> <<ghost, plug, key>>, strategy |-> "round_robin"]}
Symmetry == Permutations(Requests)
===============================================================================
